------------------------------- MODULE Responses -------------------------------
(***************************************************************************)
(* How an answer of the scheduler or the receiver becomes what a method of *)
(* the SDK reports.  An answer is a status and a content type.  The        *)
(* generated client decodes some answers and gives back an error for all   *)
(* others; the method then switches over the decoded types.  For each      *)
(* request there is the set of the answers that are decoded and the cases  *)
(* of the switch, by what is reported.  "ok" is a result without an error, *)
(* "none" neither a result nor an error.                                   *)
(***************************************************************************)
EXTENDS Integers

Any == {"json", "html", "plain"}
Texts == {"html", "plain"}

CreateRunDecoded == ({202} \X {"json"}) \union ({400, 401, 500} \X Any)

CreateRunCases == [
  ok |-> {202} \X {"json"},
  BadRequestError |-> {<<400, "plain">>},
  UnauthorizedError |-> {401} \X Any,
  InternalServerErr |-> {500} \X Any]

GetMetadataDecoded == ({200} \X {"json"}) \union ({400, 401, 404} \X Any)

GetMetadataCases == [
  ok |-> {200} \X {"json"},
  none |-> {404} \X {"json", "plain"},
  BadRequestError |-> {400} \X {"json", "plain"},
  UnauthorizedError |-> {401} \X Any]

GetBufferedRequestDecoded == {200, 400, 401, 404} \X Any

GetBufferedRequestCases == [
  ok |-> {<<200, "plain">>},
  BadRequestError |-> {400} \X Texts,
  UnauthorizedError |-> {401} \X Any]

CancelRunDecoded == {200, 400, 401, 404, 500} \X Texts

CancelRunCases == [
  ok |-> {200} \X Texts,
  BadRequestError |-> {400} \X Texts,
  UnauthorizedError |-> {401} \X Texts]

UpdateRunTagDecoded == {200, 400, 401} \X Texts

UpdateRunTagCases == [
  ok |-> {<<200, "plain">>},
  BadRequestError |-> {400} \X Texts,
  UnauthorizedError |-> {401} \X Texts]

PayloadDecoded == ({200} \X {"json"}) \union ({400, 401, 403, 404} \X Any)

PayloadCases == [
  ok |-> {200} \X {"json"},
  none |-> {404} \X Texts,
  BadRequestError |-> {400} \X Texts,
  UnauthorizedError |-> ({401} \X Texts) \union ({403} \X {"json", "plain"})]

CompleteRequestDecoded == ({202} \X {"json"}) \union ({400, 401, 404} \X Any)

CompleteRequestCases == [
  ok |-> {202} \X {"json"},
  BadRequestError |-> {400} \X {"json", "plain"},
  UnauthorizedError |-> {401} \X Any,
  NotFoundError |-> {404} \X {"json", "plain"}]

CheckRequestDecoded == ({200} \X {"json"}) \union ({400, 401, 404} \X Any)

CheckRequestCases == [
  ok |-> {200} \X {"json"},
  BadRequestError |-> {400} \X {"json", "html"},
  UnauthorizedError |-> {401} \X {"json", "html"},
  NotFoundError |-> {404} \X {"json", "html"}]

\* A poll of awaitRun.
GetResultDecoded == ({200} \X {"json"}) \union ({400, 401, 404} \X Any)

GetResultCases == [
  ok |-> {200} \X {"json"},
  none |-> {404} \X {"json", "plain"},
  UnauthorizedError |-> {401} \X Any]

\* The listing of a tag by getRuns.
GetResultsDecoded == ({200} \X {"json"}) \union ({400, 401} \X Any)

GetResultsCases == [
  ok |-> {200} \X {"json"},
  BadRequestError |-> {400} \X {"json", "plain"},
  UnauthorizedError |-> {401} \X Any]

-------------------------------------------------------------------------------
Decoded == [
  GetResult |-> GetResultDecoded,
  GetResults |-> GetResultsDecoded,
  CreateRun |-> CreateRunDecoded,
  GetMetadata |-> GetMetadataDecoded,
  GetBufferedRequest |-> GetBufferedRequestDecoded,
  CancelRun |-> CancelRunDecoded,
  UpdateRunTag |-> UpdateRunTagDecoded,
  Payload |-> PayloadDecoded,
  CompleteRequest |-> CompleteRequestDecoded,
  CheckRequest |-> CheckRequestDecoded]

Cases == [
  GetResult |-> GetResultCases,
  GetResults |-> GetResultsCases,
  CreateRun |-> CreateRunCases,
  GetMetadata |-> GetMetadataCases,
  GetBufferedRequest |-> GetBufferedRequestCases,
  CancelRun |-> CancelRunCases,
  UpdateRunTag |-> UpdateRunTagCases,
  Payload |-> PayloadCases,
  CompleteRequest |-> CompleteRequestCases,
  CheckRequest |-> CheckRequestCases]

Requests == DOMAIN Cases

\* Both an answer that is not decoded and one that no case handles.
Unhandled == "SdkErr"

\* The cases that are for an answer, at most one for a type switch is over
\* disjoint types.
Matching(request, answer) ==
  {kind \in DOMAIN Cases[request] :
     answer \in Decoded[request] \intersect Cases[request][kind]}

\* Mutation: the switch has no default, and falls through to a success.
ReportedLenient(request, answer) ==
  LET kinds == Matching(request, answer)
  IN  IF kinds = {} THEN {"ok"} ELSE kinds

\* What an answer may be reported as; an answer in JSON may be one that cannot
\* be read (module Exchange).
Reported(request, answer) ==
  LET kinds == Matching(request, answer)
  IN  IF kinds = {} THEN {Unhandled}
      ELSE kinds \union (IF answer[2] = "json" THEN {Unhandled} ELSE {})
===============================================================================
