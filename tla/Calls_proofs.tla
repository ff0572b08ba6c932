------------------------------ MODULE Calls_proofs ----------------------------
(***************************************************************************)
(* Proofs about Calls, for any number of retries and any arguments.        *)
(*                                                                         *)
(* As long as a call is not over, what the server has applied is what was  *)
(* lost, and one more if the answer to the last attempt is still to come   *)
(* (Accounts).  What the tables of Responses say of an answer ends the     *)
(* argument: no success is read from a refusal (ReportFits).  No path of   *)
(* one operation can be taken for another's (RoutedRight).                 *)
(***************************************************************************)
EXTENDS Calls, TLAPS

\* What is applied was sent.
SentFirst ==
  /\ pc = "ready" => attempts <= RetryMax
  /\ request \in Effectful => applied <= attempts
  /\ request \in Effectful /\ pc = "sent" => applied < attempts
  /\ request \notin Effectful => applied = 0 /\ pc # "applied"

\* A method that changes something makes one request, of its own name.
OwnRequest == method \in Effectful => request = method

\* The answers that are lost account for what was applied more than once.
Accounts ==
  /\ pc \in {"ready", "sent"} => applied = lost
  /\ pc = "applied" => applied = lost + 1
  /\ Over /\ method \in Effectful =>
       /\ outcome = "ok" => applied = lost + 1
       /\ outcome \in Refusals => applied = lost

IInv == TypeOK /\ SentFirst /\ OwnRequest /\ Accounts

-------------------------------------------------------------------------------
(* The tables.                                                             *)

Kinds == {"ok", "none", "SdkErr", "InternalServerErr"} \union Refusals

\* A success is read from a success and a refusal from a refusal.
Fits(kind, a) ==
  /\ kind \in Kinds
  /\ kind = "ok" => a[1] < 300
  /\ kind \in Refusals => a[1] >= 400 /\ a[1] < 500

AllFit(cases, a) == \A k \in DOMAIN cases : a \in cases[k] => Fits(k, a)

LEMMA RequestNames ==
  Requests = {"GetResult", "GetResults", "CreateRun", "GetMetadata",
              "GetBufferedRequest", "CancelRun", "UpdateRunTag", "Payload",
              "CompleteRequest", "CheckRequest"}
BY DEF Requests, Cases

\* Whatever the answer is, what is reported of it fits its status.
LEMMA ReportFits ==
  ASSUME NEW q \in Requests, NEW a \in Answers, NEW result \in Reported(q, a)
  PROVE  Fits(result, a)
<1> USE DEF AllFit, Refusals, Kinds, Fits, Any, Texts
<1>1. AllFit(GetResultCases, a)
  BY DEF GetResultCases
<1>2. AllFit(GetResultsCases, a)
  BY DEF GetResultsCases
<1>3. AllFit(CreateRunCases, a)
  BY DEF CreateRunCases
<1>4. AllFit(GetMetadataCases, a)
  BY DEF GetMetadataCases
<1>5. AllFit(GetBufferedRequestCases, a)
  BY DEF GetBufferedRequestCases
<1>6. AllFit(CancelRunCases, a)
  BY DEF CancelRunCases
<1>7. AllFit(UpdateRunTagCases, a)
  BY DEF UpdateRunTagCases
<1>8. AllFit(PayloadCases, a)
  BY DEF PayloadCases
<1>9. AllFit(CompleteRequestCases, a)
  BY DEF CompleteRequestCases
<1>10. AllFit(CheckRequestCases, a)
  BY DEF CheckRequestCases
<1>11. AllFit(Cases[q], a)
  <2> HIDE DEF AllFit, Fits
  <2> QED
    BY <1>1, <1>2, <1>3, <1>4, <1>5, <1>6, <1>7, <1>8, <1>9, <1>10,
       RequestNames
    DEF Cases
<1>12. Matching(q, a) \subseteq {k \in DOMAIN Cases[q] : a \in Cases[q][k]}
  BY DEF Matching
<1>13. result \in Matching(q, a) \/ result = "SdkErr"
  BY DEF Reported, Unhandled
<1> QED
  BY <1>11, <1>12, <1>13

-------------------------------------------------------------------------------
(* The paths.  An operation is told by the length of its path and by its   *)
(* third segment, whatever the names are.                                  *)

Length(q) ==
  CASE q = "UpdateRunTag" -> 7
    [] q = "GetResults" -> 5
    [] q = "CreateRun" -> 4
    [] OTHER -> 6

Third(q) ==
  CASE q \in {"GetMetadata", "UpdateRunTag"} -> "metadata"
    [] q \in {"GetResult", "GetResults"} -> "results"
    [] q = "GetBufferedRequest" -> "buffer"
    [] q = "CancelRun" -> "cancel"
    [] q = "LegacyPayload" -> "payload"
    [] q = "CreateRun" -> "run"
    [] q = "Payload" -> "payloads"
    [] q = "CheckRequest" -> "check"
    [] q = "CompleteRequest" -> "complete"

OneName == {"GetResults", "CreateRun"}

\* The path s of the operation q, with these names.
HasPath(s, q, algorithm, id, name) ==
  /\ Len(s) = Length(q) /\ DOMAIN s = 1 .. Length(q)
  /\ s[3] = Third(q)
  /\ q = "GetResults" => s[5] = name
  /\ q = "CreateRun" => s[4] = algorithm
  /\ q \notin OneName => s[Length(q) - 2] = algorithm /\ s[Length(q)] = id

\* Nothing in the template T of q is a placeholder but its names.
NamesOnly(T, q) ==
  /\ T[3] \notin Placeholders
  /\ \A i \in DOMAIN T :
       T[i] \in Placeholders =>
         i = Length(q) \/ (i = Length(q) - 2 /\ q \notin OneName)

LEMMA TemplateNames ==
  DOMAIN Templates =
    {"GetBufferedRequest", "CancelRun", "GetMetadata", "UpdateRunTag",
     "LegacyPayload", "GetResult", "GetResults", "CreateRun", "Payload",
     "CheckRequest", "CompleteRequest"}
BY DEF Templates

\* No two operations have the same length and third segment.
LEMMA Distinct ==
  ASSUME NEW t \in DOMAIN Templates, NEW q \in Requests,
         Length(t) = Length(q), Third(t) = Third(q)
  PROVE  t = q
BY TemplateNames, RequestNames DEF Length, Third

LEMMA SentPath ==
  ASSUME NEW q \in Requests, NEW p
  PROVE  HasPath(Sent(q, p).path, q,
                 p.algorithmName, p.requestId, p.requestTag)
<1>1. HasPath(GetBufferedRequestCall(p).path, "GetBufferedRequest",
             p.algorithmName, p.requestId, p.requestTag)
  BY
  DEF GetBufferedRequestCall, Get, Post, ToRun, HasPath, Length, Third, OneName
<1>2. HasPath(CancelRunCall(p).path, "CancelRun",
             p.algorithmName, p.requestId, p.requestTag)
  BY DEF CancelRunCall, Get, Post, ToRun, HasPath, Length, Third, OneName
<1>3. HasPath(GetMetadataCall(p).path, "GetMetadata",
             p.algorithmName, p.requestId, p.requestTag)
  BY DEF GetMetadataCall, Get, Post, ToRun, HasPath, Length, Third, OneName
<1>4. HasPath(UpdateRunTagCall(p).path, "UpdateRunTag",
             p.algorithmName, p.requestId, p.requestTag)
  BY DEF UpdateRunTagCall, Get, Post, ToRun, HasPath, Length, Third, OneName
<1>5. HasPath(GetResultCall(p).path, "GetResult",
             p.algorithmName, p.requestId, p.requestTag)
  BY DEF GetResultCall, Get, Post, ToRun, HasPath, Length, Third, OneName
<1>6. HasPath(GetResultsCall(p).path, "GetResults",
             p.algorithmName, p.requestId, p.requestTag)
  BY DEF GetResultsCall, Get, Post, ToRun, HasPath, Length, Third, OneName
<1>7. HasPath(CreateRunCall(p).path, "CreateRun",
             p.algorithmName, p.requestId, p.requestTag)
  BY DEF CreateRunCall, Get, Post, ToRun, HasPath, Length, Third, OneName
<1>8. HasPath(PayloadCall(p).path, "Payload",
             p.algorithmName, p.requestId, p.requestTag)
  BY DEF PayloadCall, Get, Post, ToRun, HasPath, Length, Third, OneName
<1>9. HasPath(CheckRequestCall(p).path, "CheckRequest",
             p.algorithmName, p.requestId, p.requestTag)
  BY DEF CheckRequestCall, Get, Post, ToRun, HasPath, Length, Third, OneName
<1>10. HasPath(CompleteRequestCall(p).path, "CompleteRequest",
             p.algorithmName, p.requestId, p.requestTag)
  BY DEF CompleteRequestCall, Get, Post, ToRun, HasPath, Length, Third, OneName
<1> QED
  BY <1>1, <1>2, <1>3, <1>4, <1>5, <1>6, <1>7, <1>8, <1>9, <1>10, RequestNames
  DEF Sent

LEMMA TemplatePath ==
  ASSUME NEW t \in DOMAIN Templates
  PROVE  /\ HasPath(Templates[t].path, t, "algorithmName", "requestId",
                    "requestTag")
         /\ NamesOnly(Templates[t].path, t)
<1>1. /\ HasPath(Templates.GetBufferedRequest.path, "GetBufferedRequest",
                "algorithmName", "requestId", "requestTag")
      /\ NamesOnly(Templates.GetBufferedRequest.path, "GetBufferedRequest")
  <2>1. Templates.GetBufferedRequest
          = Get(<<"algorithm", "v1", "buffer">> \o ARun)
    BY DEF Templates
  <2> QED
    BY <2>1 DEF Get, Post, ARun, HasPath, NamesOnly, Placeholders, Length,
                Third, OneName
<1>2. /\ HasPath(Templates.CancelRun.path, "CancelRun",
                "algorithmName", "requestId", "requestTag")
      /\ NamesOnly(Templates.CancelRun.path, "CancelRun")
  <2>1. Templates.CancelRun
          = Post(<<"algorithm", "v1", "cancel">> \o ARun)
    BY DEF Templates
  <2> QED
    BY <2>1 DEF Get, Post, ARun, HasPath, NamesOnly, Placeholders, Length,
                Third, OneName
<1>3. /\ HasPath(Templates.GetMetadata.path, "GetMetadata",
                "algorithmName", "requestId", "requestTag")
      /\ NamesOnly(Templates.GetMetadata.path, "GetMetadata")
  <2>1. Templates.GetMetadata
          = Get(<<"algorithm", "v1", "metadata">> \o ARun)
    BY DEF Templates
  <2> QED
    BY <2>1 DEF Get, Post, ARun, HasPath, NamesOnly, Placeholders, Length,
                Third, OneName
<1>4. /\ HasPath(Templates.UpdateRunTag.path, "UpdateRunTag",
                "algorithmName", "requestId", "requestTag")
      /\ NamesOnly(Templates.UpdateRunTag.path, "UpdateRunTag")
  <2>1. Templates.UpdateRunTag
          = Post(<<"algorithm", "v1", "metadata", "tags">> \o ARun)
    BY DEF Templates
  <2> QED
    BY <2>1 DEF Get, Post, ARun, HasPath, NamesOnly, Placeholders, Length,
                Third, OneName
<1>5. /\ HasPath(Templates.LegacyPayload.path, "LegacyPayload",
                "algorithmName", "requestId", "requestTag")
      /\ NamesOnly(Templates.LegacyPayload.path, "LegacyPayload")
  <2>1. Templates.LegacyPayload
          = Get(<<"algorithm", "v1", "payload">> \o ARun)
    BY DEF Templates
  <2> QED
    BY <2>1 DEF Get, Post, ARun, HasPath, NamesOnly, Placeholders, Length,
                Third, OneName
<1>6. /\ HasPath(Templates.GetResult.path, "GetResult",
                "algorithmName", "requestId", "requestTag")
      /\ NamesOnly(Templates.GetResult.path, "GetResult")
  <2>1. Templates.GetResult
          = Get(<<"algorithm", "v1", "results">> \o ARun)
    BY DEF Templates
  <2> QED
    BY <2>1 DEF Get, Post, ARun, HasPath, NamesOnly, Placeholders, Length,
                Third, OneName
<1>7. /\ HasPath(Templates.GetResults.path, "GetResults",
                "algorithmName", "requestId", "requestTag")
      /\ NamesOnly(Templates.GetResults.path, "GetResults")
  <2>1. Templates.GetResults
          = Get(<<"algorithm", "v1", "results", "tags", "requestTag">>)
    BY DEF Templates
  <2> QED
    BY <2>1 DEF Get, Post, ARun, HasPath, NamesOnly, Placeholders, Length,
                Third, OneName
<1>8. /\ HasPath(Templates.CreateRun.path, "CreateRun",
                "algorithmName", "requestId", "requestTag")
      /\ NamesOnly(Templates.CreateRun.path, "CreateRun")
  <2>1. Templates.CreateRun
          = Post(<<"algorithm", "v1", "run", "algorithmName">>)
    BY DEF Templates
  <2> QED
    BY <2>1 DEF Get, Post, ARun, HasPath, NamesOnly, Placeholders, Length,
                Third, OneName
<1>9. /\ HasPath(Templates.Payload.path, "Payload",
                "algorithmName", "requestId", "requestTag")
      /\ NamesOnly(Templates.Payload.path, "Payload")
  <2>1. Templates.Payload
          = Get(<<"data", "v1", "payloads">> \o ARun)
    BY DEF Templates
  <2> QED
    BY <2>1 DEF Get, Post, ARun, HasPath, NamesOnly, Placeholders, Length,
                Third, OneName
<1>10. /\ HasPath(Templates.CheckRequest.path, "CheckRequest",
                "algorithmName", "requestId", "requestTag")
      /\ NamesOnly(Templates.CheckRequest.path, "CheckRequest")
  <2>1. Templates.CheckRequest
          = Get(<<"algorithm", "v1", "check">> \o ARun)
    BY DEF Templates
  <2> QED
    BY <2>1 DEF Get, Post, ARun, HasPath, NamesOnly, Placeholders, Length,
                Third, OneName
<1>11. /\ HasPath(Templates.CompleteRequest.path, "CompleteRequest",
                "algorithmName", "requestId", "requestTag")
      /\ NamesOnly(Templates.CompleteRequest.path, "CompleteRequest")
  <2>1. Templates.CompleteRequest
          = Post(<<"algorithm", "v1", "complete">> \o ARun)
    BY DEF Templates
  <2> QED
    BY <2>1 DEF Get, Post, ARun, HasPath, NamesOnly, Placeholders, Length,
                Third, OneName
<1> QED
  BY <1>1, <1>2, <1>3, <1>4, <1>5, <1>6, <1>7, <1>8, <1>9, <1>10, <1>11,
     TemplateNames

\* A service takes a request for the one it is, and for the names and the dry
\* run it was made with, whatever the names are.
LEMMA RoutedRight ==
  ASSUME NEW q \in Requests, NEW p, NEW done \in Routed(Sent(q, p))
  PROVE  /\ done.request = q
         /\ done.names \subseteq {<<name, p[name]>> : name \in Placeholders}
         /\ done.dryRun = IF q = "CreateRun" THEN p.dryRun ELSE "unset"
<1> DEFINE s == Sent(q, p)
<1> DEFINE T(t) == Templates[t].path
<1>1. PICK t \in DOMAIN Templates :
        /\ Matches(s, Templates[t])
        /\ done.request = t
        /\ done.names =
             {<<T(t)[i], s.path[i]>> :
                i \in {j \in DOMAIN s.path : T(t)[j] \in Placeholders}}
        /\ done.dryRun = s.dryRun
  BY DEF Routed
<1>2. s.dryRun = IF q = "CreateRun" THEN p.dryRun ELSE "unset"
  BY RequestNames
  DEF Sent, Get, Post, GetBufferedRequestCall, CancelRunCall, GetMetadataCall,
      UpdateRunTagCall, GetResultCall, GetResultsCall, CreateRunCall,
      PayloadCall, CheckRequestCall, CompleteRequestCall
<1>3. /\ Len(s.path) = Len(T(t))
      /\ \A i \in DOMAIN T(t) :
           T(t)[i] \notin Placeholders => s.path[i] = T(t)[i]
  BY <1>1 DEF Matches
<1>4. /\ HasPath(T(t), t, "algorithmName", "requestId", "requestTag")
      /\ NamesOnly(T(t), t)
      /\ HasPath(s.path, q, p.algorithmName, p.requestId, p.requestTag)
  BY TemplatePath, SentPath
<1> HIDE DEF s, T
<1>5. Length(t) \in 4 .. 7 /\ Length(q) \in 4 .. 7
  BY DEF Length
<1>6. t = q
  BY <1>3, <1>4, <1>5, Distinct DEF HasPath, NamesOnly
<1>7. \A i \in DOMAIN s.path :
        T(t)[i] \in Placeholders => s.path[i] = p[T(t)[i]]
  BY <1>4, <1>5, <1>6, RequestNames
  DEF HasPath, NamesOnly, OneName, Length, Placeholders
<1> QED
  BY <1>1, <1>2, <1>6, <1>7

-------------------------------------------------------------------------------
(* The steps.                                                              *)

LEMMA InitIInv == Init => IInv
<1> SUFFICES ASSUME Init PROVE IInv
  OBVIOUS
<1>1. method \in AllMethods /\ RetryMax \in Nat
  BY MethodsAssumption, RetryMaxAssumption DEF Init
<1>2. request \in Requests
  BY <1>1, RequestNames DEF Init, FirstRequest, AllMethods
<1>3. DOMAIN asked = {"algorithmName", "requestId", "requestTag", "dryRun"}
  BY DEF Init
<1>4. TypeOK
  BY <1>1, <1>2, <1>3 DEF Init, TypeOK, Over, Refusals
<1>5. /\ Effectful \subseteq AllMethods
      /\ method \in Effectful => request = method
  BY <1>1, RequestNames DEF Init, FirstRequest, AllMethods, Effectful
<1>6. SentFirst /\ OwnRequest /\ Accounts
  BY <1>1, <1>5
  DEF Init, SentFirst, OwnRequest, Accounts, Over, Refusals
<1> QED
  BY <1>4, <1>6 DEF IInv

\* How a request ends: the call is over or goes on with the payload.
LEMMA Finished ==
  ASSUME NEW result \in Kinds \union {"NetworkError"},
         IInv, pc # "over", Finish(result)
  PROVE  \/ /\ pc' = "over"
            /\ outcome' \in Kinds \union {"NetworkError", "panic"}
            /\ method \in Effectful => outcome' = result
            /\ outcome' = "ok" => result = "ok"
            /\ request' = request /\ attempts' = attempts
         \/ /\ pc' = "ready" /\ outcome' = "pending" /\ outcome = "pending"
            /\ method \notin Effectful
            /\ request = "GetMetadata" /\ request' = "Payload"
            /\ attempts' = 0
BY DEF Finish, Report, RequestPayload, IInv, TypeOK, Over, Effectful, Kinds,
       Refusals

\* A request that is tried again or given up.
LEMMA RetriedOrFinished ==
  ASSUME NEW failure, IInv, pc # "over", RetryOrGiveUp(failure)
  PROVE  \/ /\ pc' = "ready" /\ attempts <= RetryMax
            /\ UNCHANGED <<request, attempts, outcome>>
         \/ \E result \in {"NetworkError", "SdkErr"} : Finish(result)
BY DEF RetryOrGiveUp, MapApiError

\* The invariant, for a step that ends the call or goes on with the payload.
LEMMA FinishKeeps ==
  ASSUME NEW result \in Kinds \union {"NetworkError"},
         IInv, pc # "over", Finish(result),
         UNCHANGED <<callVars, applied>>,
         lost' = lost \/ (pc = "applied" /\ lost' = lost + 1),
         answer' \in Answers \union {NoAnswer},
         result = "ok" /\ method \in Effectful =>
           pc = "applied" /\ lost' = lost,
         result \in Refusals => pc # "applied"
  PROVE  IInv'
<1>1. TypeOK'
  BY Finished, RequestNames, RetryMaxAssumption
  DEF IInv, TypeOK, Accounts, Over, callVars, Kinds, Refusals
<1>2. OwnRequest' /\ SentFirst'
  BY Finished, RetryMaxAssumption
  DEF IInv, TypeOK, OwnRequest, SentFirst, Effectful, callVars
<1>3. Accounts'
  BY Finished
  DEF IInv, TypeOK, OwnRequest, SentFirst, Accounts, Over, Effectful,
    callVars, Kinds, Refusals
<1> QED
  BY <1>1, <1>2, <1>3 DEF IInv

\* The invariant, for a step after which the request is sent again.
LEMMA AgainKeeps ==
  ASSUME IInv, pc \in {"sent", "applied"}, attempts <= RetryMax, pc' = "ready",
         UNCHANGED <<callVars, request, attempts, outcome, applied>>,
         lost' = IF pc = "applied" THEN lost + 1 ELSE lost,
         answer' \in Answers \union {NoAnswer}
  PROVE  IInv'
<1>1. TypeOK'
  BY DEF IInv, TypeOK, Accounts, Over, callVars
<1>2. OwnRequest' /\ SentFirst' /\ Accounts'
  BY DEF IInv, TypeOK, OwnRequest, SentFirst, Accounts, Over, callVars
<1> QED
  BY <1>1, <1>2 DEF IInv

LEMMA NextIInv == IInv /\ [Next]_vars => IInv'
<1> SUFFICES ASSUME IInv, [Next]_vars PROVE IInv'
  OBVIOUS
<1> USE RetryMaxAssumption
<1>1. CASE RefuseBody
  BY <1>1, FinishKeeps DEF RefuseBody, Kinds, Refusals, IInv, TypeOK, callVars
<1>2. CASE Send
  <2>1. TypeOK'
    BY <1>2 DEF Send, IInv, TypeOK, SentFirst, Over, callVars
  <2>2. OwnRequest' /\ SentFirst' /\ Accounts'
    BY <1>2
    DEF Send, IInv, TypeOK, OwnRequest, SentFirst, Accounts, Over, callVars
  <2> QED
    BY <2>1, <2>2 DEF IInv
<1>3. CASE Apply
  <2>1. TypeOK'
    BY <1>3 DEF Apply, IInv, TypeOK, SentFirst, Accounts, Over, callVars
  <2>2. OwnRequest' /\ SentFirst' /\ Accounts'
    BY <1>3
    DEF Apply, IInv, TypeOK, OwnRequest, SentFirst, Accounts, Over, callVars
  <2> QED
    BY <2>1, <2>2 DEF IInv
<1>4. ASSUME NEW a \in Answers, Answer(a)
      PROVE  IInv'
  <2>1. PICK result \in Reported(request, a) : Finish(result)
    BY <1>4 DEF Answer
  <2>2. Fits(result, a)
    BY ReportFits DEF IInv, TypeOK
  <2>3. a[1] \in Nat
    BY DEF Answers, Statuses
  <2>4. /\ pc \in {"sent", "applied"}
        /\ a[1] < 300 /\ request \in Effectful => pc = "applied"
        /\ a[1] >= 300 /\ a[1] < 500 => pc = "sent"
    BY <1>4, <2>3 DEF Answer, MayAnswer
  <2> QED
    BY <1>4, <2>1, <2>2, <2>3, <2>4, FinishKeeps
    DEF Answer, Fits, IInv, TypeOK, OwnRequest, callVars
<1>5. ASSUME NEW a \in Answers, AnswerRetried(a)
      PROVE  IInv'
  <2>1. /\ pc \in {"sent", "applied"}
        /\ a[1] < 500 => pc = "sent"
        /\ a[1] \in Nat
    BY <1>5 DEF AnswerRetried, MayAnswer, Retried, Answers, Statuses
  <2>2. /\ lost' = IF pc = "applied" THEN lost + 1 ELSE lost
        /\ answer' \in Answers \union {NoAnswer}
        /\ UNCHANGED <<callVars, applied>>
    BY <1>5, <2>1 DEF AnswerRetried, LoseAnswer
  <2>3. RetryOrGiveUp("GivingUp")
    BY <1>5 DEF AnswerRetried
  <2> QED
    BY <2>1, <2>2, <2>3, RetriedOrFinished, FinishKeeps, AgainKeeps
    DEF Kinds, Refusals
<1>6. ASSUME NEW failure, ConnectionFails(failure)
      PROVE  IInv'
  <2>1. /\ pc \in {"sent", "applied"}
        /\ lost' = IF pc = "applied" THEN lost + 1 ELSE lost
        /\ answer' \in Answers \union {NoAnswer}
        /\ UNCHANGED <<callVars, applied>>
        /\ RetryOrGiveUp(failure)
    BY <1>6 DEF ConnectionFails, LoseAnswer, IInv, TypeOK
  <2> QED
    BY <2>1, RetriedOrFinished, FinishKeeps, AgainKeeps
    DEF Kinds, Refusals
<1>7. CASE NotRetryable
  BY <1>7, FinishKeeps DEF NotRetryable, Kinds, Refusals, IInv, TypeOK
<1>8. CASE DeadlineExceeded
  BY <1>8, FinishKeeps
  DEF DeadlineExceeded, LoseAnswer, Kinds, Refusals, IInv, TypeOK
<1>9. CASE UNCHANGED vars
  <2>1. TypeOK'
    BY <1>9 DEF vars, callVars, transportVars, IInv, TypeOK, Over
  <2>2. OwnRequest' /\ SentFirst' /\ Accounts'
    BY <1>9
    DEF vars, callVars, transportVars, IInv, OwnRequest, SentFirst, Accounts,
        Over
  <2> QED
    BY <2>1, <2>2 DEF IInv
<1> QED
  BY <1>1, <1>2, <1>3, <1>4, <1>5, <1>6, <1>7, <1>8, <1>9
  DEF Next, Transport, Terminated

-------------------------------------------------------------------------------
(* What the server does for a call.                                        *)

\* It does what was asked for with the names of the call.
Right(done) ==
  /\ done.request \in {FirstRequest(method), request}
  /\ done.names \subseteq {<<name, asked[name]>> : name \in Placeholders}
  /\ done.dryRun = IF request = "CreateRun" THEN asked.dryRun ELSE "unset"

Target ==
  /\ \A done \in handled : Right(done)
  /\ pc = "applied" \/ outcome = "ok" =>
       \E done \in handled : done.request = request
  /\ \/ request = FirstRequest(method)
     \/ request = "Payload" /\ method = "GetRunPayload"

LEMMA InitTarget == Init => Target
BY DEF Init, Target

\* What the request is taken for is right.
LEMMA UnderstoodRight ==
  ASSUME TypeOK, NEW done \in Understood
  PROVE  done.request = request /\ Right(done)
BY RoutedRight DEF Understood, Right, TypeOK

LEMMA FinishTarget ==
  ASSUME NEW result \in Kinds \union {"NetworkError"},
         IInv, Target, pc # "over", Finish(result), UNCHANGED callVars,
         \A done \in handled' : Right(done),
         result = "ok" => \E done \in handled' : done.request = request
  PROVE  Target'
<1>1. CASE pc' = "over" /\ request' = request
  <2>1. outcome' = "ok" => result = "ok"
    BY <1>1, Finished
  <2> QED
    BY <1>1, <2>1 DEF Target, Right, callVars
<1>2. CASE /\ pc' = "ready" /\ outcome' = "pending"
           /\ request = "GetMetadata" /\ request' = "Payload"
  <2>1. method = "GetRunPayload" /\ FirstRequest(method) = "GetMetadata"
    BY <1>2 DEF Finish, Report, FirstRequest
  <2> QED
    BY <1>2, <2>1 DEF Target, Right, callVars
<1> QED
  BY <1>1, <1>2, Finished

LEMMA NextTarget == IInv /\ Target /\ [Next]_vars => Target'
<1> SUFFICES ASSUME IInv, Target, [Next]_vars PROVE Target'
  OBVIOUS
<1>1. CASE RefuseBody
  BY <1>1, FinishTarget DEF RefuseBody, Kinds, Target
<1>2. CASE Send
  BY <1>2 DEF Send, Target, Right, callVars
<1>3. CASE Apply
  <2>1. /\ handled' = handled \union Understood /\ Understood # {}
        /\ request' = request /\ UNCHANGED callVars
    BY <1>3 DEF Apply
  <2>2. \A done \in Understood : done.request = request /\ Right(done)
    BY UnderstoodRight DEF IInv
  <2> HIDE DEF Understood
  <2> QED
    BY <2>1, <2>2 DEF Target, Right, callVars
<1>4. ASSUME NEW a \in Answers, Answer(a)
      PROVE  Target'
  <2>1. PICK result \in Reported(request, a) : Finish(result)
    BY <1>4 DEF Answer
  <2>2. Fits(result, a) /\ a[1] \in Nat
    BY ReportFits DEF IInv, TypeOK, Answers, Statuses
  <2>3. \A done \in Understood : done.request = request /\ Right(done)
    BY UnderstoodRight DEF IInv
  <2>4. /\ handled' = handled \/ handled' = handled \union Understood
        /\ a[1] < 300 =>
             handled' = handled \union Understood /\ Understood # {}
        /\ pc # "over" /\ UNCHANGED callVars
    BY <1>4, <2>2 DEF Answer, MayAnswer
  <2>5. \A done \in handled' : Right(done)
    BY <2>3, <2>4 DEF Target
  <2>6. result = "ok" => \E done \in handled' : done.request = request
    BY <2>2, <2>3, <2>4 DEF Fits
  <2> QED
    BY <2>1, <2>2, <2>4, <2>5, <2>6, FinishTarget DEF Fits
<1>5. ASSUME NEW failure, RetryOrGiveUp(failure), pc \in {"sent", "applied"},
             UNCHANGED <<callVars, handled>>
      PROVE  Target'
  <2>1. CASE pc' = "ready" /\ UNCHANGED <<request, attempts, outcome>>
    BY <1>5, <2>1 DEF Target, Right, callVars, IInv, TypeOK, Over
  <2>2. CASE \E result \in {"NetworkError", "SdkErr"} : Finish(result)
    BY <1>5, <2>2, FinishTarget DEF Kinds, Target
  <2> QED
    BY <1>5, <2>1, <2>2, RetriedOrFinished
<1>6. CASE \E a \in Answers : AnswerRetried(a)
  BY <1>5, <1>6 DEF AnswerRetried, MayAnswer
<1>7. CASE \E failure \in {"OpError", "EOF"} : ConnectionFails(failure)
  BY <1>5, <1>7 DEF ConnectionFails
<1>8. CASE NotRetryable
  BY <1>8, FinishTarget DEF NotRetryable, Kinds, Target
<1>9. CASE DeadlineExceeded
  BY <1>9, FinishTarget DEF DeadlineExceeded, Kinds, Target
<1>10. CASE UNCHANGED vars
  BY <1>10 DEF vars, callVars, transportVars, Target, Right
<1> QED
  BY <1>1, <1>2, <1>3, <1>4, <1>6, <1>7, <1>8, <1>9, <1>10
  DEF Next, Transport, Terminated

LEMMA Invariance == Spec => [](IInv /\ Target)
<1>1. Init => IInv /\ Target
  BY InitIInv, InitTarget
<1>2. IInv /\ Target /\ [Next]_vars => IInv' /\ Target'
  BY NextIInv, NextTarget
<1> QED
  BY <1>1, <1>2, PTL DEF Spec

-------------------------------------------------------------------------------
(* The theorems.                                                           *)

\* Every variable of a call stays in its type, and a request is sent once and
\* again RetryMax times at most, however often it fails (scheduler.go:44-47).
THEOREM TypeCorrect == Spec => []TypeOK
<1>1. IInv => TypeOK
  BY DEF IInv
<1> QED
  BY <1>1, Invariance, PTL

\* No method reports a success the server has not had (CreateRun, CancelRun,
\* UpdateRunTag, CompleteRequest).
THEOREM SuccessIsReal == Spec => []SuccessWasApplied
<1>1. IInv => SuccessWasApplied
  BY DEF IInv, TypeOK, Accounts, Over, SuccessWasApplied
<1> QED
  BY <1>1, Invariance, PTL

\* If no answer is lost, what succeeded was applied once and what was refused
\* was not applied, though the transport repeats requests.
THEOREM Exact == Spec => []ExactUnlessLost
<1>1. IInv => ExactUnlessLost
  BY DEF IInv, TypeOK, Accounts, ExactUnlessLost
<1> QED
  BY <1>1, Invariance, PTL

\* Whatever the server does for a call, it does to the run that was asked for
\* and with the method that was called, for names of every kind
\* (oas_client_gen.go, the send functions).
THEOREM RightRun == Spec => []RightTarget
<1>1. IInv /\ Target => RightTarget
  BY DEF Target, Right, RightTarget
<1> QED
  BY <1>1, Invariance, PTL
-------------------------------------------------------------------------------
(* How the call ends.  Left is at least the number of steps the call can   *)
(* still take: three for every attempt that is left, and a whole request   *)
(* more while the payload of GetRunPayload is still to be asked for.       *)

Place ==
  CASE pc = "ready" -> 1
    [] pc = "applied" -> 2
    [] OTHER -> 3

WholeRequest == 3 * (RetryMax + 1) + 1

RequestsLeft == IF request = "GetMetadata" THEN WholeRequest ELSE 0

Left ==
  IF Over THEN 0
  ELSE RequestsLeft + 3 * (RetryMax + 1 - attempts) + Place

Dwindles == [][Left' < Left]_vars

LEMMA LeftNatural ==
  ASSUME IInv
  PROVE  /\ Left \in Nat
         /\ ~Over => Left > RequestsLeft
         /\ RequestsLeft \in Nat
BY RetryMaxAssumption
DEF Left, RequestsLeft, WholeRequest, Place, IInv, TypeOK

\* A request that has ended leaves less to do.
LEMMA FinishLess ==
  ASSUME NEW result \in Kinds \union {"NetworkError"},
         IInv, pc # "over", Finish(result)
  PROVE  Left' < Left
<1>1. CASE pc' = "over"
  <2>1. Left' = 0
    BY <1>1 DEF Left, Over
  <2> QED
    BY <2>1, LeftNatural DEF Over
<1>2. CASE /\ pc' = "ready" /\ attempts' = 0
           /\ request = "GetMetadata" /\ request' = "Payload"
  <2>1. Left' = WholeRequest /\ RequestsLeft = WholeRequest
    BY <1>2, RetryMaxAssumption
    DEF Left, RequestsLeft, WholeRequest, Place, Over
  <2> QED
    BY <2>1, LeftNatural DEF Over
<1> QED
  BY <1>1, <1>2, Finished

\* So does an attempt that has failed.
LEMMA RetryLess ==
  ASSUME NEW failure, IInv, pc \in {"sent", "applied"}, RetryOrGiveUp(failure)
  PROVE  Left' < Left
<1>1. CASE pc' = "ready" /\ UNCHANGED <<request, attempts, outcome>>
  <2>1. PICK n \in Nat : attempts = n
    BY DEF IInv, TypeOK
  <2>2. RequestsLeft' = RequestsLeft /\ RequestsLeft \in Nat
    BY <1>1, LeftNatural DEF RequestsLeft, WholeRequest
  <2>3. Left' = RequestsLeft + 3 * (RetryMax + 1 - n) + 1
    BY <1>1, <2>1, <2>2 DEF Left, Place, Over
  <2>4. Left = RequestsLeft + 3 * (RetryMax + 1 - n) + Place
        /\ Place \in {2, 3}
    BY <2>1 DEF Left, Place, Over
  <2> HIDE DEF RequestsLeft, Place
  <2> QED
    BY <2>2, <2>3, <2>4, RetryMaxAssumption
<1>2. CASE \E result \in {"NetworkError", "SdkErr"} : Finish(result)
  BY <1>2, FinishLess DEF Kinds
<1> QED
  BY <1>1, <1>2, RetriedOrFinished

LEMMA StepLess == IInv /\ [Next]_vars => [Left' < Left]_vars
<1> SUFFICES ASSUME IInv, Next, vars' # vars PROVE Left' < Left
  OBVIOUS
<1>1. CASE RefuseBody
  BY <1>1, FinishLess DEF RefuseBody, Kinds
<1>2. CASE Send
  <2>1. PICK n \in Nat : attempts = n
    BY DEF IInv, TypeOK
  <2>2. RequestsLeft' = RequestsLeft /\ RequestsLeft \in Nat
    BY <1>2, LeftNatural DEF Send, RequestsLeft, WholeRequest
  <2>3. Left' = RequestsLeft + 3 * (RetryMax + 1 - (n + 1)) + 3
    BY <1>2, <2>1, <2>2 DEF Send, Left, Place, Over
  <2>4. Left = RequestsLeft + 3 * (RetryMax + 1 - n) + 1
    BY <1>2, <2>1 DEF Send, Left, Place, Over
  <2> HIDE DEF RequestsLeft
  <2> QED
    BY <2>2, <2>3, <2>4, RetryMaxAssumption
<1>3. CASE Apply
  <2>1. PICK n \in Nat : attempts = n
    BY DEF IInv, TypeOK
  <2>2. RequestsLeft' = RequestsLeft /\ RequestsLeft \in Nat
    BY <1>3, LeftNatural DEF Apply, RequestsLeft, WholeRequest
  <2>3. Left' = RequestsLeft + 3 * (RetryMax + 1 - n) + 2
    BY <1>3, <2>1, <2>2 DEF Apply, Left, Place, Over
  <2>4. Left = RequestsLeft + 3 * (RetryMax + 1 - n) + 3
    BY <1>3, <2>1 DEF Apply, Left, Place, Over
  <2> HIDE DEF RequestsLeft
  <2> QED
    BY <2>2, <2>3, <2>4, RetryMaxAssumption
<1>4. ASSUME NEW a \in Answers, Answer(a)
      PROVE  Left' < Left
  <2>1. PICK result \in Reported(request, a) : Finish(result)
    BY <1>4 DEF Answer
  <2>2. Fits(result, a)
    BY ReportFits DEF IInv, TypeOK
  <2>3. pc # "over"
    BY <1>4 DEF Answer, MayAnswer
  <2> QED
    BY <2>1, <2>2, <2>3, FinishLess DEF Fits
<1>5. CASE \E a \in Answers : AnswerRetried(a)
  BY <1>5, RetryLess DEF AnswerRetried, MayAnswer
<1>6. CASE \E failure \in {"OpError", "EOF"} : ConnectionFails(failure)
  BY <1>6, RetryLess DEF ConnectionFails
<1>7. CASE NotRetryable
  BY <1>7, FinishLess DEF NotRetryable, Kinds
<1>8. CASE DeadlineExceeded
  BY <1>8, FinishLess DEF DeadlineExceeded, Kinds
<1> QED
  BY <1>1, <1>2, <1>3, <1>4, <1>5, <1>6, <1>7, <1>8
  DEF Next, Transport, Terminated

\* A call runs out of steps, whether its time limit ever strikes or not: every
\* step lowers a natural number, which is 0 only when the call is over.  What
\* is left to assume for a call to end is that the transport takes its next
\* step (scheduler.go:44-54, GetRunPayload with both its requests).
THEOREM CallRunsOut == Spec => [](Left \in Nat /\ (~Over => Left > 0)) /\ Dwindles
<1>1. IInv => Left \in Nat /\ (~Over => Left > 0)
  BY LeftNatural
<1> QED
  BY <1>1, StepLess, Invariance, PTL DEF Spec, Dwindles
===============================================================================
