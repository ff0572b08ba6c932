--------------------------------- MODULE Calls ---------------------------------
(***************************************************************************)
(* One call of a method of NexusSchedulerClient or NexusReceiverClient:    *)
(* its requests (module Operations) go through the retrying transport both *)
(* clients are built with, and the last answer becomes what the method     *)
(* reports (module Responses).                                             *)
(* The transport and the server are external: the transport                *)
(* sends a request again, a POST too, when the connection fails and when   *)
(* the answer is 429 or 5xx (but 501), up to RetryMax times, and gives the *)
(* last failure back as an error; the server may have applied a request    *)
(* whose answer is lost.  The http client ends the call after its Timeout, *)
(* which is not measured here: it may be up at any time.                   *)
(*                                                                         *)
(* GetRunPayload makes two requests.  GetRequestMetadata is the function   *)
(* of the C API, which uses what GetMetadata returns.  GetResult is a poll *)
(* of awaitRun (module AwaitRun), for which "none" means to poll again;    *)
(* GetResults is the listing of a tag by getRuns (module RunDiscovery).    *)
(***************************************************************************)
EXTENDS Responses, Operations

CONSTANTS
  Methods,            \* the methods that are called
  RetryMax,           \* RetryMax of the transport
  AlgorithmNames,     \* what the caller may ask for; a name may be empty
  RequestIds,
  RequestTags,
  DryRuns             \* "unset", "true", "false"

AllMethods ==
  (Requests \ {"Payload"}) \union {"GetRunPayload", "GetRequestMetadata"}

ASSUME MethodsAssumption == Methods \subseteq AllMethods
ASSUME RetryMaxAssumption == RetryMax \in Nat

VARIABLES
  method,             \* the method that was called
  asked,              \* its arguments
  request,            \* the request that is being made
  pc,                 \* where that request is
  attempts,           \* how often it has been sent
  outcome,            \* what the method reports
  applied,            \* how often the server has applied the request
  handled,            \* history: what the server has done
  lost,               \* history: how often it did so and the answer was lost
  answer              \* history: the answer that ended the call

transportVars == <<pc, attempts>>
callVars == <<method, asked>>
vars == <<callVars, request, transportVars, outcome, applied, handled, lost,
          answer>>

Effectful == {"CreateRun", "CancelRun", "UpdateRunTag", "CompleteRequest"}

\* Statuses the clients know, one they do not (403 but for payloads), and two
\* that only the transport knows; "other" is a content type nobody decodes.
Statuses == {200, 202, 400, 401, 403, 404, 429, 500, 503}
Answers == Statuses \X (Any \union {"other"})
NoAnswer == <<0, "other">>

FirstRequest(m) ==
  IF m \in {"GetRunPayload", "GetRequestMetadata"} THEN "GetMetadata" ELSE m

Init ==
  /\ method \in Methods
  /\ asked \in [algorithmName : AlgorithmNames, requestId : RequestIds,
               requestTag : RequestTags, dryRun : DryRuns]
  /\ request = FirstRequest(method)
  /\ pc = "ready"
  /\ attempts = 0
  /\ outcome = "pending"
  /\ applied = 0
  /\ handled = {}
  /\ lost = 0
  /\ answer = NoAnswer

-------------------------------------------------------------------------------
(* The methods.                                                            *)

Report(result) ==
  /\ outcome' = result
  /\ pc' = "over"
  /\ UNCHANGED <<request, attempts>>

\* GetRunPayload goes on with the payload.
RequestPayload ==
  /\ request' = "Payload"
  /\ pc' = "ready"
  /\ attempts' = 0
  /\ UNCHANGED outcome

\* GetRunPayload wraps any error of GetMetadata into another; it and
\* GetRequestMetadata use the metadata whenever there is no error.
Finish(result) ==
  CASE method = "GetRunPayload" /\ request = "GetMetadata" ->
         CASE result = "ok" -> RequestPayload
           [] result = "none" -> Report("panic")
           [] OTHER -> Report("SdkErr")
    [] method = "GetRequestMetadata" /\ result = "none" -> Report("panic")
    [] OTHER -> Report(result)

MapApiError(failure) ==
  IF failure = "OpError" THEN "NetworkError" ELSE "SdkErr"

-------------------------------------------------------------------------------
(* The transport and the server.                                           *)

\* Mutation: everything but a plain 200 is tried again.
RetriedUnlessOK(status) == status # 200

Retried(status) == status = 429 \/ (status >= 500 /\ status # 501)

\* Mutation: the attempts are counted from zero.
RetryOffByOne(failure) ==
  IF attempts <= RetryMax + 1
    THEN pc' = "ready" /\ UNCHANGED <<request, attempts, outcome>>
    ELSE Finish(MapApiError(failure))

\* Mutation: an attempt that failed is not counted.
RetryUncounted(failure) ==
  IF attempts <= RetryMax
    THEN pc' = "ready" /\ attempts' = attempts - 1 /\ UNCHANGED <<request,
                                                                  outcome>>
    ELSE Finish(MapApiError(failure))

RetryOrGiveUp(failure) ==
  IF attempts <= RetryMax
    THEN pc' = "ready" /\ UNCHANGED <<request, attempts, outcome>>
    ELSE Finish(MapApiError(failure))

\* The client does not learn that the server has applied the request.
LoseAnswer == lost' = IF pc = "applied" THEN lost + 1 ELSE lost

\* The body of a submission is validated before anything is sent (module
\* Exchange), as an error of the client.
RefuseBody ==
  /\ pc = "ready"
  /\ request = "CreateRun"
  /\ attempts = 0
  /\ Finish("SdkErr")
  /\ UNCHANGED <<callVars, applied, handled, lost, answer>>

Send ==
  /\ pc = "ready"
  /\ pc' = "sent"
  /\ attempts' = attempts + 1
  /\ UNCHANGED <<callVars, request, outcome, applied, handled, lost, answer>>

\* What the server takes the request for.
Understood == Routed(Sent(request, asked))

Apply ==
  /\ pc = "sent"
  /\ request \in Effectful
  /\ Understood # {}
  /\ applied' = applied + 1
  /\ handled' = handled \union Understood
  /\ pc' = "applied"
  /\ UNCHANGED <<callVars, request, attempts, outcome, lost, answer>>

\* A success is answered when the request has been applied, a refusal when it
\* has not, and a failure of the server at any time.
MayAnswer(status) ==
  \/ /\ status < 300
     /\ Understood # {}
     /\ pc = IF request \in Effectful THEN "applied" ELSE "sent"
  \/ status \in 300 .. 499 /\ pc = "sent"
  \/ status >= 500 /\ pc \in {"sent", "applied"}

Answer(a) ==
  /\ MayAnswer(a[1])
  /\ ~Retried(a[1])
  /\ \E result \in Reported(request, a) : Finish(result)
  /\ handled' = IF a[1] < 300 THEN handled \union Understood ELSE handled
  /\ answer' = a
  /\ UNCHANGED <<callVars, applied, lost>>

AnswerRetried(a) ==
  /\ MayAnswer(a[1])
  /\ Retried(a[1])
  /\ RetryOrGiveUp("GivingUp")
  /\ IF a[1] >= 500 THEN LoseAnswer ELSE UNCHANGED lost
  /\ answer' = IF pc' = "over" THEN a ELSE NoAnswer
  /\ UNCHANGED <<callVars, applied, handled>>

ConnectionFails(failure) ==
  /\ pc \in {"sent", "applied"}
  /\ RetryOrGiveUp(failure)
  /\ LoseAnswer
  /\ UNCHANGED <<callVars, applied, handled, answer>>

\* A failure that no retry helps: a certificate or a scheme.
NotRetryable ==
  /\ pc = "sent"
  /\ Finish("SdkErr")
  /\ UNCHANGED <<callVars, applied, handled, lost, answer>>

DeadlineExceeded ==
  /\ pc # "over"
  /\ Finish("SdkErr")
  /\ LoseAnswer
  /\ UNCHANGED <<callVars, applied, handled, answer>>

Terminated == pc = "over" /\ UNCHANGED vars

Transport ==
  \/ RefuseBody
  \/ Send
  \/ Apply
  \/ \E a \in Answers : Answer(a) \/ AnswerRetried(a)
  \/ \E failure \in {"OpError", "EOF"} : ConnectionFails(failure)
  \/ NotRetryable
  \/ DeadlineExceeded

Next == Transport \/ Terminated

Spec == Init /\ [][Next]_vars

\* The transport is never idle for ever: an attempt is answered or fails, if
\* only by the client's Timeout, and a backoff ends.
FairSpec == Spec /\ WF_vars(Transport)

-------------------------------------------------------------------------------
(* Properties.                                                             *)

Over == pc = "over"
Refusals == {"BadRequestError", "UnauthorizedError", "NotFoundError"}

\* Every variable stays in its type; a request is sent once and again RetryMax
\* times at most (scheduler.go:44-47, receiver.go:26-29).
TypeOK ==
  /\ method \in Methods
  /\ DOMAIN asked = {"algorithmName", "requestId", "requestTag", "dryRun"}
  /\ request \in Requests
  /\ pc \in {"ready", "sent", "applied", "over"}
  /\ attempts \in 0 .. RetryMax + 1
  /\ outcome \in {"pending", "ok", "none", "panic", "SdkErr", "NetworkError",
                  "InternalServerErr"} \union Refusals
  /\ Over <=> outcome # "pending"
  /\ applied \in 0 .. RetryMax + 1
  /\ lost \in 0 .. applied
  /\ answer \in Answers \union {NoAnswer}

\* A method that reports success has had its effect: a submission, a
\* cancellation, a new tag or a completion is never confirmed that the server
\* has not applied (the switches of CreateRun, CancelRun, UpdateRunTag and
\* CompleteRequest).
SuccessWasApplied ==
  outcome = "ok" /\ method \in Effectful => applied > 0

\* As long as no answer is lost on the way, the report is exact although the
\* transport repeats requests: what succeeded was applied once, and what was
\* refused was not applied.
ExactUnlessLost ==
  Over /\ lost = 0 /\ method \in Effectful =>
    /\ outcome = "ok" => applied = 1
    /\ outcome \in Refusals => applied = 0

\* Whatever the server does for a call, with all its repetitions and with both
\* requests of GetRunPayload, it does to the run that was asked for, and as a
\* dry run if that was asked; what succeeds was answered by the operation that
\* was meant (oas_client_gen.go, the send functions).
RightTarget ==
  /\ \A done \in handled :
       /\ done.request \in {FirstRequest(method), request}
       /\ done.names \subseteq {<<name, asked[name]>> : name \in Placeholders}
       /\ done.dryRun = IF request = "CreateRun" THEN asked.dryRun ELSE "unset"
  /\ outcome = "ok" => \E done \in handled : done.request = request

\* Every call ends.
CallEnds == <>Over

\* Who asks for metadata and gets no error gets metadata: "run metadata should
\* not be nil" (scheduler_test.go:346), and the callers rely on it.
MetadataNotNil == outcome # "panic"
===============================================================================
