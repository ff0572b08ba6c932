------------------------------- MODULE AwaitRun ------------------------------
(***************************************************************************)
(* awaitRun of sdk/scheduler.go: poll the scheduler for one run until it   *)
(* has finished, the wait has timed out, the run stays unknown for too     *)
(* long, or a request fails.  AwaitRun waits with it; GetRun uses it to    *)
(* read a run that may not be recorded yet.                                *)
(*                                                                         *)
(* The scheduler is external: it records the run at some time, moves it    *)
(* through its lifecycle, and answers each poll from where the run is at   *)
(* that time.  Durations are integers; the code only adds and compares     *)
(* what it has slept, so that is what is kept of time.                     *)
(***************************************************************************)
EXTENDS Integers

CONSTANTS
  Invocations,       \* the calls there may be: the caller, "AwaitRun" or
                     \* "GetRun", *pollInterval and *waitTimeout, or Nil
  DefaultInterval,   \* the interval when pollInterval is nil (5 s)
  NotFoundLimit,     \* how long a 404 is tolerated (5 min)
  Nil                \* a nil pointer

ASSUME InvocationsAssumption ==
  Invocations \subseteq
    [caller : {"AwaitRun"}, pollInterval : Int \union {Nil},
     waitTimeout : Int \union {Nil}]
    \union [caller : {"GetRun"}, pollInterval : Int, waitTimeout : Int]
ASSUME DurationAssumption ==
  /\ Nil \notin Int
  /\ DefaultInterval \in Nat \ {0}
  /\ NotFoundLimit \in Nat

VARIABLES
  call,                            \* the parameters of this call
  stage,                           \* the run at the scheduler
  cancelled,                       \* the caller's context is cancelled
  loop,                            \* where the polling loop is
  response,                        \* the answer to the last poll
  waitTime,                        \* slept so far (kept if a timeout is set)
  invalidRequestResponseDuration,  \* slept so far after a 404
  outcome                          \* what the call returned

serverVars == <<stage, cancelled>>
timeVars == <<waitTime, invalidRequestResponseDuration>>
vars == <<call, serverVars, loop, response, timeVars, outcome>>

FinishedStages ==
  {"COMPLETED", "FAILED", "DEADLINE_EXCEEDED", "SCHEDULING_FAILED", "CANCELLED"}
ActiveStages == {"NEW", "BUFFERED", "RUNNING"}
Stages == FinishedStages \union ActiveStages

\* Mutation: a final stage is missing from the switch.
IsFinishedIncomplete(s) == s \in FinishedStages \ {"SCHEDULING_FAILED"}

IsFinished(s) == s \in FinishedStages

Errors == {"UnauthorizedError", "NetworkError", "SdkErr", "timeout",
           "BadRequestError", "NotFoundError"}
Failures == {"network", "failure"}
Responses ==
  Stages \union Failures \union {"notFound", "unauthorized", "unhandled"}

PollInterval == call.pollInterval
WaitTimeout == call.waitTimeout
Interval == IF PollInterval = Nil THEN DefaultInterval ELSE PollInterval
AwaitCompletion == call.caller = "AwaitRun"

Init ==
  /\ call \in Invocations
  /\ stage \in Stages \union {"unrecorded"}
  /\ cancelled = FALSE
  /\ loop = "polling"
  /\ response = "none"
  /\ waitTime = 0
  /\ invalidRequestResponseDuration = 0
  /\ outcome = "none"

-------------------------------------------------------------------------------
(* The scheduler and the caller's context.                                 *)

\* The submission is accounted for, at first as NEW.
Record ==
  /\ stage = "unrecorded"
  /\ stage' = "NEW"
  /\ UNCHANGED <<call, cancelled, loop, response, timeVars, outcome>>

\* The run moves on; a finished run stays as it is.
Advance ==
  /\ \/ /\ stage = "NEW"
        /\ stage' \in {"BUFFERED", "SCHEDULING_FAILED", "CANCELLED"}
     \/ /\ stage = "BUFFERED"
        /\ stage' \in {"RUNNING", "SCHEDULING_FAILED", "CANCELLED"}
     \/ stage = "RUNNING" /\ stage' \in FinishedStages
  /\ UNCHANGED <<call, cancelled, loop, response, timeVars, outcome>>

Cancel ==
  /\ ~cancelled
  /\ cancelled' = TRUE
  /\ UNCHANGED <<call, stage, loop, response, timeVars, outcome>>

-------------------------------------------------------------------------------
(* The loop.                                                               *)

\* What a poll can be answered with: any request can fail or be refused, and
\* one made with a cancelled context does fail.
Answers ==
  IF cancelled THEN Failures
  ELSE {IF stage = "unrecorded" THEN "notFound" ELSE stage}
         \union Failures \union {"unauthorized", "unhandled"}

Poll ==
  /\ loop = "polling"
  /\ response' \in Answers
  /\ loop' = "received"
  /\ UNCHANGED <<call, serverVars, timeVars, outcome>>

\* Returning from awaitRun, and from GetRun, which makes a bad request a run
\* that was not found.
Return(o) ==
  /\ loop' = "returned"
  /\ outcome' = IF call.caller = "GetRun" /\ o = "BadRequestError"
                THEN "NotFoundError" ELSE o
  /\ UNCHANGED <<call, serverVars, response, timeVars>>

\* Mutation: the time slept is not added up.
SleepUncounted ==
  /\ loop' = "sleeping"
  /\ UNCHANGED <<call, serverVars, response, waitTime, outcome>>

\* Only a timeout that is set is ever compared with the time waited, so with
\* none the time is not kept.
Sleep ==
  /\ loop' = "sleeping"
  /\ waitTime' = IF WaitTimeout = Nil THEN waitTime ELSE waitTime + Interval
  /\ UNCHANGED <<call, serverVars, response, outcome>>

MapApiError == IF response = "network" THEN "NetworkError" ELSE "SdkErr"

\* Mutation: the error is noted and the polling goes on.
RequestFailedRetried ==
  /\ loop = "received"
  /\ response \in Failures
  /\ outcome' = MapApiError
  /\ loop' = "polling"
  /\ UNCHANGED <<call, serverVars, response, timeVars>>

RequestFailed ==
  /\ loop = "received"
  /\ response \in Failures
  /\ Return(MapApiError)

\* Mutation: awaitCompletion is tested the wrong way round.
ReadySwapped == IsFinished(response) \/ AwaitCompletion
\* Mutation: awaitCompletion is not tested.
ReadyFinished == IsFinished(response)

Ready == IsFinished(response) \/ ~AwaitCompletion

\* Mutation: the time waited may reach the timeout once more.
TimedOutLate == WaitTimeout # Nil /\ waitTime > WaitTimeout

TimedOut == WaitTimeout # Nil /\ waitTime >= WaitTimeout

ResultReady ==
  /\ loop = "received"
  /\ response \in Stages
  /\ Ready
  /\ Return("result")

ResultTimedOut ==
  /\ loop = "received"
  /\ response \in Stages
  /\ ~Ready
  /\ TimedOut
  /\ Return("timeout")

ResultPending ==
  /\ loop = "received"
  /\ response \in Stages
  /\ ~Ready
  /\ ~TimedOut
  /\ Sleep
  /\ UNCHANGED invalidRequestResponseDuration

NotFoundTooLong ==
  /\ loop = "received"
  /\ response = "notFound"
  /\ invalidRequestResponseDuration > NotFoundLimit
  /\ Return("BadRequestError")

NotFoundYet ==
  /\ loop = "received"
  /\ response = "notFound"
  /\ ~(invalidRequestResponseDuration > NotFoundLimit)
  /\ invalidRequestResponseDuration' = invalidRequestResponseDuration + Interval
  /\ Sleep

Unauthorized ==
  /\ loop = "received"
  /\ response = "unauthorized"
  /\ Return("UnauthorizedError")

Unhandled ==
  /\ loop = "received"
  /\ response = "unhandled"
  /\ Return("SdkErr")

\* time.Sleep takes no notice of the context.
Wake ==
  /\ loop = "sleeping"
  /\ loop' = "polling"
  /\ UNCHANGED <<call, serverVars, response, timeVars, outcome>>

Terminated == loop = "returned" /\ UNCHANGED vars

Loop ==
  \/ Poll
  \/ RequestFailed
  \/ ResultReady
  \/ ResultTimedOut
  \/ ResultPending
  \/ NotFoundTooLong
  \/ NotFoundYet
  \/ Unauthorized
  \/ Unhandled
  \/ Wake

Next == Record \/ Advance \/ Cancel \/ Loop \/ Terminated

Spec == Init /\ [][Next]_vars

\* The goroutine runs whenever it can, and every request is answered or fails
\* (the HTTP client gives up after 120 s).  Nothing is assumed of the run.
FairSpec == Spec /\ WF_vars(Loop)

-------------------------------------------------------------------------------
(* Properties.                                                             *)

\* Every variable stays in its type, and the call has an outcome exactly when
\* it has returned.
TypeOK ==
  /\ call \in Invocations
  /\ stage \in Stages \union {"unrecorded"}
  /\ cancelled \in BOOLEAN
  /\ loop \in {"polling", "received", "sleeping", "returned"}
  /\ response \in Responses \union {"none"}
  /\ waitTime \in Int
  /\ invalidRequestResponseDuration \in Int
  /\ outcome \in Errors \union {"none", "result"}
  /\ outcome = "none" <=> loop # "returned"

\* With a timeout and a positive interval the call sleeps less than one
\* interval past the timeout, unless all it slept was spent on a run that was
\* not recorded: the 404 branch (scheduler.go:151-166) never looks at the
\* timeout, and stops one interval past its own limit at the latest.
WaitBounded ==
  WaitTimeout # Nil /\ Interval > 0 =>
    \/ waitTime < WaitTimeout + Interval
    \/ /\ waitTime = invalidRequestResponseDuration
       /\ waitTime <= NotFoundLimit + Interval

\* A result that was awaited to completion is final: whatever the scheduler
\* did since the poll, the result returned (scheduler.go:137-139) is the one
\* the run still has.
ResultIsFinal ==
  AwaitCompletion /\ outcome = "result" =>
    IsFinished(response) /\ response = stage

\* GetRun waits for a run to be recorded and never for it to finish
\* (scheduler.go:433): all the time it sleeps is counted against the 404
\* limit, its timeout of 10 s is never the outcome, and neither is the bad
\* request that it turns into a run not found (scheduler.go:435-437).
GetRunDoesNotAwait ==
  call.caller = "GetRun" =>
    /\ waitTime = invalidRequestResponseDuration
    /\ outcome \notin {"timeout", "BadRequestError"}

\* With a timeout and a positive interval the call returns, though the run
\* may never be recorded and may never finish.  With an interval of zero,
\* which main.go:600 passes on, no time is ever counted (scheduler.go:145).
Terminates ==
  (WaitTimeout # Nil /\ Interval > 0) ~> (loop = "returned")

\* Without a time limit a run that finishes makes the call return: "Awaiting
\* without a time limit should result in run being completed"
\* (scheduler_test.go:232).
FinishedRunIsReturned == (stage \in FinishedStages) ~> (loop = "returned")

\* A caller that cancels its context gets its call back, though time.Sleep
\* takes no notice of the context: the next request fails.
CancelledReturns == cancelled ~> (loop = "returned")

\* What Test_AwaitRun_Timeout expects of a wait with a timeout, "AwaitRun
\* should have failed with timeout error" (scheduler_test.go:263): the call
\* does not sleep on when the time is up.
TimeoutHonoured ==
  WaitTimeout # Nil => waitTime < WaitTimeout + Interval
===============================================================================
