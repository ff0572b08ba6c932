------------------------------ MODULE AwaitRuns -------------------------------
(***************************************************************************)
(* awaitRuns of sdk/scheduler.go: one waiter goroutine per yielded run, a  *)
(* bounded result channel, a wait group, a goroutine that closes the       *)
(* result channel, and the calling goroutine, which starts the waiters and *)
(* then collects.  The caller may pass a second bounded channel on which   *)
(* every successful waiter reports progress; AwaitRuns of main.go drains   *)
(* it into a counter and closes it when the call has returned.             *)
(*                                                                         *)
(* What one waiter does inside awaitRun is module AwaitRun; here it        *)
(* returns a result or an error.  The iterator of runs yields any number   *)
(* of runs and errors.                                                     *)
(***************************************************************************)
EXTENDS Integers, Sequences, FiniteSets, Functions

CONSTANTS
  Runs,               \* entries the iterator may yield; a waiter each
  ResultCapacity,     \* capacity of resultChannel (10 in the code)
  ProgressCapacity,   \* capacity of the completed channel (10 in main.go)
  ProgressUses        \* what callers do with the completed channel, some of:
                      \*   "none"     nil, nothing is reported
                      \*   "drained"  AwaitRuns of main.go: drained and closed
                      \*   "unread"   handed over, never read and never closed

ASSUME RunsAssumption == IsFiniteSet(Runs)
ASSUME CapacityAssumption ==
  /\ ResultCapacity \in Nat \ {0}
  /\ ProgressCapacity \in Nat \ {0}
ASSUME ProgressAssumption ==
  ProgressUses \subseteq {"none", "drained", "unread"}

VARIABLES
  progress,           \* what this caller does with the completed channel
  waiter,             \* where each waiter goroutine is
  outcome,            \* what the waiter has to send
  wg,                 \* the wait group's counter
  resultChannel,      \* runs whose message is in the result channel
  resultClosed,       \* close(resultChannel) has been called
  caller,             \* where the calling goroutine is
  results,            \* the results collected so far
  answer,             \* what awaitRuns returned
  completed,          \* messages in the completed channel (all are 1)
  completedClosed,    \* close(*counterRef) has been called
  counter,            \* the counter in the foreign caller's memory
  crashed             \* a send on a closed channel has panicked

goVars == <<wg, resultChannel, resultClosed>>
callVars == <<caller, results, answer>>
progressVars == <<completed, completedClosed, counter>>
vars == <<waiter, outcome, goVars, callVars, progressVars, crashed, progress>>

WaiterState ==
  {"unstarted", "awaiting", "sending", "reporting", "finishing", "finished"}

Started == {r \in Runs : waiter[r] # "unstarted"}
Active == {r \in Runs : waiter[r] \notin {"unstarted", "finished"}}

Init ==
  /\ progress \in ProgressUses
  /\ waiter = [r \in Runs |-> "unstarted"]
  /\ outcome = [r \in Runs |-> "none"]
  /\ wg = 0
  /\ resultChannel = <<>>
  /\ resultClosed = FALSE
  /\ caller = "iterating"
  /\ results = <<>>
  /\ answer = "none"
  /\ completed = 0
  /\ completedClosed = FALSE
  /\ counter = 0
  /\ crashed = FALSE

Goto(r, state) == waiter' = [waiter EXCEPT ![r] = state]
Settle(r, o) == outcome' = [outcome EXCEPT ![r] = o]

-------------------------------------------------------------------------------
(* The calling goroutine.                                                  *)

\* Mutation: wg.Add is left to the goroutine that has just been started.
StartWaiterUncounted(r) ==
  /\ caller = "iterating"
  /\ waiter[r] = "unstarted"
  /\ Goto(r, "awaiting")
  /\ UNCHANGED <<outcome, goVars, callVars, progressVars, crashed, progress>>

\* One turn of the loop over the iterator that yields a run.
StartWaiter(r) ==
  /\ caller = "iterating"
  /\ waiter[r] = "unstarted"
  /\ wg' = wg + 1
  /\ Goto(r, "awaiting")
  /\ UNCHANGED <<outcome, resultChannel, resultClosed, callVars, progressVars,
                 crashed, progress>>

\* One turn that yields an error: the waiter has it to send from the start.
StartFailed(r) ==
  /\ caller = "iterating"
  /\ waiter[r] = "unstarted"
  /\ wg' = wg + 1
  /\ Goto(r, "sending")
  /\ Settle(r, "error")
  /\ UNCHANGED <<resultChannel, resultClosed, callVars, progressVars, crashed,
                 progress>>

\* The iterator ends: the closing goroutine is started and collecting begins.
EndOfRuns ==
  /\ caller = "iterating"
  /\ caller' = "collecting"
  /\ UNCHANGED <<waiter, outcome, goVars, results, answer, progressVars,
                 crashed, progress>>

Return(a) ==
  /\ caller' = "returned"
  /\ answer' = a

\* Mutation: an error in the result channel is skipped.
CollectSkipping ==
  /\ caller = "collecting"
  /\ resultChannel # <<>>
  /\ resultChannel' = Tail(resultChannel)
  /\ results' = IF outcome[Head(resultChannel)] = "ok"
                THEN Append(results, Head(resultChannel)) ELSE results
  /\ UNCHANGED <<waiter, outcome, wg, resultClosed, caller, answer,
                 progressVars, crashed, progress>>

\* Receiving a result, or the first error, on which the call returns at once.
Collect ==
  /\ caller = "collecting"
  /\ resultChannel # <<>>
  /\ resultChannel' = Tail(resultChannel)
  /\ \/ /\ outcome[Head(resultChannel)] = "ok"
        /\ results' = Append(results, Head(resultChannel))
        /\ UNCHANGED <<caller, answer>>
     \/ /\ outcome[Head(resultChannel)] = "error"
        /\ results' = <<>>
        /\ Return("error")
  /\ UNCHANGED <<waiter, outcome, wg, resultClosed, progressVars, crashed,
                 progress>>

\* Mutation: the results are counted and the close is not waited for.
CollectEndCounting ==
  /\ caller = "collecting"
  /\ Len(results) = Cardinality(Started)
  /\ Return("ok")
  /\ UNCHANGED <<waiter, outcome, goVars, results, progressVars, crashed,
                 progress>>

\* Mutation: an empty channel is taken for the end.
CollectEndEmpty ==
  /\ caller = "collecting"
  /\ resultChannel = <<>>
  /\ Return("ok")
  /\ UNCHANGED <<waiter, outcome, goVars, results, progressVars, crashed,
                 progress>>

\* The result channel is closed and empty: every result has been collected.
CollectEnd ==
  /\ caller = "collecting"
  /\ resultChannel = <<>>
  /\ resultClosed
  /\ Return("ok")
  /\ UNCHANGED <<waiter, outcome, goVars, results, progressVars, crashed,
                 progress>>

\* AwaitRuns of main.go closes the progress channel once the call returned.
CloseProgress ==
  /\ progress = "drained"
  /\ caller = "returned"
  /\ caller' = "closed"
  /\ completedClosed' = TRUE
  /\ UNCHANGED <<waiter, outcome, goVars, results, answer, completed, counter,
                 crashed, progress>>

-------------------------------------------------------------------------------
(* The waiter goroutines.                                                  *)

\* awaitRun returns to the waiter.
AwaitReturns(r) ==
  /\ waiter[r] = "awaiting"
  /\ \E o \in {"ok", "error"} : Settle(r, o)
  /\ Goto(r, "sending")
  /\ UNCHANGED <<goVars, callVars, progressVars, crashed, progress>>

\* Mutation: isSuccess is not tested.
AfterSendAlways(r) == IF progress # "none" THEN "reporting" ELSE "finishing"

\* The deferred function reports only a success, and only if asked to.
AfterSend(r) ==
  IF outcome[r] = "ok" /\ progress # "none" THEN "reporting" ELSE "finishing"

\* Mutation: the channel has one slot less.
SendResultSmaller(r) ==
  /\ waiter[r] = "sending"
  /\ ~resultClosed
  /\ Len(resultChannel) < ResultCapacity - 1
  /\ resultChannel' = Append(resultChannel, r)
  /\ Goto(r, AfterSend(r))
  /\ UNCHANGED <<outcome, wg, resultClosed, callVars, progressVars, crashed,
                 progress>>

SendResult(r) ==
  /\ waiter[r] = "sending"
  /\ ~resultClosed
  /\ Len(resultChannel) < ResultCapacity
  /\ resultChannel' = Append(resultChannel, r)
  /\ Goto(r, AfterSend(r))
  /\ UNCHANGED <<outcome, wg, resultClosed, callVars, progressVars, crashed,
                 progress>>

\* Mutation: a report that finds the channel full is dropped.
ReportProgressDropping(r) ==
  /\ waiter[r] = "reporting"
  /\ ~completedClosed
  /\ completed' = IF completed < ProgressCapacity THEN completed + 1 ELSE completed
  /\ Goto(r, "finishing")
  /\ UNCHANGED <<outcome, goVars, callVars, completedClosed, counter, crashed,
                 progress>>

\* Mutation: no wg.Done after a report.
ReportProgressLast(r) ==
  /\ waiter[r] = "reporting"
  /\ ~completedClosed
  /\ completed < ProgressCapacity
  /\ completed' = completed + 1
  /\ Goto(r, "finished")
  /\ UNCHANGED <<outcome, goVars, callVars, completedClosed, counter, crashed,
                 progress>>

ReportProgress(r) ==
  /\ waiter[r] = "reporting"
  /\ ~completedClosed
  /\ completed < ProgressCapacity
  /\ completed' = completed + 1
  /\ Goto(r, "finishing")
  /\ UNCHANGED <<outcome, goVars, callVars, completedClosed, counter, crashed,
                 progress>>

\* A send on the closed progress channel panics, and the process dies with it.
ReportOnClosed(r) ==
  /\ waiter[r] = "reporting"
  /\ completedClosed
  /\ crashed' = TRUE
  /\ UNCHANGED <<waiter, outcome, goVars, callVars, progressVars, progress>>

\* Mutation: the error path calls wg.Done as well as the deferred function.
WaiterDoneTwice(r) ==
  /\ waiter[r] = "finishing"
  /\ wg' = wg - IF outcome[r] = "error" THEN 2 ELSE 1
  /\ Goto(r, "finished")
  /\ UNCHANGED <<outcome, resultChannel, resultClosed, callVars, progressVars,
                 crashed, progress>>

WaiterDone(r) ==
  /\ waiter[r] = "finishing"
  /\ wg' = wg - 1
  /\ Goto(r, "finished")
  /\ UNCHANGED <<outcome, resultChannel, resultClosed, callVars, progressVars,
                 crashed, progress>>

-------------------------------------------------------------------------------
(* The closing goroutine and the goroutine that counts progress.           *)

\* Mutation: the closing goroutine is started before the loop.
CloseResultsEarly ==
  /\ wg = 0
  /\ ~resultClosed
  /\ resultClosed' = TRUE
  /\ UNCHANGED <<waiter, outcome, wg, resultChannel, callVars, progressVars,
                 crashed, progress>>

CloseResults ==
  /\ caller # "iterating"
  /\ wg = 0
  /\ ~resultClosed
  /\ resultClosed' = TRUE
  /\ UNCHANGED <<waiter, outcome, wg, resultChannel, callVars, progressVars,
                 crashed, progress>>

\* Mutation: counting stops at the close.
CountProgressUntilClosed ==
  /\ progress = "drained"
  /\ ~completedClosed
  /\ completed > 0
  /\ completed' = completed - 1
  /\ counter' = counter + 1
  /\ UNCHANGED <<waiter, outcome, goVars, callVars, completedClosed, crashed,
                 progress>>

\* Receiving goes on after the close until the channel is empty.
CountProgress ==
  /\ progress = "drained"
  /\ completed > 0
  /\ completed' = completed - 1
  /\ counter' = counter + 1
  /\ UNCHANGED <<waiter, outcome, goVars, callVars, completedClosed, crashed,
                 progress>>

-------------------------------------------------------------------------------
Quiet ==
  /\ caller = IF progress = "drained" THEN "closed" ELSE "returned"
  /\ Active = {}
  /\ resultClosed
  /\ progress = "drained" => completed = 0

\* Nothing is left to run, or the process has died.
Terminated ==
  /\ crashed \/ Quiet
  /\ UNCHANGED vars

Caller ==
  \/ \E r \in Runs : StartWaiter(r) \/ StartFailed(r)
  \/ EndOfRuns
  \/ Collect
  \/ CollectEnd
  \/ CloseProgress

Waiter(r) ==
  \/ AwaitReturns(r)
  \/ SendResult(r)
  \/ ReportProgress(r)
  \/ ReportOnClosed(r)
  \/ WaiterDone(r)

Next ==
  \/ /\ ~crashed
     /\ \/ Caller
        \/ \E r \in Runs : Waiter(r)
        \/ CloseResults
        \/ CountProgress
  \/ Terminated

Spec == Init /\ [][Next]_vars

\* The Go scheduler runs every goroutine that can run, and every awaitRun of
\* a liveness run returns (module AwaitRun says when it does).
Fairness ==
  /\ WF_vars(~crashed /\ Caller)
  /\ \A r \in Runs : WF_vars(~crashed /\ Waiter(r))
  /\ WF_vars(~crashed /\ CloseResults)
  /\ WF_vars(~crashed /\ CountProgress)

FairSpec == Spec /\ Fairness

-------------------------------------------------------------------------------
(* Properties.                                                             *)

\* Every variable stays in its type, and neither channel holds more messages
\* than it was made for (scheduler.go:177, main.go:662).
TypeOK ==
  /\ progress \in ProgressUses
  /\ waiter \in [Runs -> WaiterState]
  /\ outcome \in [Runs -> {"none", "ok", "error"}]
  /\ wg \in Nat
  /\ resultChannel \in Seq(Runs)
  /\ Len(resultChannel) <= ResultCapacity
  /\ resultClosed \in BOOLEAN
  /\ caller \in {"iterating", "collecting", "returned", "closed"}
  /\ results \in Seq(Runs)
  /\ answer \in {"none", "ok", "error"}
  /\ completed \in 0 .. ProgressCapacity
  /\ completedClosed \in BOOLEAN
  /\ counter \in Nat
  /\ crashed \in BOOLEAN

\* The wait group counts exactly the waiters that have been started and have
\* not finished (scheduler.go:181 and :192), so that Wait returns neither while
\* one of them still has something to send nor never.
WaitGroupExact == wg = Cardinality(Active)

\* The result channel is closed (scheduler.go:253) only when no waiter can
\* send on it any more: there is no panic on resultChannel.
ClosedAfterAllSent ==
  resultClosed => caller # "iterating" /\ Active = {}

\* A call that returns without an error (scheduler.go:264) returns every run
\* the iterator yielded, each once, and none of them failed: the buffered
\* results are not lost when the channel is closed, and a failure is not
\* overtaken by the end of the loop.
SuccessIsComplete ==
  answer = "ok" =>
    /\ Range(results) = Started
    /\ IsInjective(results)
    /\ \A r \in Started : outcome[r] = "ok"

\* A send on the closed progress channel (scheduler.go:190, main.go:675) is
\* possible only after the call has returned an error: what a successful call
\* leaves behind can no longer bring the process down.
PanicOnlyAfterFailure == crashed => answer = "error"

\* progress is neither lost nor reported twice, nor reported for a failed run
\* (scheduler.go:188): what the foreign caller's counter shows and what is
\* still in the channel add up to the successful waiters that have reported.
Reported ==
  {r \in Runs : outcome[r] = "ok" /\ waiter[r] \in {"finishing", "finished"}}

ProgressConserved ==
  progress # "none" => counter + completed = Cardinality(Reported)

\* A caller that hands over a channel and does not read it, as Test_AwaitRuns
\* (scheduler_test.go:297-305) does, gets a success only when every run fits
\* in the channel: otherwise a waiter blocks in its deferred send, the wait
\* group is never released and the call never returns a success.
UnreadProgressBound ==
  progress = "unread" /\ answer = "ok" =>
    Cardinality(Started) <= ProgressCapacity

\* The call returns, whichever runs fail and however small the channels are,
\* unless it hands over a progress channel and does not read it.
CallReturns == (progress # "unread") ~> (answer # "none")

\* After a successful call the foreign caller's counter comes to show every
\* run, though the channel is closed as soon as the call has returned: the
\* counting goroutine receives what was buffered before the close
\* (main.go:664-668).
ProgressEventuallyExact ==
  (answer = "ok" /\ progress = "drained") ~> (counter = Cardinality(Started))

\* After a call has failed its remaining waiters run to their end, or panic,
\* as long as no more than one waiter more than resultChannel has slots was
\* started: nobody receives any more (scheduler.go:257-260), but the message
\* the call has failed with has left its slot.
ShutdownWithinCapacity ==
  (answer = "error" /\ progress # "unread"
     /\ Cardinality(Started) <= ResultCapacity + 1)
    ~> (Active = {} \/ crashed)

\* After a call has failed its remaining waiters run to their end: "this
\* goroutine will keep going thus shutdown clean" (scheduler.go:186-187).
CleanShutdown == (answer = "error") ~> (Active = {})

\* "prevent panic in case completed channel was closed" (scheduler.go:185).
NeverPanics == ~crashed

\* awaitRuns implements the promise of AwaitAll: the goroutines, the channels
\* and the wait group are invisible to its caller.
Promise == INSTANCE AwaitAll WITH
  yielding <- (caller = "iterating"),
  yielded <- Started,
  returned <- IF answer = "ok" THEN Range(results) ELSE {}

PromiseKept == Promise!Spec
===============================================================================
