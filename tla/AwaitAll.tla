------------------------------- MODULE AwaitAll -------------------------------
(***************************************************************************)
(* What AwaitTaggedRuns promises to its caller, with no goroutine, channel *)
(* or wait group in sight: some runs are yielded, each of them settles     *)
(* once, and the call answers once, either with every yielded run or with  *)
(* a failure that some yielded run really had.  AwaitRuns implements it.   *)
(***************************************************************************)
CONSTANT Runs           \* the runs that may be yielded to the call

VARIABLES
  yielding,             \* runs may still be yielded
  yielded,              \* the runs yielded so far
  outcome,              \* how each run settled: "none" until it has
  answer,               \* what the call answered: "none" until it has
  returned              \* the runs whose results the caller received

vars == <<yielding, yielded, outcome, answer, returned>>

Init ==
  /\ yielding = TRUE
  /\ yielded = {}
  /\ outcome = [r \in Runs |-> "none"]
  /\ answer = "none"
  /\ returned = {}

\* A run is yielded; an entry that is an error has settled on arrival.
Yield(r) ==
  /\ yielding
  /\ r \notin yielded
  /\ yielded' = yielded \union {r}
  /\ outcome' \in {outcome, [outcome EXCEPT ![r] = "error"]}
  /\ UNCHANGED <<yielding, answer, returned>>

StopYielding ==
  /\ yielding
  /\ yielding' = FALSE
  /\ UNCHANGED <<yielded, outcome, answer, returned>>

\* A run settles once, and it may do so after the call has answered.
Settle(r) ==
  /\ r \in yielded
  /\ outcome[r] = "none"
  /\ \E o \in {"ok", "error"} : outcome' = [outcome EXCEPT ![r] = o]
  /\ UNCHANGED <<yielding, yielded, answer, returned>>

AnswerAll ==
  /\ ~yielding
  /\ answer = "none"
  /\ \A r \in yielded : outcome[r] = "ok"
  /\ answer' = "ok"
  /\ returned' = yielded
  /\ UNCHANGED <<yielding, yielded, outcome>>

AnswerFailure ==
  /\ ~yielding
  /\ answer = "none"
  /\ \E r \in yielded : outcome[r] = "error"
  /\ answer' = "error"
  /\ UNCHANGED <<yielding, yielded, outcome, returned>>

Next ==
  \/ \E r \in Runs : Yield(r) \/ Settle(r)
  \/ StopYielding
  \/ AnswerAll
  \/ AnswerFailure

Spec == Init /\ [][Next]_vars
===============================================================================
