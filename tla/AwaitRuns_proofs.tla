--------------------------- MODULE AwaitRuns_proofs ---------------------------
(***************************************************************************)
(* Proofs about AwaitRuns, for any finite set of runs and any capacity of  *)
(* the two channels.                                                       *)
(*                                                                         *)
(* None of the safety properties is inductive.  The strengthening says     *)
(* where a message can be: a waiter that has sent is in exactly one of the *)
(* result channel and the results, each once, as long as the call has not  *)
(* failed (Delivery), and only a waiter that knows its outcome has sent    *)
(* (OutcomeKnown).                                                         *)
(***************************************************************************)
EXTENDS AwaitRuns, FiniteSetTheorems, SequenceTheorems, TLAPS

Sent == {r \in Runs : waiter[r] \in {"reporting", "finishing", "finished"}}

\* A waiter has an outcome from the moment it has something to send, and only
\* one that succeeded reports.
OutcomeKnown ==
  \A r \in Runs :
    /\ outcome[r] = "none" <=> waiter[r] \in {"unstarted", "awaiting"}
    /\ waiter[r] = "reporting" => outcome[r] = "ok" /\ progress # "none"

\* Where the messages of the waiters are.
Delivery ==
  /\ IsInjective(resultChannel)
  /\ IsInjective(results)
  /\ Range(resultChannel) \intersect Range(results) = {}
  /\ Range(resultChannel) \union Range(results) \subseteq Sent
  /\ \A r \in Range(results) : outcome[r] = "ok"
  /\ answer # "error" => Sent = Range(resultChannel) \union Range(results)

\* How far the calling goroutine is, and what it has answered by then.
CallerPhase ==
  /\ answer = "none" <=> caller \in {"iterating", "collecting"}
  /\ answer = "ok" => resultClosed /\ resultChannel = <<>>
  /\ answer = "error" => \E r \in Runs : outcome[r] = "error"
  /\ completedClosed <=> caller = "closed"
  /\ caller = "closed" => progress = "drained"

\* The waiter that panicked is still about to report.
CrashPlace ==
  crashed => completedClosed /\ \E r \in Runs : waiter[r] = "reporting"

\* Only a drained channel reaches the foreign counter.
OnlyDrainedCounts == counter # 0 => progress = "drained"

IInv ==
  /\ TypeOK
  /\ OutcomeKnown
  /\ WaitGroupExact
  /\ ClosedAfterAllSent
  /\ Delivery
  /\ CallerPhase
  /\ CrashPlace
  /\ OnlyDrainedCounts
  /\ ProgressConserved

-------------------------------------------------------------------------------
(* Sequences without repetition.                                           *)

\* Appending an element to a sequence adds it to the range, and keeps the
\* sequence free of repetitions if the element is new.
LEMMA AppendRange ==
  ASSUME NEW S, NEW s \in Seq(S), NEW e \in S
  PROVE  /\ Append(s, e) \in Seq(S)
         /\ Len(Append(s, e)) = Len(s) + 1
         /\ Range(Append(s, e)) = Range(s) \union {e}
         /\ IsInjective(s) /\ e \notin Range(s) => IsInjective(Append(s, e))
<1> DEFINE t == Append(s, e)
<1>1. /\ t \in Seq(S)
      /\ Len(t) = Len(s) + 1
      /\ \A i \in 1 .. Len(s) : t[i] = s[i]
      /\ t[Len(s) + 1] = e
  BY AppendProperties
<1>2. /\ DOMAIN s = 1 .. Len(s)
      /\ DOMAIN t = 1 .. (Len(s) + 1)
      /\ Len(s) \in Nat
  BY <1>1
<1> HIDE DEF t
<1>3. Range(t) = Range(s) \union {e}
  <2>1. \A i \in 1 .. (Len(s) + 1) : i \in 1 .. Len(s) \/ i = Len(s) + 1
    BY <1>2
  <2>2. 1 .. Len(s) \subseteq 1 .. (Len(s) + 1) /\ Len(s) + 1 \in 1 .. (Len(s) + 1)
    BY <1>2
  <2> QED
    BY <1>1, <1>2, <2>1, <2>2, Zenon DEF Range
<1>4. IsInjective(s) /\ e \notin Range(s) => IsInjective(t)
  <2> SUFFICES ASSUME IsInjective(s), e \notin Range(s),
                      NEW i \in 1 .. (Len(s) + 1), NEW j \in 1 .. (Len(s) + 1),
                      t[i] = t[j]
               PROVE  i = j
    BY <1>2, Zenon DEF IsInjective
  <2>1. \A k \in 1 .. Len(s) : s[k] # e
    BY <1>2 DEF Range
  <2>2. \A k, l \in 1 .. Len(s) : s[k] = s[l] => k = l
    BY <1>2 DEF IsInjective
  <2> QED
    BY <1>1, <1>2, <2>1, <2>2
<1> QED
  BY <1>1, <1>3, <1>4 DEF t

\* Taking the head off a sequence without repetitions takes it out of the
\* range.
LEMMA TailRange ==
  ASSUME NEW S, NEW s \in Seq(S), s # <<>>
  PROVE  /\ Head(s) \in S
         /\ Tail(s) \in Seq(S)
         /\ Len(Tail(s)) = Len(s) - 1
         /\ Range(s) = Range(Tail(s)) \union {Head(s)}
         /\ IsInjective(s) =>
              IsInjective(Tail(s)) /\ Head(s) \notin Range(Tail(s))
<1> DEFINE t == Tail(s)
<1>1. /\ Head(s) \in S
      /\ t \in Seq(S)
      /\ Len(t) = Len(s) - 1
      /\ \A i \in 1 .. Len(t) : t[i] = s[i + 1]
  BY HeadTailProperties
<1>2. /\ Len(s) \in Nat
      /\ Len(s) > 0
      /\ DOMAIN s = 1 .. Len(s)
      /\ DOMAIN t = 1 .. (Len(s) - 1)
      /\ Head(s) = s[1]
  BY <1>1
<1> HIDE DEF t
<1>3. \A i \in 1 .. (Len(s) - 1) : i + 1 \in 1 .. Len(s) /\ i + 1 # 1
  BY <1>2
<1>4. \A i \in 1 .. Len(s) : i = 1 \/ \E j \in 1 .. (Len(s) - 1) : i = j + 1
  <2> SUFFICES ASSUME NEW i \in 1 .. Len(s), i # 1
               PROVE  \E j \in 1 .. (Len(s) - 1) : i = j + 1
    OBVIOUS
  <2>1. i - 1 \in 1 .. (Len(s) - 1) /\ i = (i - 1) + 1
    BY <1>2
  <2> QED
    BY <2>1
<1>5. Range(s) = Range(t) \union {Head(s)}
  <2>1. Range(s) \subseteq Range(t) \union {Head(s)}
    <3> SUFFICES ASSUME NEW i \in 1 .. Len(s)
                 PROVE  s[i] \in Range(t) \union {Head(s)}
      BY <1>2, Zenon DEF Range
    <3>1. CASE i = 1
      BY <1>2, <3>1
    <3>2. ASSUME NEW j \in 1 .. (Len(s) - 1), i = j + 1
          PROVE  s[i] = t[j] /\ t[j] \in Range(t)
      BY <1>1, <1>2, <3>2 DEF Range
    <3> QED
      BY <1>4, <3>1, <3>2
  <2>2. Range(t) \union {Head(s)} \subseteq Range(s)
    BY <1>1, <1>2, <1>3 DEF Range
  <2> QED
    BY <2>1, <2>2
<1>6. ASSUME IsInjective(s)
      PROVE  IsInjective(t) /\ Head(s) \notin Range(t)
  <2>1. \A k, l \in 1 .. Len(s) : s[k] = s[l] => k = l
    BY <1>2, <1>6 DEF IsInjective
  <2>2. IsInjective(t)
    BY <1>1, <1>2, <1>3, <2>1 DEF IsInjective
  <2>3. Head(s) \notin Range(t)
    BY <1>1, <1>2, <1>3, <2>1 DEF Range
  <2> QED
    BY <2>2, <2>3
<1> QED
  BY <1>1, <1>5, <1>6 DEF t

\* The sets that are counted are finite.
LEMMA CountedFinite == IsFiniteSet(Active) /\ IsFiniteSet(Reported)
<1>1. Active \in SUBSET Runs /\ Reported \in SUBSET Runs
  BY DEF Active, Reported
<1> QED
  BY <1>1, FS_Subset, RunsAssumption

-------------------------------------------------------------------------------
(* The inductive invariant.                                                *)

\* No run has been yielded yet and both channels are empty.
LEMMA InitIInv == Init => IInv
<1> SUFFICES ASSUME Init PROVE IInv
  OBVIOUS
<1> USE DEF Init
<1>1. TypeOK
  <2>1. <<>> \in Seq(Runs) /\ Len(<<>>) = 0
    OBVIOUS
  <2>2. 0 \in 0 .. ProgressCapacity /\ 0 <= ResultCapacity
    BY CapacityAssumption
  <2> QED
    BY <2>1, <2>2 DEF TypeOK, WaiterState
<1>2. OutcomeKnown /\ ClosedAfterAllSent /\ CallerPhase
  BY DEF OutcomeKnown, ClosedAfterAllSent, CallerPhase
<1>3. CrashPlace /\ OnlyDrainedCounts
  BY DEF CrashPlace, OnlyDrainedCounts
<1>4. WaitGroupExact
  <2>1. Active = {}
    BY DEF Active
  <2> QED
    BY <2>1, FS_EmptySet DEF WaitGroupExact
<1>5. Delivery
  BY DEF Delivery, Sent, Range, IsInjective
<1>6. ProgressConserved
  <2>1. Reported = {}
    BY DEF Reported
  <2> QED
    BY <2>1, FS_EmptySet DEF ProgressConserved
<1> QED
  BY <1>1, <1>2, <1>3, <1>4, <1>5, <1>6 DEF IInv

\* Every action of the program keeps the invariant.
LEMMA NextIInv == IInv /\ [Next]_vars => IInv'
<1> SUFFICES ASSUME IInv, [Next]_vars PROVE IInv'
  OBVIOUS
<1> USE DEF IInv, goVars, callVars, progressVars
<1>1. ASSUME NEW r \in Runs, StartWaiter(r), ~crashed PROVE IInv'
  <2>1. WaitGroupExact'
    <3>1. r \notin Active /\ Active' = Active \union {r}
      BY <1>1 DEF StartWaiter, Goto, TypeOK, Active
    <3> QED
      BY <1>1, <3>1, CountedFinite, FS_AddElement DEF StartWaiter, WaitGroupExact, TypeOK
  <2>2. TypeOK'
    BY <1>1 DEF StartWaiter, Goto, TypeOK, WaiterState
  <2>3. OutcomeKnown'
    BY <1>1 DEF StartWaiter, Goto, OutcomeKnown, TypeOK
  <2>4. ClosedAfterAllSent'
    BY <1>1 DEF StartWaiter, Goto, ClosedAfterAllSent, Active, TypeOK
  <2>5. /\ Delivery'
        /\ CallerPhase'
        /\ CrashPlace'
        /\ OnlyDrainedCounts'
        /\ ProgressConserved'
    BY <1>1 DEF StartWaiter, Goto, Delivery, CallerPhase, CrashPlace,
       OnlyDrainedCounts, ProgressConserved, Sent, Reported, TypeOK,
       OutcomeKnown
  <2> QED
    BY <2>1, <2>2, <2>3, <2>4, <2>5
<1>2. ASSUME NEW r \in Runs, StartFailed(r), ~crashed PROVE IInv'
  <2>1. WaitGroupExact'
    <3>1. r \notin Active /\ Active' = Active \union {r}
      BY <1>2 DEF StartFailed, Goto, Settle, TypeOK, Active
    <3> QED
      BY <1>2, <3>1, CountedFinite, FS_AddElement DEF StartFailed, WaitGroupExact, TypeOK
  <2>2. TypeOK'
    BY <1>2 DEF StartFailed, Goto, Settle, TypeOK, WaiterState
  <2>3. OutcomeKnown'
    BY <1>2 DEF StartFailed, Goto, Settle, OutcomeKnown, TypeOK
  <2>4. ClosedAfterAllSent'
    BY <1>2 DEF StartFailed, Goto, Settle, ClosedAfterAllSent, Active, TypeOK
  <2>5. /\ Delivery'
        /\ CallerPhase'
        /\ CrashPlace'
        /\ OnlyDrainedCounts'
        /\ ProgressConserved'
    BY <1>2 DEF StartFailed, Goto, Settle, Delivery, CallerPhase, CrashPlace,
       OnlyDrainedCounts, ProgressConserved, Sent, Reported, TypeOK,
       OutcomeKnown
  <2> QED
    BY <2>1, <2>2, <2>3, <2>4, <2>5
<1>3. ASSUME EndOfRuns, ~crashed PROVE IInv'
  BY <1>3 DEF EndOfRuns, TypeOK, OutcomeKnown, WaitGroupExact,
     ClosedAfterAllSent, Delivery, CallerPhase, CrashPlace,
     OnlyDrainedCounts, ProgressConserved, WaiterState, Active, Sent,
     Reported
<1>4. ASSUME Collect, ~crashed PROVE IInv'
  <2>1. TypeOK'
    <3>1. /\ Tail(resultChannel) \in Seq(Runs)
          /\ Len(Tail(resultChannel)) = Len(resultChannel) - 1
          /\ \A e \in Runs : Append(results, e) \in Seq(Runs)
          /\ Head(resultChannel) \in Runs
      BY <1>4, TailRange, AppendRange DEF Collect, TypeOK
    <3>2. Len(resultChannel') <= ResultCapacity
      BY <1>4, <3>1, CapacityAssumption DEF Collect, TypeOK
    <3>3. results' \in Seq(Runs)
      <4>1. results' = Append(results, Head(resultChannel)) \/ results' = <<>>
        BY <1>4 DEF Collect
      <4>2. <<>> \in Seq(Runs)
        OBVIOUS
      <4> QED
        BY <3>1, <4>1, <4>2
    <3> QED
      BY <1>4, <3>1, <3>2, <3>3 DEF Collect, Return, TypeOK
  <2>2. Delivery'
    <3> DEFINE h == Head(resultChannel)
    <3>1. /\ h \in Runs
          /\ Range(resultChannel) = Range(resultChannel') \union {h}
          /\ IsInjective(resultChannel')
          /\ h \notin Range(resultChannel')
      BY <1>4, TailRange DEF Collect, Delivery, TypeOK
    <3>2. Sent' = Sent
      BY <1>4 DEF Collect, Sent
    <3>3. CASE outcome[h] = "ok"
      <4>1. h \notin Range(results)
        BY <3>1 DEF Delivery
      <4>2. results' = Append(results, h) /\ answer' = answer
        BY <1>4, <3>3 DEF Collect
      <4>3. Range(results') = Range(results) \union {h} /\ IsInjective(results')
        BY <3>1, <4>1, <4>2, AppendRange DEF Delivery, TypeOK
      <4> QED
        BY <1>4, <3>1, <3>2, <3>3, <4>2, <4>3 DEF Collect, Delivery
    <3>4. CASE outcome[h] = "error"
      <4>1. results' = <<>> /\ answer' = "error"
        BY <1>4, <3>4 DEF Collect, Return
      <4>2. Range(results') = {} /\ IsInjective(results')
        BY <4>1 DEF Range, IsInjective
      <4> QED
        BY <1>4, <3>1, <3>2, <4>1, <4>2 DEF Collect, Delivery
    <3> QED
      BY <1>4, <3>3, <3>4 DEF Collect
  <2>3. CallerPhase'
    BY <1>4 DEF Collect, Return, CallerPhase, TypeOK, OutcomeKnown
  <2>4. /\ OutcomeKnown'
        /\ WaitGroupExact'
        /\ ClosedAfterAllSent'
        /\ CrashPlace'
        /\ OnlyDrainedCounts'
        /\ ProgressConserved'
    BY <1>4 DEF Collect, Return, OutcomeKnown, WaitGroupExact,
       ClosedAfterAllSent, CrashPlace, OnlyDrainedCounts, ProgressConserved,
       Active, Reported, TypeOK
  <2> QED
    BY <2>1, <2>2, <2>3, <2>4
<1>5. ASSUME CollectEnd, ~crashed PROVE IInv'
  <2>1. TypeOK'
    BY <1>5 DEF CollectEnd, Return, TypeOK, WaiterState
  <2>2. CallerPhase'
    BY <1>5 DEF CollectEnd, Return, CallerPhase, TypeOK, OutcomeKnown
  <2>3. /\ OutcomeKnown'
        /\ WaitGroupExact'
        /\ ClosedAfterAllSent'
        /\ Delivery'
        /\ CrashPlace'
        /\ OnlyDrainedCounts'
        /\ ProgressConserved'
    BY <1>5 DEF CollectEnd, Return, OutcomeKnown, WaitGroupExact,
       ClosedAfterAllSent, Delivery, CrashPlace, OnlyDrainedCounts,
       ProgressConserved, Active, Sent, Reported, TypeOK, CallerPhase
  <2> QED
    BY <2>1, <2>2, <2>3
<1>6. ASSUME CloseProgress, ~crashed PROVE IInv'
  <2>1. TypeOK'
    BY <1>6 DEF CloseProgress, TypeOK, WaiterState
  <2>2. CallerPhase'
    BY <1>6 DEF CloseProgress, CallerPhase
  <2>3. /\ OutcomeKnown'
        /\ WaitGroupExact'
        /\ ClosedAfterAllSent'
        /\ Delivery'
        /\ CrashPlace'
        /\ OnlyDrainedCounts'
        /\ ProgressConserved'
    BY <1>6 DEF CloseProgress, OutcomeKnown, WaitGroupExact,
       ClosedAfterAllSent, Delivery, CrashPlace, OnlyDrainedCounts,
       ProgressConserved, Active, Sent, Reported, CallerPhase
  <2> QED
    BY <2>1, <2>2, <2>3
<1>7. ASSUME NEW r \in Runs, AwaitReturns(r), ~crashed PROVE IInv'
  <2>1. TypeOK'
    BY <1>7 DEF AwaitReturns, Goto, Settle, TypeOK, WaiterState
  <2>2. OutcomeKnown'
    BY <1>7 DEF AwaitReturns, Goto, Settle, OutcomeKnown, TypeOK
  <2>3. WaitGroupExact'
    BY <1>7 DEF AwaitReturns, Goto, Settle, WaitGroupExact, Active, TypeOK
  <2>4. Delivery'
    BY <1>7 DEF AwaitReturns, Goto, Settle, Delivery, Sent, TypeOK,
       OutcomeKnown, CallerPhase
  <2>5. /\ ClosedAfterAllSent'
        /\ CallerPhase'
        /\ CrashPlace'
        /\ OnlyDrainedCounts'
        /\ ProgressConserved'
    BY <1>7 DEF AwaitReturns, Goto, Settle, ClosedAfterAllSent, CallerPhase,
       CrashPlace, OnlyDrainedCounts, ProgressConserved, Active, Reported,
       TypeOK, OutcomeKnown
  <2> QED
    BY <2>1, <2>2, <2>3, <2>4, <2>5
<1>8. ASSUME NEW r \in Runs, SendResult(r), ~crashed PROVE IInv'
  <2>1. TypeOK'
    <3>1. /\ resultChannel' \in Seq(Runs)
          /\ Len(resultChannel') = Len(resultChannel) + 1
          /\ Len(resultChannel) \in Nat
      BY <1>8, AppendRange DEF SendResult, TypeOK
    <3> QED
      BY <1>8, <3>1, CapacityAssumption
      DEF SendResult, Goto, AfterSend, TypeOK, WaiterState
  <2>2. Delivery'
    <3>1. r \notin Sent /\ Sent' = Sent \union {r}
      BY <1>8 DEF SendResult, Goto, AfterSend, TypeOK, Sent
    <3>2. answer = "none" \/ answer = "error"
      BY <1>8 DEF SendResult, CallerPhase, TypeOK
    <3>3. r \notin Range(resultChannel)
      BY <3>1 DEF Delivery
    <3>4. /\ Range(resultChannel') = Range(resultChannel) \union {r}
          /\ IsInjective(resultChannel')
      BY <1>8, <3>3, AppendRange DEF SendResult, Delivery, TypeOK
    <3>5. r \notin Range(results)
      BY <1>8, <3>1 DEF SendResult, Delivery
    <3> QED
      BY <1>8, <3>1, <3>4, <3>5, Zenon DEF SendResult, Delivery, callVars
  <2>3. OutcomeKnown'
    BY <1>8 DEF SendResult, Goto, AfterSend, OutcomeKnown, TypeOK
  <2>4. WaitGroupExact'
    BY <1>8 DEF SendResult, Goto, AfterSend, WaitGroupExact, Active, TypeOK
  <2>5. ProgressConserved'
    BY <1>8 DEF SendResult, Goto, AfterSend, ProgressConserved, Reported,
       TypeOK, OutcomeKnown
  <2>6. /\ ClosedAfterAllSent'
        /\ CallerPhase'
        /\ CrashPlace'
        /\ OnlyDrainedCounts'
    BY <1>8 DEF SendResult, Goto, AfterSend, ClosedAfterAllSent, CallerPhase,
       CrashPlace, OnlyDrainedCounts, Active, TypeOK, OutcomeKnown
  <2> QED
    BY <2>1, <2>2, <2>3, <2>4, <2>5, <2>6
<1>9. ASSUME NEW r \in Runs, ReportProgress(r), ~crashed PROVE IInv'
  <2>1. TypeOK'
    <3>1. completed + 1 \in 0 .. ProgressCapacity
      BY <1>9, CapacityAssumption DEF ReportProgress, TypeOK
    <3> QED
      BY <1>9, <3>1 DEF ReportProgress, Goto, TypeOK, WaiterState
  <2>2. ProgressConserved'
    <3>1. r \notin Reported /\ Reported' = Reported \union {r}
      BY <1>9 DEF ReportProgress, Goto, OutcomeKnown, TypeOK, Reported
    <3>2. Cardinality(Reported') = Cardinality(Reported) + 1
      BY <3>1, CountedFinite, FS_AddElement
    <3>3. counter + completed = Cardinality(Reported)
      BY <1>9 DEF ReportProgress, OutcomeKnown, ProgressConserved
    <3>4. counter' + completed' = (counter + completed) + 1
      BY <1>9, CapacityAssumption DEF ReportProgress, TypeOK
    <3> QED
      BY <3>2, <3>3, <3>4 DEF ProgressConserved
  <2>3. OutcomeKnown'
    BY <1>9 DEF ReportProgress, Goto, OutcomeKnown, TypeOK
  <2>4. WaitGroupExact'
    BY <1>9 DEF ReportProgress, Goto, WaitGroupExact, Active, TypeOK
  <2>5. CrashPlace'
    BY <1>9 DEF ReportProgress, Goto, CrashPlace, TypeOK, OutcomeKnown
  <2>6. /\ ClosedAfterAllSent'
        /\ Delivery'
        /\ CallerPhase'
        /\ OnlyDrainedCounts'
    BY <1>9 DEF ReportProgress, Goto, ClosedAfterAllSent, Delivery,
       CallerPhase, OnlyDrainedCounts, Active, Sent, TypeOK, OutcomeKnown
  <2> QED
    BY <2>1, <2>2, <2>3, <2>4, <2>5, <2>6
<1>10. ASSUME NEW r \in Runs, ReportOnClosed(r), ~crashed PROVE IInv'
  <2>1. CrashPlace'
    BY <1>10 DEF ReportOnClosed, CrashPlace
  <2>2. /\ TypeOK'
        /\ OutcomeKnown'
        /\ WaitGroupExact'
        /\ ClosedAfterAllSent'
        /\ Delivery'
        /\ CallerPhase'
        /\ OnlyDrainedCounts'
        /\ ProgressConserved'
    BY <1>10 DEF ReportOnClosed, TypeOK, OutcomeKnown, WaitGroupExact,
       ClosedAfterAllSent, Delivery, CallerPhase, OnlyDrainedCounts,
       ProgressConserved, WaiterState, Active, Sent, Reported
  <2> QED
    BY <2>1, <2>2
<1>11. ASSUME NEW r \in Runs, WaiterDone(r), ~crashed PROVE IInv'
  <2>1. TypeOK'
    <3>1. r \in Active /\ Active' = Active \ {r}
      BY <1>11 DEF WaiterDone, Goto, TypeOK, Active
    <3>2. Cardinality(Active') = Cardinality(Active) - 1
      BY <3>1, CountedFinite, FS_RemoveElement
    <3>3. Cardinality(Active') \in Nat
      BY <3>1, CountedFinite, FS_RemoveElement, FS_CardinalityType
    <3>4. wg - 1 \in Nat
      BY <3>2, <3>3 DEF WaitGroupExact
    <3> QED
      BY <1>11, <3>4 DEF WaiterDone, Goto, TypeOK, WaiterState
  <2>2. WaitGroupExact'
    <3>1. r \in Active /\ Active' = Active \ {r}
      BY <1>11 DEF WaiterDone, Goto, TypeOK, Active
    <3>2. Cardinality(Active') = Cardinality(Active) - 1
      BY <3>1, CountedFinite, FS_RemoveElement
    <3> QED
      BY <1>11, <3>2 DEF WaiterDone, WaitGroupExact
  <2>3. OutcomeKnown'
    BY <1>11 DEF WaiterDone, Goto, OutcomeKnown, TypeOK
  <2>4. CrashPlace'
    BY <1>11 DEF WaiterDone, Goto, CrashPlace, TypeOK, OutcomeKnown
  <2>5. ProgressConserved'
    BY <1>11 DEF WaiterDone, Goto, ProgressConserved, Reported, TypeOK,
       OutcomeKnown
  <2>6. /\ ClosedAfterAllSent'
        /\ Delivery'
        /\ CallerPhase'
        /\ OnlyDrainedCounts'
    BY <1>11 DEF WaiterDone, Goto, ClosedAfterAllSent, Delivery, CallerPhase,
       OnlyDrainedCounts, Active, Sent, TypeOK, OutcomeKnown
  <2> QED
    BY <2>1, <2>2, <2>3, <2>4, <2>5, <2>6
<1>12. ASSUME CloseResults, ~crashed PROVE IInv'
  <2>1. ClosedAfterAllSent'
    <3>1. Active = {} /\ Active' = Active
      BY <1>12, CountedFinite, FS_EmptySet DEF CloseResults, WaitGroupExact, Active
    <3> QED
      BY <1>12, <3>1 DEF CloseResults, ClosedAfterAllSent
  <2>2. CallerPhase'
    BY <1>12 DEF CloseResults, CallerPhase
  <2>3. /\ TypeOK'
        /\ OutcomeKnown'
        /\ WaitGroupExact'
        /\ Delivery'
        /\ CrashPlace'
        /\ OnlyDrainedCounts'
        /\ ProgressConserved'
    BY <1>12 DEF CloseResults, TypeOK, OutcomeKnown, WaitGroupExact, Delivery,
       CrashPlace, OnlyDrainedCounts, ProgressConserved, WaiterState, Active,
       Sent, Reported, CallerPhase
  <2> QED
    BY <2>1, <2>2, <2>3
<1>13. ASSUME CountProgress, ~crashed PROVE IInv'
  <2>1. TypeOK'
    <3>1. completed - 1 \in 0 .. ProgressCapacity /\ counter + 1 \in Nat
      BY <1>13, CapacityAssumption DEF CountProgress, TypeOK
    <3> QED
      BY <1>13, <3>1 DEF CountProgress, TypeOK
  <2>2. ProgressConserved'
    <3>1. Reported' = Reported
      BY <1>13 DEF CountProgress, Reported
    <3> QED
      BY <1>13, <3>1, CapacityAssumption DEF CountProgress, ProgressConserved, TypeOK
  <2>3. /\ OutcomeKnown'
        /\ WaitGroupExact'
        /\ ClosedAfterAllSent'
        /\ Delivery'
        /\ CallerPhase'
        /\ CrashPlace'
        /\ OnlyDrainedCounts'
    BY <1>13 DEF CountProgress, OutcomeKnown, WaitGroupExact,
       ClosedAfterAllSent, Delivery, CallerPhase, CrashPlace,
       OnlyDrainedCounts, Active, Sent
  <2> QED
    BY <2>1, <2>2, <2>3
<1>14. CASE UNCHANGED vars
  BY <1>14
  DEF vars, TypeOK, OutcomeKnown, WaitGroupExact, ClosedAfterAllSent, Delivery,
      CallerPhase, CrashPlace, OnlyDrainedCounts, ProgressConserved, Active,
      Sent, Reported
<1> QED
  BY <1>1, <1>2, <1>3, <1>4, <1>5, <1>6, <1>7, <1>8, <1>9, <1>10, <1>11, <1>12,
     <1>13, <1>14 DEF Next, Caller, Waiter, Terminated

\* The strengthening is an invariant of the specification.
THEOREM InductiveInvariant == Spec => []IInv
<1> QED
  BY InitIInv, NextIInv, PTL DEF Spec

-------------------------------------------------------------------------------
(* What follows from it.                                                   *)

\* Every variable stays in its type and no channel holds more messages than
\* it was made for, however many runs there are.
THEOREM TypeCorrect == Spec => []TypeOK
<1>1. IInv => TypeOK
  BY DEF IInv
<1> QED
  BY <1>1, InductiveInvariant, PTL

\* The wait group counts the waiters that have not finished, so the closing
\* goroutine is released neither early nor never.
THEOREM WaitGroupCounts == Spec => []WaitGroupExact
<1>1. IInv => WaitGroupExact
  BY DEF IInv
<1> QED
  BY <1>1, InductiveInvariant, PTL

\* No waiter sends on the result channel after it has been closed.
THEOREM NoSendAfterClose == Spec => []ClosedAfterAllSent
<1>1. IInv => ClosedAfterAllSent
  BY DEF IInv
<1> QED
  BY <1>1, InductiveInvariant, PTL

\* When the call has succeeded, every waiter is finished, the channel is empty,
\* and so everything sent is in the results.
LEMMA CompleteBySent == IInv => SuccessIsComplete
<1> SUFFICES ASSUME IInv, answer = "ok"
             PROVE  /\ Range(results) = Started
                    /\ IsInjective(results)
                    /\ \A r \in Started : outcome[r] = "ok"
  BY DEF SuccessIsComplete
<1> USE DEF IInv
<1>1. resultChannel = <<>> /\ Active = {}
  BY DEF CallerPhase, ClosedAfterAllSent
<1>2. Range(resultChannel) = {}
  BY <1>1 DEF Range
<1>3. Range(results) = Sent
  BY <1>2 DEF Delivery
<1>4. Sent = Started
  BY <1>1 DEF Sent, Started, Active
<1> QED
  BY <1>3, <1>4 DEF Delivery

\* A success has every yielded run in it, once, and none of them failed.
THEOREM SuccessComplete == Spec => []SuccessIsComplete
<1> QED
  BY CompleteBySent, InductiveInvariant, PTL

\* The process can die on the closed progress channel only after the call has
\* returned an error.
THEOREM SuccessDoesNotPanic == Spec => []PanicOnlyAfterFailure
<1>1. IInv => PanicOnlyAfterFailure
  <2> SUFFICES ASSUME IInv, crashed PROVE answer = "error"
    BY DEF PanicOnlyAfterFailure
  <2> USE DEF IInv
  <2>1. Active # {} /\ caller = "closed"
    BY DEF CrashPlace, CallerPhase, Active
  <2>2. answer # "none" /\ answer # "ok"
    BY <2>1 DEF CallerPhase, ClosedAfterAllSent
  <2> QED
    BY <2>2 DEF TypeOK
<1> QED
  BY <1>1, InductiveInvariant, PTL

\* Reports are neither lost nor made twice.
THEOREM ProgressAddsUp == Spec => []ProgressConserved
<1>1. IInv => ProgressConserved
  BY DEF IInv
<1> QED
  BY <1>1, InductiveInvariant, PTL

\* With a progress channel that nobody reads, a call that succeeds had no more
\* runs than the channel has room for.
THEOREM UnreadSuccessIsSmall == Spec => []UnreadProgressBound
<1>1. IInv => UnreadProgressBound
  <2> SUFFICES ASSUME IInv, progress = "unread", answer = "ok"
               PROVE  Cardinality(Started) <= ProgressCapacity
    BY DEF UnreadProgressBound
  <2> USE DEF IInv
  <2>1. Active = {} /\ \A r \in Started : outcome[r] = "ok"
    BY CompleteBySent DEF CallerPhase, ClosedAfterAllSent, SuccessIsComplete
  <2>2. Reported = Started
    <3>1. \A r \in Runs : waiter[r] \in {"unstarted", "finished"}
      BY <2>1 DEF Active
    <3> QED
      BY <2>1, <3>1 DEF Reported, Started, OutcomeKnown
  <2>3. counter = 0
    BY DEF OnlyDrainedCounts
  <2>4. counter + completed = Cardinality(Started)
    BY <2>2 DEF ProgressConserved
  <2> QED
    BY <2>3, <2>4, CapacityAssumption DEF TypeOK
<1> QED
  BY <1>1, InductiveInvariant, PTL

-------------------------------------------------------------------------------
(* The call implements the promise.                                        *)

USE DEF goVars, callVars, progressVars

\* No run has been yielded and nothing is answered.
LEMMA InitPromise == Init => Promise!Init
<1> SUFFICES ASSUME Init PROVE Promise!Init
  OBVIOUS
<1>1. Started = {}
  BY DEF Init, Started
<1> QED
  BY <1>1 DEF Init, Promise!Init

\* Every step of the goroutines is a step of the promise or invisible.
LEMMA NextPromise == IInv /\ IInv' /\ [Next]_vars => [Promise!Next]_(Promise!vars)
<1> SUFFICES ASSUME IInv, IInv', [Next]_vars
             PROVE  Promise!Next \/ UNCHANGED Promise!vars
  OBVIOUS
<1> USE DEF IInv
<1>1. ASSUME NEW r \in Runs, StartWaiter(r) PROVE Promise!Yield(r)
  <2>1. r \notin Started /\ Started' = Started \union {r}
    BY <1>1 DEF StartWaiter, Goto, TypeOK, Started
  <2> QED
    BY <1>1, <2>1 DEF StartWaiter, Promise!Yield
<1>2. ASSUME NEW r \in Runs, StartFailed(r) PROVE Promise!Yield(r)
  <2>1. r \notin Started /\ Started' = Started \union {r}
    BY <1>2 DEF StartFailed, Goto, TypeOK, Started
  <2> QED
    BY <1>2, <2>1 DEF StartFailed, Settle, Promise!Yield
<1>3. CASE EndOfRuns
  <2>1. Started' = Started
    BY <1>3 DEF EndOfRuns, Started
  <2>2. Promise!StopYielding
    BY <1>3, <2>1 DEF EndOfRuns, Promise!StopYielding
  <2> QED
    BY <2>2 DEF Promise!Next
<1>4. CASE Collect
  <2> DEFINE h == Head(resultChannel)
  <2>1. Started' = Started /\ outcome' = outcome /\ caller = "collecting"
    BY <1>4 DEF Collect, Started
  <2>2. answer = "none"
    BY <2>1 DEF CallerPhase
  <2>3. CASE outcome[h] = "ok"
    <3>1. UNCHANGED <<caller, answer>>
      BY <1>4, <2>3 DEF Collect
    <3> QED
      BY <2>1, <2>2, <3>1 DEF Promise!vars
  <2>4. CASE outcome[h] = "error"
    <3>1. caller' = "returned" /\ answer' = "error"
      BY <1>4, <2>4 DEF Collect, Return
    <3>2. h \in Started
      <4>1. h \in Range(resultChannel)
        BY <1>4, TailRange DEF Collect, TypeOK
      <4> QED
        BY <4>1 DEF Delivery, Sent, Started
    <3>3. Promise!AnswerFailure
      BY <2>1, <2>2, <2>4, <3>1, <3>2 DEF Promise!AnswerFailure
    <3> QED
      BY <3>3 DEF Promise!Next
  <2> QED
    BY <1>4, <2>3, <2>4 DEF Collect
<1>5. CASE CollectEnd
  <2>1. Started' = Started /\ outcome' = outcome /\ results' = results
    BY <1>5 DEF CollectEnd, Started
  <2>2. answer' = "ok" /\ caller = "collecting" /\ caller' = "returned"
    BY <1>5 DEF CollectEnd, Return
  <2>3. answer = "none"
    BY <2>2 DEF CallerPhase
  <2>4. Range(results) = Started /\ \A r \in Started : outcome[r] = "ok"
    <3>1. SuccessIsComplete'
      BY CompleteBySent, PTL
    <3> QED
      BY <2>1, <2>2, <3>1 DEF SuccessIsComplete
  <2>5. Promise!AnswerAll
    BY <2>1, <2>2, <2>3, <2>4 DEF Promise!AnswerAll
  <2> QED
    BY <2>5 DEF Promise!Next
<1>6. ASSUME NEW r \in Runs, AwaitReturns(r) PROVE Promise!Settle(r)
  <2>1. r \in Started /\ Started' = Started
    BY <1>6 DEF AwaitReturns, Goto, TypeOK, Started
  <2>2. outcome[r] = "none"
    BY <1>6 DEF AwaitReturns, OutcomeKnown
  <2>3. \E o \in {"ok", "error"} : outcome' = [outcome EXCEPT ![r] = o]
    BY <1>6 DEF AwaitReturns, Settle
  <2> QED
    BY <1>6, <2>1, <2>2, <2>3 DEF AwaitReturns, Promise!Settle
<1>7. ASSUME NEW r \in Runs, SendResult(r) \/ ReportProgress(r) \/ WaiterDone(r)
      PROVE  UNCHANGED Promise!vars
  <2>1. Started' = Started
    BY <1>7
    DEF SendResult, ReportProgress, WaiterDone, AfterSend, Goto, TypeOK, Started
  <2> QED
    BY <1>7, <2>1 DEF SendResult, ReportProgress, WaiterDone, Promise!vars
<1>8. ASSUME NEW r \in Runs, ReportOnClosed(r) PROVE UNCHANGED Promise!vars
  BY <1>8 DEF ReportOnClosed, Started, Promise!vars
<1>9. CASE CloseProgress \/ CloseResults \/ CountProgress \/ UNCHANGED vars
  <2>1. UNCHANGED <<waiter, outcome, results, answer>>
    BY <1>9 DEF CloseProgress, CloseResults, CountProgress, vars
  <2>2. Started' = Started
    BY <2>1 DEF Started
  <2>3. (caller = "iterating")' = (caller = "iterating")
    BY <1>9 DEF CloseProgress, CloseResults, CountProgress, vars
  <2> QED
    BY <2>1, <2>2, <2>3 DEF Promise!vars
<1> QED
  BY <1>1, <1>2, <1>3, <1>4, <1>5, <1>6, <1>7, <1>8, <1>9
  DEF Next, Caller, Waiter, Terminated, Promise!Next

\* awaitRuns gives its caller what AwaitAll promises.
THEOREM ImplementsPromise == Spec => PromiseKept
<1> QED
  BY InitPromise, NextPromise, InductiveInvariant, PTL
  DEF Spec, PromiseKept, Promise!Spec
-------------------------------------------------------------------------------
(* Nobody waits on everybody, and nothing goes on for ever.                *)
(*                                                                         *)
(* That a call returns is a property of fair behaviours and stays with the *)
(* runs.  What it rests on is proved here: short of the leak after a       *)
(* failure some goroutine can always go on, and every step brings the      *)
(* goroutines nearer to their end.                                         *)

\* The goroutines that can go on, by the guards of their actions: a send needs
\* a free slot, a receive a message or the close.
CallerCanGo ==
  \/ caller = "iterating"
  \/ caller = "collecting" /\ (resultChannel # <<>> \/ resultClosed)
  \/ caller = "returned" /\ progress = "drained"

WaiterCanGo(r) ==
  \/ waiter[r] \in {"awaiting", "finishing"}
  \/ waiter[r] = "sending" /\ ~resultClosed /\ Len(resultChannel) < ResultCapacity
  \/ waiter[r] = "reporting" /\ (completedClosed \/ completed < ProgressCapacity)

CloserCanGo == caller # "iterating" /\ wg = 0 /\ ~resultClosed

CounterCanGo == progress = "drained" /\ completed > 0

CanGo ==
  \/ CallerCanGo
  \/ \E r \in Runs : WaiterCanGo(r)
  \/ CloserCanGo
  \/ CounterCanGo

\* The goroutines are stuck for ever, with work left, in two ways only.  The
\* call has failed and nobody receives its results any more, and more waiters
\* than the one it failed on and those the result channel has slots for were
\* started (scheduler.go:177, :257-260).  Or the progress channel is left
\* unread, and more waiters succeed than it has room for.
LeakStuck ==
  /\ answer = "error"
  /\ \E r \in Runs : waiter[r] = "sending"
  /\ Len(resultChannel) = ResultCapacity
  /\ Cardinality(Started) > ResultCapacity + 1

UnreadStuck ==
  /\ progress = "unread"
  /\ \E r \in Runs : waiter[r] = "reporting"
  /\ completed = ProgressCapacity
  /\ Cardinality(Started) > ProgressCapacity

StuckOnlyWhenFull == ~crashed /\ ~Quiet /\ ~CanGo => LeakStuck \/ UnreadStuck

\* What is left to do: the steps of the waiters that have not taken them, a
\* message counting for the receive it still needs.
Unstarted == {r \in Runs : waiter[r] = "unstarted"}
Unsettled == {r \in Runs : waiter[r] \in {"unstarted", "awaiting"}}
Unsent == {r \in Runs : waiter[r] \in {"unstarted", "awaiting", "sending"}}
Unreported ==
  {r \in Runs : waiter[r] \in {"unstarted", "awaiting", "sending", "reporting"}}
Unfinished == {r \in Runs : waiter[r] # "finished"}

WaitersLeft ==
  Cardinality(Unstarted) + Cardinality(Unsettled) + 2 * Cardinality(Unsent)
    + 2 * Cardinality(Unreported) + Cardinality(Unfinished)

CallerLeft ==
  CASE caller = "iterating" -> 3
    [] caller = "collecting" -> 2
    [] caller = "returned" -> 1
    [] caller = "closed" -> 0

OnceLeft ==
  CASE resultClosed /\ crashed -> 0
    [] ~resultClosed /\ ~crashed -> 2
    [] OTHER -> 1

Left == WaitersLeft + Len(resultChannel) + completed + CallerLeft + OnceLeft

\* Every step leaves less to do: neither the call nor what it leaves behind
\* can go on without end.
Dwindles == [][Left' < Left]_vars

\* What a call has failed on: a waiter whose message has left the channel.
FailureTaken ==
  answer = "error" =>
    \E r \in Sent : outcome[r] = "error" /\ r \notin Range(resultChannel)

\* The counter of the foreign caller never runs ahead of the runs it awaits,
\* and shows all of them as soon as a successful call's reports are received.
CounterExact ==
  /\ counter <= Cardinality(Started)
  /\ answer = "ok" /\ progress = "drained" /\ completed = 0 =>
       counter = Cardinality(Started)

-------------------------------------------------------------------------------
\* A sequence without repetitions has as many elements as its range.
LEMMA InjectiveLength ==
  ASSUME NEW S, NEW s \in Seq(S), IsInjective(s)
  PROVE  IsFiniteSet(Range(s)) /\ Cardinality(Range(s)) = Len(s)
<1>1. Len(s) \in Nat /\ DOMAIN s = 1 .. Len(s)
  OBVIOUS
<1>2. s \in Surjection(1 .. Len(s), Range(s))
  BY <1>1 DEF Surjection, Range
<1>3. s \in Injection(1 .. Len(s), Range(s))
  BY <1>1 DEF Injection, IsInjective, Range
<1>4. IsFiniteSet(1 .. Len(s)) /\ Cardinality(1 .. Len(s)) = Len(s)
  BY <1>1, FS_Interval
<1> QED
  BY <1>2, <1>3, <1>4, FS_Surjection

\* The sets in which the work left is counted are finite.
LEMMA LeftFinite ==
  /\ IsFiniteSet(Unstarted) /\ Cardinality(Unstarted) \in Nat
  /\ IsFiniteSet(Unsettled) /\ Cardinality(Unsettled) \in Nat
  /\ IsFiniteSet(Unsent) /\ Cardinality(Unsent) \in Nat
  /\ IsFiniteSet(Unreported) /\ Cardinality(Unreported) \in Nat
  /\ IsFiniteSet(Unfinished) /\ Cardinality(Unfinished) \in Nat
<1>1. \A T \in SUBSET Runs : IsFiniteSet(T) /\ Cardinality(T) \in Nat
  BY RunsAssumption, FS_Subset, FS_CardinalityType
<1> QED
  BY <1>1 DEF Unstarted, Unsettled, Unsent, Unreported, Unfinished

\* The run a call has failed on stays out of the result channel.
LEMMA FailureStep == IInv /\ FailureTaken /\ [Next]_vars => FailureTaken'
<1> SUFFICES ASSUME IInv, FailureTaken, [Next]_vars, answer' = "error"
             PROVE  \E r \in Sent' :
                      outcome'[r] = "error" /\ r \notin Range(resultChannel')
  BY DEF FailureTaken
<1> USE DEF IInv
<1> DEFINE Kept(r) == /\ r \in Sent' /\ outcome'[r] = "error"
                      /\ r \notin Range(resultChannel')
<1>1. CASE Collect
  <2> DEFINE h == Head(resultChannel)
  <2>1. answer # "error"
    BY <1>1 DEF Collect, CallerPhase
  <2>2. outcome[h] = "error" /\ outcome' = outcome /\ Sent' = Sent
    BY <1>1, <2>1 DEF Collect, Sent
  <2>3. h \in Range(resultChannel) /\ h \notin Range(resultChannel')
    BY <1>1, TailRange DEF Collect, Delivery, TypeOK
  <2> QED
    BY <2>2, <2>3 DEF Delivery
<1>2. ASSUME ~Collect
      PROVE  answer = "error"
  BY <1>2 DEF Next, Caller, Waiter, Terminated, StartWaiter, StartFailed,
     EndOfRuns, CollectEnd, Return, CloseProgress, AwaitReturns, SendResult,
     ReportProgress, ReportOnClosed, WaiterDone, CloseResults, CountProgress,
     vars
<1>3. ASSUME NEW f \in Sent, outcome[f] = "error", f \notin Range(resultChannel),
             ~Collect
      PROVE  Kept(f)
  <2>1. answer = "error"
    BY <1>2, <1>3
  <2>2. ASSUME NEW r \in Runs, SendResult(r)
        PROVE  Kept(f)
    <3>1. f # r /\ f \in Sent' /\ outcome' = outcome
      BY <1>3, <2>2 DEF SendResult, Goto, Sent, TypeOK
    <3>2. Range(resultChannel') = Range(resultChannel) \union {r}
      BY <2>2, AppendRange DEF SendResult, TypeOK
    <3> QED
      BY <1>3, <3>1, <3>2
  <2>3. ASSUME NEW r \in Runs, AwaitReturns(r)
        PROVE  Kept(f)
    BY <1>3, <2>3 DEF AwaitReturns, Goto, Settle, Sent, TypeOK
  <2>4. ASSUME NEW r \in Runs,
               ReportProgress(r) \/ ReportOnClosed(r) \/ WaiterDone(r)
        PROVE  Kept(f)
    BY <1>3, <2>4 DEF ReportProgress, ReportOnClosed, WaiterDone, Goto, Sent, TypeOK
  <2>5. CASE CloseProgress \/ CloseResults \/ CountProgress \/ UNCHANGED vars
    BY <1>3, <2>5 DEF CloseProgress, CloseResults, CountProgress, vars, Sent
  <2>6. ASSUME NEW r \in Runs, StartWaiter(r) \/ StartFailed(r) PROVE FALSE
    BY <2>1, <2>6 DEF StartWaiter, StartFailed, CallerPhase
  <2>7. ~EndOfRuns /\ ~CollectEnd
    BY <2>1 DEF EndOfRuns, CollectEnd, CallerPhase
  <2> QED
    BY <1>3, <2>2, <2>3, <2>4, <2>5, <2>6, <2>7
    DEF Next, Caller, Waiter, Terminated
<1> QED
  BY <1>1, <1>2, <1>3 DEF FailureTaken

LEMMA FailureLeft == Spec => []FailureTaken
<1>1. Init => FailureTaken
  BY DEF Init, FailureTaken
<1> QED
  BY <1>1, FailureStep, InductiveInvariant, PTL DEF Spec

\* A waiter that cannot go on waits for a slot in one of the channels.
LEMMA Waiting ==
  ASSUME IInv, ~CanGo, NEW r \in Active
  PROVE  \/ waiter[r] = "sending" /\ Len(resultChannel) = ResultCapacity
         \/ waiter[r] = "reporting" /\ completed = ProgressCapacity
<1> USE DEF IInv
<1>1. r \in Runs /\ ~WaiterCanGo(r)
  BY DEF CanGo, Active
<1>2. waiter[r] \in {"sending", "reporting"}
  BY <1>1 DEF WaiterCanGo, Active, TypeOK, WaiterState
<1>3. ~resultClosed
  BY DEF ClosedAfterAllSent
<1>4. Len(resultChannel) \in Nat /\ Len(resultChannel) <= ResultCapacity
      /\ completed \in 0 .. ProgressCapacity
  BY DEF TypeOK
<1> QED
  BY <1>1, <1>2, <1>3, <1>4, CapacityAssumption DEF WaiterCanGo

\* The goroutines are stuck only behind a full channel that nobody reads: a
\* call that has a reader for its progress always returns, and a call that
\* has failed leaves waiters behind only beyond the capacity.
THEOREM NoDeadlock == Spec => []StuckOnlyWhenFull
<1>1. IInv /\ FailureTaken => StuckOnlyWhenFull
  <2> SUFFICES ASSUME IInv, FailureTaken, ~crashed, ~Quiet, ~CanGo
               PROVE  LeakStuck \/ UnreadStuck
    BY DEF StuckOnlyWhenFull
  <2> USE DEF IInv
  <2>1. caller # "iterating" /\ (progress = "drained" => completed = 0)
    <3>1. ~CallerCanGo /\ ~CounterCanGo
      BY DEF CanGo
    <3> QED
      BY <3>1, CapacityAssumption DEF CallerCanGo, CounterCanGo, TypeOK
  <2>2. Active # {}
    <3> SUFFICES ASSUME Active = {} PROVE FALSE
      OBVIOUS
    <3>1. wg = 0
      BY FS_EmptySet DEF WaitGroupExact
    <3>2. resultClosed
      BY <2>1, <3>1 DEF CanGo, CloserCanGo
    <3>3. caller \in {"returned", "closed"} /\ (progress = "drained" => caller = "closed")
      BY <2>1, <3>2 DEF CanGo, CallerCanGo, TypeOK
    <3>4. caller = "closed" => progress = "drained"
      BY DEF CallerPhase
    <3> QED
      BY <2>1, <3>2, <3>3, <3>4 DEF Quiet
  <2>3. CASE \E r \in Active : waiter[r] = "reporting" /\ completed = ProgressCapacity
    <3> PICK r \in Active : waiter[r] = "reporting" /\ completed = ProgressCapacity
      BY <2>3
    <3>1. progress = "unread"
      BY <2>1, CapacityAssumption, ProgressAssumption DEF OutcomeKnown, Active, TypeOK
    <3>2. counter = 0
      BY <3>1 DEF OnlyDrainedCounts
    <3>3. Cardinality(Reported) = ProgressCapacity
      BY <3>1, <3>2, CapacityAssumption DEF ProgressConserved, TypeOK
    <3>4. r \in Runs /\ r \notin Reported /\ Reported \union {r} \in SUBSET Started
      BY DEF Reported, Started, Active
    <3>5. Cardinality(Reported \union {r}) = ProgressCapacity + 1
      BY <3>3, <3>4, CountedFinite, FS_AddElement
    <3>6. IsFiniteSet(Started)
      BY RunsAssumption, FS_Subset DEF Started
    <3>7. Cardinality(Started) > ProgressCapacity
      BY <3>4, <3>5, <3>6, FS_Subset, FS_CardinalityType, CapacityAssumption
    <3> QED
      BY <3>1, <3>4, <3>7 DEF UnreadStuck
  <2>4. CASE \E r \in Active : waiter[r] = "sending" /\ Len(resultChannel) = ResultCapacity
    <3> PICK r \in Active : waiter[r] = "sending" /\ Len(resultChannel) = ResultCapacity
      BY <2>4
    <3>1. answer = "error"
      <4>1. resultChannel # <<>>
        BY CapacityAssumption
      <4>2. caller # "collecting"
        BY <4>1 DEF CanGo, CallerCanGo
      <4>3. answer # "none"
        BY <2>1, <4>2 DEF CallerPhase, TypeOK
      <4> QED
        BY <4>1, <4>3 DEF CallerPhase, TypeOK
    <3>2. PICK f \in Sent : outcome[f] = "error" /\ f \notin Range(resultChannel)
      BY <3>1 DEF FailureTaken
    <3> DEFINE C == Range(resultChannel)
    <3>3. IsFiniteSet(C) /\ Cardinality(C) = ResultCapacity
      BY InjectiveLength DEF Delivery, TypeOK
    <3>4. f # r /\ r \notin C /\ r \in Runs /\ f \in Runs
      BY DEF Delivery, Sent, Active
    <3> DEFINE D == C \union {f}
    <3>5. IsFiniteSet(D \union {r}) /\ Cardinality(D \union {r}) = ResultCapacity + 2
      <4>1. IsFiniteSet(D) /\ Cardinality(D) = ResultCapacity + 1
        BY <3>2, <3>3, FS_AddElement
      <4>2. r \notin D
        BY <3>4
      <4> HIDE DEF D
      <4>3. IsFiniteSet(D \union {r}) /\ Cardinality(D \union {r}) = Cardinality(D) + 1
        BY <4>1, <4>2, FS_AddElement
      <4> QED
        BY <4>1, <4>3, CapacityAssumption
    <3>6. D \union {r} \in SUBSET Started
      BY <3>2, <3>4 DEF Delivery, Sent, Started
    <3>7. IsFiniteSet(Started)
      BY RunsAssumption, FS_Subset DEF Started
    <3> HIDE DEF C, D
    <3>8. Cardinality(Started) > ResultCapacity + 1
      BY <3>5, <3>6, <3>7, FS_Subset, FS_CardinalityType, CapacityAssumption
    <3> QED
      BY <3>1, <3>4, <3>8 DEF LeakStuck
  <2> QED
    BY <2>2, <2>3, <2>4, Waiting
<1> QED
  BY <1>1, FailureLeft, InductiveInvariant, PTL

\* The work left is a natural number, and so is every part of it.
LeftTyped ==
  /\ WaitersLeft \in Nat
  /\ Len(resultChannel) \in Nat
  /\ completed \in Nat
  /\ CallerLeft \in 0 .. 3
  /\ OnceLeft \in 0 .. 2
  /\ Left \in Nat

LEMMA LeftNatural == IInv => LeftTyped
<1> SUFFICES ASSUME IInv PROVE LeftTyped
  OBVIOUS
<1>1. WaitersLeft \in Nat
  BY LeftFinite DEF WaitersLeft
<1>2. Len(resultChannel) \in Nat /\ completed \in Nat /\ CallerLeft \in 0 .. 3
  BY CapacityAssumption DEF IInv, TypeOK, CallerLeft
<1>3. OnceLeft \in 0 .. 2
  BY DEF OnceLeft
<1>4. Left \in Nat
  BY <1>1, <1>2, <1>3 DEF Left
<1> QED
  BY <1>1, <1>2, <1>3, <1>4 DEF LeftTyped

\* A step of a waiter takes it out of some of the sets, and each of them has
\* one element less for it.
LEMMA OneLess ==
  ASSUME NEW T, IsFiniteSet(T), NEW r \in T
  PROVE  Cardinality(T \ {r}) = Cardinality(T) - 1
BY FS_RemoveElement

\* What the step of one waiter does to the work left.
LEMMA WaiterStepLeft ==
  ASSUME IInv, NEW r \in Runs
  PROVE  /\ StartWaiter(r) \/ StartFailed(r) =>
              \E k \in 1 .. 2 : WaitersLeft' = WaitersLeft - k
         /\ AwaitReturns(r) => WaitersLeft' = WaitersLeft - 1
         /\ SendResult(r) => \E k \in 2 .. 4 : WaitersLeft' = WaitersLeft - k
         /\ ReportProgress(r) => WaitersLeft' = WaitersLeft - 2
         /\ WaiterDone(r) => WaitersLeft' = WaitersLeft - 1
<1> USE DEF IInv
<1> DEFINE u == Cardinality(Unstarted)
           a == Cardinality(Unsettled)
           s == Cardinality(Unsent)
           p == Cardinality(Unreported)
           f == Cardinality(Unfinished)
<1>1. u \in Nat /\ a \in Nat /\ s \in Nat /\ p \in Nat /\ f \in Nat
  BY LeftFinite
<1>2. /\ WaitersLeft = u + a + 2 * s + 2 * p + f
      /\ WaitersLeft' = u' + a' + 2 * s' + 2 * p' + f'
  BY DEF WaitersLeft
<1>3. ASSUME StartWaiter(r) \/ StartFailed(r)
      PROVE  \E k \in 1 .. 2 : WaitersLeft' = WaitersLeft - k
  <2>1. /\ r \in Unstarted /\ Unstarted' = Unstarted \ {r}
        /\ Unsettled' = Unsettled \/ (r \in Unsettled /\ Unsettled' = Unsettled \ {r})
        /\ UNCHANGED <<Unsent, Unreported, Unfinished>>
    BY <1>3
    DEF StartWaiter, StartFailed, Goto, TypeOK, Unstarted, Unsettled, Unsent,
        Unreported, Unfinished
  <2>2. u' = u - 1 /\ (a' = a \/ a' = a - 1) /\ s' = s /\ p' = p /\ f' = f
    BY <2>1, LeftFinite, OneLess
  <2> HIDE DEF u, a, s, p, f
  <2>3. WaitersLeft' = WaitersLeft - 1 \/ WaitersLeft' = WaitersLeft - 2
    BY <1>1, <1>2, <2>2
  <2> QED
    BY <2>3
<1>4. ASSUME AwaitReturns(r) PROVE WaitersLeft' = WaitersLeft - 1
  <2>1. /\ r \in Unsettled /\ Unsettled' = Unsettled \ {r}
        /\ UNCHANGED <<Unstarted, Unsent, Unreported, Unfinished>>
    BY <1>4
    DEF AwaitReturns, Goto, TypeOK, Unstarted, Unsettled, Unsent, Unreported,
        Unfinished
  <2>2. u' = u /\ a' = a - 1 /\ s' = s /\ p' = p /\ f' = f
    BY <2>1, LeftFinite, OneLess
  <2> HIDE DEF u, a, s, p, f
  <2> QED
    BY <1>1, <1>2, <2>2
<1>5. ASSUME SendResult(r)
      PROVE  \E k \in 2 .. 4 : WaitersLeft' = WaitersLeft - k
  <2>1. /\ r \in Unsent /\ Unsent' = Unsent \ {r}
        /\ Unreported' = Unreported \/ (r \in Unreported /\ Unreported' = Unreported \ {r})
        /\ UNCHANGED <<Unstarted, Unsettled, Unfinished>>
    BY <1>5
    DEF SendResult, Goto, AfterSend, TypeOK, Unstarted, Unsettled, Unsent,
        Unreported, Unfinished
  <2>2. u' = u /\ a' = a /\ s' = s - 1 /\ (p' = p \/ p' = p - 1) /\ f' = f
    BY <2>1, LeftFinite, OneLess
  <2> HIDE DEF u, a, s, p, f
  <2>3. WaitersLeft' = WaitersLeft - 2 \/ WaitersLeft' = WaitersLeft - 4
    BY <1>1, <1>2, <2>2
  <2> QED
    BY <2>3
<1>6. ASSUME ReportProgress(r) PROVE WaitersLeft' = WaitersLeft - 2
  <2>1. /\ r \in Unreported /\ Unreported' = Unreported \ {r}
        /\ UNCHANGED <<Unstarted, Unsettled, Unsent, Unfinished>>
    BY <1>6
    DEF ReportProgress, Goto, TypeOK, Unstarted, Unsettled, Unsent, Unreported,
        Unfinished
  <2>2. u' = u /\ a' = a /\ s' = s /\ p' = p - 1 /\ f' = f
    BY <2>1, LeftFinite, OneLess
  <2> HIDE DEF u, a, s, p, f
  <2> QED
    BY <1>1, <1>2, <2>2
<1>7. ASSUME WaiterDone(r) PROVE WaitersLeft' = WaitersLeft - 1
  <2>1. /\ r \in Unfinished /\ Unfinished' = Unfinished \ {r}
        /\ UNCHANGED <<Unstarted, Unsettled, Unsent, Unreported>>
    BY <1>7
    DEF WaiterDone, Goto, TypeOK, Unstarted, Unsettled, Unsent, Unreported,
        Unfinished
  <2>2. u' = u /\ a' = a /\ s' = s /\ p' = p /\ f' = f - 1
    BY <2>1, LeftFinite, OneLess
  <2> HIDE DEF u, a, s, p, f
  <2> QED
    BY <1>1, <1>2, <2>2
<1> QED
  BY <1>3, <1>4, <1>5, <1>6, <1>7

\* Every step takes something from the work left and adds less than it takes.
LEMMA LeftDecreases == IInv /\ IInv' /\ Next => Left' < Left \/ UNCHANGED vars
<1> SUFFICES ASSUME IInv, IInv', Next PROVE Left' < Left \/ UNCHANGED vars
  OBVIOUS
<1> DEFINE w == WaitersLeft
           m == Len(resultChannel)
           c == CallerLeft
           o == OnceLeft
<1>1. /\ w \in Nat /\ m \in Nat /\ completed \in Nat /\ c \in Nat /\ o \in Nat
      /\ w' \in Nat /\ m' \in Nat /\ completed' \in Nat /\ c' \in Nat /\ o' \in Nat
  <2>1. LeftTyped /\ LeftTyped'
    BY LeftNatural, PTL
  <2> QED
    BY <2>1 DEF LeftTyped
<1>2. /\ Left = w + m + completed + c + o
      /\ Left' = w' + m' + completed' + c' + o'
  BY DEF Left
<1>3. UNCHANGED waiter => w' = w
  BY DEF WaitersLeft, Unstarted, Unsettled, Unsent, Unreported, Unfinished
<1>4. UNCHANGED resultChannel => m' = m
  OBVIOUS
<1>5. UNCHANGED caller => c' = c
  BY DEF CallerLeft
<1>6. UNCHANGED <<resultClosed, crashed>> => o' = o
  BY DEF OnceLeft
<1> USE DEF IInv
<1>7. ASSUME NEW r \in Runs,
             StartWaiter(r) \/ StartFailed(r) \/ AwaitReturns(r) \/ WaiterDone(r)
      PROVE  Left' < Left
  <2>1. PICK k \in 1 .. 2 : w' = w - k
    BY <1>7, WaiterStepLeft
  <2>2. UNCHANGED <<resultChannel, completed, caller, resultClosed, crashed>>
    BY <1>7 DEF StartWaiter, StartFailed, AwaitReturns, WaiterDone
  <2>3. m' = m /\ completed' = completed /\ c' = c /\ o' = o
    BY <1>4, <1>5, <1>6, <2>2
  <2> HIDE DEF w, m, c, o
  <2> QED
    BY <1>1, <1>2, <2>1, <2>3
<1>8. ASSUME NEW r \in Runs, SendResult(r)
      PROVE  Left' < Left
  <2>1. PICK k \in 2 .. 4 : w' = w - k
    BY <1>8, WaiterStepLeft
  <2>2. UNCHANGED <<completed, caller, resultClosed, crashed>>
    BY <1>8 DEF SendResult
  <2>3. m' = m + 1 /\ completed' = completed /\ c' = c /\ o' = o
    BY <1>5, <1>6, <1>8, <2>2, AppendRange DEF SendResult, TypeOK
  <2> HIDE DEF w, m, c, o
  <2> QED
    BY <1>1, <1>2, <2>1, <2>3
<1>9. ASSUME NEW r \in Runs, ReportProgress(r)
      PROVE  Left' < Left
  <2>1. w' = w - 2
    BY <1>9, WaiterStepLeft
  <2>2. /\ UNCHANGED <<resultChannel, caller, resultClosed, crashed>>
        /\ completed' = completed + 1
    BY <1>9 DEF ReportProgress
  <2>3. m' = m /\ c' = c /\ o' = o
    BY <1>4, <1>5, <1>6, <2>2
  <2> HIDE DEF w, m, c, o
  <2> QED
    BY <1>1, <1>2, <2>1, <2>2, <2>3
<1>10. ASSUME NEW r \in Runs, ReportOnClosed(r), ~crashed
       PROVE  Left' < Left
  <2>1. /\ UNCHANGED <<waiter, resultChannel, completed, caller, resultClosed>>
        /\ crashed'
    BY <1>10 DEF ReportOnClosed
  <2>2. o' = o - 1
    BY <1>10, <2>1 DEF OnceLeft, TypeOK
  <2>3. w' = w /\ m' = m /\ completed' = completed /\ c' = c
    BY <1>3, <1>4, <1>5, <2>1
  <2> HIDE DEF w, m, c, o
  <2> QED
    BY <1>1, <1>2, <2>2, <2>3
<1>11. CASE EndOfRuns \/ CollectEnd \/ CloseProgress
  <2>1. UNCHANGED <<waiter, resultChannel, completed, resultClosed, crashed>>
    BY <1>11 DEF EndOfRuns, CollectEnd, CloseProgress
  <2>2. c' = c - 1
    BY <1>11 DEF EndOfRuns, CollectEnd, CloseProgress, Return, CallerLeft
  <2>3. w' = w /\ m' = m /\ completed' = completed /\ o' = o
    BY <1>3, <1>4, <1>6, <2>1
  <2> HIDE DEF w, m, c, o
  <2> QED
    BY <1>1, <1>2, <2>2, <2>3
<1>12. CASE Collect
  <2>1. UNCHANGED <<waiter, completed, resultClosed, crashed>>
    BY <1>12 DEF Collect
  <2>2. PICK k \in 0 .. 1 : c' = c - k
    BY <1>1, <1>5, <1>12 DEF Collect, Return, CallerLeft
  <2>3. m' = m - 1
    BY <1>12, TailRange DEF Collect, TypeOK
  <2>4. w' = w /\ completed' = completed /\ o' = o
    BY <1>3, <1>6, <2>1
  <2> HIDE DEF w, m, c, o
  <2> QED
    BY <1>1, <1>2, <2>2, <2>3, <2>4
<1>13. CASE CloseResults /\ ~crashed
  <2>1. /\ UNCHANGED <<waiter, resultChannel, completed, caller, crashed>>
        /\ ~resultClosed /\ resultClosed'
    BY <1>13 DEF CloseResults
  <2>2. o' = o - 1
    BY <1>13, <2>1 DEF OnceLeft, TypeOK
  <2>3. w' = w /\ m' = m /\ completed' = completed /\ c' = c
    BY <1>3, <1>4, <1>5, <2>1
  <2> HIDE DEF w, m, c, o
  <2> QED
    BY <1>1, <1>2, <2>2, <2>3
<1>14. CASE CountProgress
  <2>1. /\ UNCHANGED <<waiter, resultChannel, caller, resultClosed, crashed>>
        /\ completed' = completed - 1
    BY <1>14 DEF CountProgress
  <2>2. w' = w /\ m' = m /\ c' = c /\ o' = o
    BY <1>3, <1>4, <1>5, <1>6, <2>1
  <2> HIDE DEF w, m, c, o
  <2> QED
    BY <1>1, <1>2, <2>1, <2>2
<1> HIDE DEF w, m, c, o
<1> QED
  BY <1>7, <1>8, <1>9, <1>10, <1>11, <1>12, <1>13, <1>14
  DEF Next, Caller, Waiter, Terminated

\* No behaviour of the goroutines goes on for ever: every step but stuttering
\* lowers a natural number.
THEOREM WorkRunsOut == Spec => [](Left \in Nat) /\ Dwindles
<1>1. IInv /\ IInv' /\ [Next]_vars => [Left' < Left]_vars
  BY LeftDecreases
<1>2. IInv => Left \in Nat
  BY LeftNatural DEF LeftTyped
<1> QED
  BY <1>1, <1>2, InductiveInvariant, PTL DEF Spec, Dwindles

\* The foreign counter is exact once the reports of a successful call have
\* been received, and never too high.
THEOREM CounterIsExact == Spec => []CounterExact
<1>1. IInv => CounterExact
  <2> SUFFICES ASSUME IInv PROVE CounterExact
    OBVIOUS
  <2> USE DEF IInv
  <2>1. IsFiniteSet(Started) /\ Reported \in SUBSET Started
    <3>1. Started \in SUBSET Runs /\ Reported \in SUBSET Started
      BY DEF Reported, Started
    <3> QED
      BY <3>1, RunsAssumption, FS_Subset
  <2>2. /\ Cardinality(Reported) \in Nat
        /\ Cardinality(Started) \in Nat
        /\ Cardinality(Reported) <= Cardinality(Started)
    BY <2>1, FS_Subset, FS_CardinalityType
  <2>3. /\ counter \in Nat /\ completed \in Nat
        /\ progress = "none" => counter = 0
        /\ progress # "none" => counter + completed = Cardinality(Reported)
    BY CapacityAssumption DEF ProgressConserved, OnlyDrainedCounts, TypeOK
  <2>4. ASSUME answer = "ok" PROVE Reported = Started
    <3>1. \A r \in Runs : waiter[r] \in {"unstarted", "finished"}
      BY <2>4 DEF CallerPhase, ClosedAfterAllSent, Active
    <3>2. \A r \in Started : outcome[r] = "ok"
      BY <2>4, CompleteBySent DEF SuccessIsComplete
    <3> QED
      BY <3>1, <3>2 DEF Reported, Started
  <2> QED
    BY <2>2, <2>3, <2>4 DEF CounterExact
<1> QED
  BY <1>1, InductiveInvariant, PTL
===============================================================================
