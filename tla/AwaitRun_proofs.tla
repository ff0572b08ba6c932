---------------------------- MODULE AwaitRun_proofs ---------------------------
(***************************************************************************)
(* Proofs about AwaitRun, for any interval, timeout and 404 limit.         *)
(*                                                                         *)
(* What a poll has answered stays true enough: a run that was seen has     *)
(* been recorded, a run that was seen finished is still where it was, and  *)
(* as long as the run is not recorded all the time that was slept went     *)
(* into 404s.                                                              *)
(***************************************************************************)
EXTENDS AwaitRun, TLAPS

\* What is known of the run from the last answer.
SeenStage ==
  /\ response \in Stages => stage # "unrecorded"
  /\ response \in FinishedStages => stage = response

\* Until the run has been seen all the waiting is for it to be recorded.
NotFoundCounted ==
  WaitTimeout # Nil /\ (stage = "unrecorded" \/ response = "notFound") =>
    waitTime = invalidRequestResponseDuration

\* A result is what the last poll answered.
ResultSeen == outcome = "result" => response \in Stages /\ Ready

IInv ==
  /\ TypeOK
  /\ SeenStage
  /\ NotFoundCounted
  /\ ResultSeen
  /\ WaitBounded
  /\ GetRunDoesNotAwait

\* The durations that are added up and compared are integers, and GetRun
\* always gives an interval and a timeout.
LEMMA Parameters ==
  ASSUME call \in Invocations
  PROVE  /\ Interval \in Int
         /\ WaitTimeout # Nil => WaitTimeout \in Int
         /\ NotFoundLimit \in Int
         /\ call.caller \in {"AwaitRun", "GetRun"}
         /\ call.caller = "GetRun" => WaitTimeout # Nil
BY DurationAssumption, InvocationsAssumption
DEF Interval, PollInterval, WaitTimeout

\* Nothing has been polled and nothing slept.
LEMMA InitIInv == Init => IInv
<1> SUFFICES ASSUME Init PROVE IInv
  OBVIOUS
<1> USE DEF Init
<1>1. TypeOK
  <2>1. stage \in Stages \union {"unrecorded"}
    OBVIOUS
  <2>2. 0 \in Int
    OBVIOUS
  <2> QED
    BY <2>1, <2>2 DEF TypeOK
<1>2. SeenStage /\ NotFoundCounted /\ ResultSeen
  BY DEF SeenStage, NotFoundCounted, ResultSeen, Stages, FinishedStages,
         ActiveStages
<1>3. WaitBounded
  BY Parameters, DurationAssumption DEF WaitBounded
<1>4. GetRunDoesNotAwait
  BY DEF GetRunDoesNotAwait
<1> QED
  BY <1>1, <1>2, <1>3, <1>4 DEF IInv

\* Every step keeps the invariant.
LEMMA NextIInv == IInv /\ [Next]_vars => IInv'
<1> SUFFICES ASSUME IInv, [Next]_vars PROVE IInv'
  OBVIOUS
<1> USE DEF IInv, serverVars, timeVars
<1>a. call \in Invocations /\ call' = call
  BY DEF TypeOK, Next, Loop, Record, Advance, Cancel, Poll, RequestFailed,
         ResultReady, ResultTimedOut, ResultPending, NotFoundTooLong,
         NotFoundYet, Unauthorized, Unhandled, Wake, Terminated, Return,
         Sleep, vars
<1>b. /\ Interval' = Interval
      /\ WaitTimeout' = WaitTimeout
      /\ AwaitCompletion' = AwaitCompletion
  BY <1>a DEF Interval, PollInterval, WaitTimeout, AwaitCompletion
<1>c. /\ Interval \in Int
      /\ WaitTimeout # Nil => WaitTimeout \in Int
      /\ NotFoundLimit \in Int
      /\ call.caller \in {"AwaitRun", "GetRun"}
      /\ call.caller = "GetRun" => WaitTimeout # Nil
  BY <1>a, Parameters
<1> USE <1>a, <1>b, <1>c
<1>1. CASE Record
  <2>1. TypeOK'
    BY <1>1
    DEF Record, TypeOK,
        Responses, Failures, Stages, FinishedStages, ActiveStages, Errors
  <2>2. SeenStage' /\ ResultSeen'
    BY <1>1 DEF Record, SeenStage, ResultSeen, Ready, IsFinished, TypeOK,
        Responses, Failures, Stages, FinishedStages, ActiveStages, Errors
  <2>3. NotFoundCounted'
    BY <1>1
    DEF Record, NotFoundCounted, SeenStage, TypeOK,
        Responses, Failures, Stages, FinishedStages, ActiveStages, Errors
  <2>4. WaitBounded'
    BY <1>1 DEF Record, WaitBounded, NotFoundCounted, TypeOK
  <2>5. GetRunDoesNotAwait'
    BY <1>1 DEF Record, GetRunDoesNotAwait
  <2> QED
    BY <2>1, <2>2, <2>3, <2>4, <2>5
<1>2. CASE Advance
  <2>1. TypeOK'
    BY <1>2
    DEF Advance, TypeOK,
        Responses, Failures, Stages, FinishedStages, ActiveStages, Errors
  <2>2. SeenStage' /\ ResultSeen'
    BY <1>2 DEF Advance, SeenStage, ResultSeen, Ready, IsFinished, TypeOK,
        Responses, Failures, Stages, FinishedStages, ActiveStages, Errors
  <2>3. NotFoundCounted'
    BY <1>2
    DEF Advance, NotFoundCounted, SeenStage, TypeOK,
        Responses, Failures, Stages, FinishedStages, ActiveStages, Errors
  <2>4. WaitBounded'
    BY <1>2 DEF Advance, WaitBounded, NotFoundCounted, TypeOK
  <2>5. GetRunDoesNotAwait'
    BY <1>2 DEF Advance, GetRunDoesNotAwait
  <2> QED
    BY <2>1, <2>2, <2>3, <2>4, <2>5
<1>3. CASE Cancel
  <2>1. TypeOK'
    BY <1>3
    DEF Cancel, TypeOK,
        Responses, Failures, Stages, FinishedStages, ActiveStages, Errors
  <2>2. SeenStage' /\ ResultSeen'
    BY <1>3 DEF Cancel, SeenStage, ResultSeen, Ready, IsFinished, TypeOK,
        Responses, Failures, Stages, FinishedStages, ActiveStages, Errors
  <2>3. NotFoundCounted'
    BY <1>3
    DEF Cancel, NotFoundCounted, SeenStage, TypeOK,
        Responses, Failures, Stages, FinishedStages, ActiveStages, Errors
  <2>4. WaitBounded'
    BY <1>3 DEF Cancel, WaitBounded, NotFoundCounted, TypeOK
  <2>5. GetRunDoesNotAwait'
    BY <1>3 DEF Cancel, GetRunDoesNotAwait
  <2> QED
    BY <2>1, <2>2, <2>3, <2>4, <2>5
<1>4. CASE Poll
  <2>1. TypeOK'
    BY <1>4
    DEF Poll, Answers, TypeOK,
        Responses, Failures, Stages, FinishedStages, ActiveStages, Errors
  <2>2. SeenStage' /\ ResultSeen'
    BY <1>4
    DEF Poll, Answers, SeenStage, ResultSeen, Ready, IsFinished, TypeOK,
        Responses, Failures, Stages, FinishedStages, ActiveStages, Errors
  <2>3. NotFoundCounted'
    BY <1>4
    DEF Poll, Answers, NotFoundCounted, SeenStage, TypeOK,
        Responses, Failures, Stages, FinishedStages, ActiveStages, Errors
  <2>4. WaitBounded'
    BY <1>4 DEF Poll, Answers, WaitBounded, NotFoundCounted, TypeOK
  <2>5. GetRunDoesNotAwait'
    BY <1>4 DEF Poll, Answers, GetRunDoesNotAwait
  <2> QED
    BY <2>1, <2>2, <2>3, <2>4, <2>5
<1>5. CASE RequestFailed
  <2>1. TypeOK'
    BY <1>5
    DEF RequestFailed, Return, MapApiError, TypeOK,
        Responses, Failures, Stages, FinishedStages, ActiveStages, Errors
  <2>2. SeenStage' /\ ResultSeen'
    BY <1>5
    DEF RequestFailed, Return, MapApiError, SeenStage, ResultSeen,
        Ready, IsFinished, TypeOK,
        Responses, Failures, Stages, FinishedStages, ActiveStages, Errors
  <2>3. NotFoundCounted'
    BY <1>5
    DEF RequestFailed, Return, MapApiError, NotFoundCounted, SeenStage, TypeOK,
        Responses, Failures, Stages, FinishedStages, ActiveStages, Errors
  <2>4. WaitBounded'
    BY <1>5
    DEF RequestFailed, Return, MapApiError, WaitBounded,
        NotFoundCounted, TypeOK
  <2>5. GetRunDoesNotAwait'
    BY <1>5 DEF RequestFailed, Return, MapApiError, GetRunDoesNotAwait
  <2> QED
    BY <2>1, <2>2, <2>3, <2>4, <2>5
<1>6. CASE ResultReady
  <2>1. TypeOK'
    BY <1>6
    DEF ResultReady, Return, TypeOK, Ready, IsFinished, AwaitCompletion,
        TimedOut,
        Responses, Failures, Stages, FinishedStages, ActiveStages, Errors
  <2>2. SeenStage' /\ ResultSeen'
    BY <1>6
    DEF ResultReady, Return, SeenStage, ResultSeen, Ready, IsFinished,
        TypeOK,
        Responses, Failures, Stages, FinishedStages, ActiveStages, Errors
  <2>3. NotFoundCounted'
    BY <1>6
    DEF ResultReady, Return, NotFoundCounted, SeenStage, TypeOK, Ready,
        IsFinished, AwaitCompletion, TimedOut,
        Responses, Failures, Stages, FinishedStages, ActiveStages, Errors
  <2>4. WaitBounded'
    BY <1>6
    DEF ResultReady, Return, WaitBounded, NotFoundCounted, TypeOK,
        Ready, IsFinished, AwaitCompletion, TimedOut
  <2>5. GetRunDoesNotAwait'
    BY <1>6
    DEF ResultReady, Return, GetRunDoesNotAwait, Ready, IsFinished,
        AwaitCompletion, TimedOut
  <2> QED
    BY <2>1, <2>2, <2>3, <2>4, <2>5
<1>7. CASE ResultTimedOut
  <2>1. TypeOK'
    BY <1>7
    DEF ResultTimedOut, Return, TypeOK, Ready, IsFinished,
        AwaitCompletion, TimedOut,
        Responses, Failures, Stages, FinishedStages, ActiveStages, Errors
  <2>2. SeenStage' /\ ResultSeen'
    BY <1>7
    DEF ResultTimedOut, Return, SeenStage, ResultSeen, Ready,
        IsFinished, TypeOK,
        Responses, Failures, Stages, FinishedStages, ActiveStages, Errors
  <2>3. NotFoundCounted'
    BY <1>7
    DEF ResultTimedOut, Return, NotFoundCounted, SeenStage, TypeOK, Ready,
        IsFinished, AwaitCompletion, TimedOut,
        Responses, Failures, Stages, FinishedStages, ActiveStages, Errors
  <2>4. WaitBounded'
    BY <1>7
    DEF ResultTimedOut, Return, WaitBounded, NotFoundCounted, TypeOK,
        Ready, IsFinished, AwaitCompletion, TimedOut
  <2>5. GetRunDoesNotAwait'
    BY <1>7
    DEF ResultTimedOut, Return, GetRunDoesNotAwait, Ready, IsFinished,
        AwaitCompletion, TimedOut
  <2> QED
    BY <2>1, <2>2, <2>3, <2>4, <2>5
<1>8. CASE ResultPending
  <2>1. TypeOK'
    BY <1>8
    DEF ResultPending, Sleep, TypeOK, Ready, IsFinished, AwaitCompletion,
        TimedOut,
        Responses, Failures, Stages, FinishedStages, ActiveStages, Errors
  <2>2. SeenStage' /\ ResultSeen'
    BY <1>8
    DEF ResultPending, Sleep, SeenStage, ResultSeen, Ready, IsFinished,
        TypeOK,
        Responses, Failures, Stages, FinishedStages, ActiveStages, Errors
  <2>3. NotFoundCounted'
    BY <1>8
    DEF ResultPending, Sleep, NotFoundCounted, SeenStage, TypeOK, Ready,
        IsFinished, AwaitCompletion, TimedOut,
        Responses, Failures, Stages, FinishedStages, ActiveStages, Errors
  <2>4. WaitBounded'
    BY <1>8
    DEF ResultPending, Sleep, WaitBounded, NotFoundCounted, TypeOK,
        Ready, IsFinished, AwaitCompletion, TimedOut
  <2>5. GetRunDoesNotAwait'
    BY <1>8
    DEF ResultPending, Sleep, GetRunDoesNotAwait, Ready, IsFinished,
        AwaitCompletion, TimedOut
  <2> QED
    BY <2>1, <2>2, <2>3, <2>4, <2>5
<1>9. CASE NotFoundTooLong
  <2>1. TypeOK'
    BY <1>9
    DEF NotFoundTooLong, Return, TypeOK,
        Responses, Failures, Stages, FinishedStages, ActiveStages, Errors
  <2>2. SeenStage' /\ ResultSeen'
    BY <1>9
    DEF NotFoundTooLong, Return, SeenStage, ResultSeen, Ready,
        IsFinished, TypeOK,
        Responses, Failures, Stages, FinishedStages, ActiveStages, Errors
  <2>3. NotFoundCounted'
    BY <1>9
    DEF NotFoundTooLong, Return, NotFoundCounted, SeenStage, TypeOK,
        Responses, Failures, Stages, FinishedStages, ActiveStages, Errors
  <2>4. WaitBounded'
    BY <1>9 DEF NotFoundTooLong, Return, WaitBounded, NotFoundCounted, TypeOK
  <2>5. GetRunDoesNotAwait'
    BY <1>9 DEF NotFoundTooLong, Return, GetRunDoesNotAwait
  <2> QED
    BY <2>1, <2>2, <2>3, <2>4, <2>5
<1>10. CASE NotFoundYet
  <2>1. TypeOK'
    BY <1>10
    DEF NotFoundYet, Sleep, TypeOK,
        Responses, Failures, Stages, FinishedStages, ActiveStages, Errors
  <2>2. SeenStage' /\ ResultSeen'
    BY <1>10
    DEF NotFoundYet, Sleep, SeenStage, ResultSeen, Ready, IsFinished,
        TypeOK,
        Responses, Failures, Stages, FinishedStages, ActiveStages, Errors
  <2>3. NotFoundCounted'
    BY <1>10
    DEF NotFoundYet, Sleep, NotFoundCounted, SeenStage, TypeOK,
        Responses, Failures, Stages, FinishedStages, ActiveStages, Errors
  <2>4. WaitBounded'
    BY <1>10 DEF NotFoundYet, Sleep, WaitBounded, NotFoundCounted, TypeOK
  <2>5. GetRunDoesNotAwait'
    BY <1>10 DEF NotFoundYet, Sleep, GetRunDoesNotAwait
  <2> QED
    BY <2>1, <2>2, <2>3, <2>4, <2>5
<1>11. CASE Unauthorized
  <2>1. TypeOK'
    BY <1>11
    DEF Unauthorized, Return, TypeOK,
        Responses, Failures, Stages, FinishedStages, ActiveStages, Errors
  <2>2. SeenStage' /\ ResultSeen'
    BY <1>11
    DEF Unauthorized, Return, SeenStage, ResultSeen, Ready, IsFinished,
        TypeOK,
        Responses, Failures, Stages, FinishedStages, ActiveStages, Errors
  <2>3. NotFoundCounted'
    BY <1>11
    DEF Unauthorized, Return, NotFoundCounted, SeenStage, TypeOK,
        Responses, Failures, Stages, FinishedStages, ActiveStages, Errors
  <2>4. WaitBounded'
    BY <1>11 DEF Unauthorized, Return, WaitBounded, NotFoundCounted, TypeOK
  <2>5. GetRunDoesNotAwait'
    BY <1>11 DEF Unauthorized, Return, GetRunDoesNotAwait
  <2> QED
    BY <2>1, <2>2, <2>3, <2>4, <2>5
<1>12. CASE Unhandled
  <2>1. TypeOK'
    BY <1>12
    DEF Unhandled, Return, TypeOK,
        Responses, Failures, Stages, FinishedStages, ActiveStages, Errors
  <2>2. SeenStage' /\ ResultSeen'
    BY <1>12
    DEF Unhandled, Return, SeenStage, ResultSeen, Ready, IsFinished,
        TypeOK,
        Responses, Failures, Stages, FinishedStages, ActiveStages, Errors
  <2>3. NotFoundCounted'
    BY <1>12
    DEF Unhandled, Return, NotFoundCounted, SeenStage, TypeOK,
        Responses, Failures, Stages, FinishedStages, ActiveStages, Errors
  <2>4. WaitBounded'
    BY <1>12 DEF Unhandled, Return, WaitBounded, NotFoundCounted, TypeOK
  <2>5. GetRunDoesNotAwait'
    BY <1>12 DEF Unhandled, Return, GetRunDoesNotAwait
  <2> QED
    BY <2>1, <2>2, <2>3, <2>4, <2>5
<1>13. CASE Wake
  <2>1. TypeOK'
    BY <1>13
    DEF Wake, TypeOK,
        Responses, Failures, Stages, FinishedStages, ActiveStages, Errors
  <2>2. SeenStage' /\ ResultSeen'
    BY <1>13 DEF Wake, SeenStage, ResultSeen, Ready, IsFinished, TypeOK,
        Responses, Failures, Stages, FinishedStages, ActiveStages, Errors
  <2>3. NotFoundCounted'
    BY <1>13
    DEF Wake, NotFoundCounted, SeenStage, TypeOK,
        Responses, Failures, Stages, FinishedStages, ActiveStages, Errors
  <2>4. WaitBounded'
    BY <1>13 DEF Wake, WaitBounded, NotFoundCounted, TypeOK
  <2>5. GetRunDoesNotAwait'
    BY <1>13 DEF Wake, GetRunDoesNotAwait
  <2> QED
    BY <2>1, <2>2, <2>3, <2>4, <2>5
<1>14. CASE UNCHANGED vars
  BY <1>14
  DEF vars, TypeOK, SeenStage, NotFoundCounted, ResultSeen, Ready, WaitBounded,
      GetRunDoesNotAwait
<1> QED
  BY <1>1, <1>2, <1>3, <1>4, <1>5, <1>6, <1>7, <1>8, <1>9, <1>10, <1>11,
      <1>12, <1>13, <1>14
  DEF Next, Loop, Terminated

\* The strengthening is an invariant of the specification.
THEOREM InductiveInvariant == Spec => []IInv
<1> QED
  BY InitIInv, NextIInv, PTL DEF Spec

-------------------------------------------------------------------------------
(* What follows from it.                                                   *)

\* Every variable stays in its type, and the call has an outcome exactly when
\* it has returned.
THEOREM TypeCorrect == Spec => []TypeOK
<1>1. IInv => TypeOK
  BY DEF IInv
<1> QED
  BY <1>1, InductiveInvariant, PTL

\* The call never sleeps further past its timeout than one interval, or one
\* interval past the 404 limit if the run was not recorded all that time.
THEOREM WaitIsBounded == Spec => []WaitBounded
<1>1. IInv => WaitBounded
  BY DEF IInv
<1> QED
  BY <1>1, InductiveInvariant, PTL

\* A result awaited to completion is the run's final stage.
THEOREM AwaitedResultIsFinal == Spec => []ResultIsFinal
<1>1. IInv => ResultIsFinal
  BY DEF IInv, ResultIsFinal, ResultSeen, SeenStage, Ready, IsFinished
<1> QED
  BY <1>1, InductiveInvariant, PTL

\* GetRun only ever waits for the run to be recorded.
THEOREM GetRunOnlyWaitsForRecord == Spec => []GetRunDoesNotAwait
<1>1. IInv => GetRunDoesNotAwait
  BY DEF IInv
<1> QED
  BY <1>1, InductiveInvariant, PTL

-------------------------------------------------------------------------------
(* Nothing goes on for ever.                                               *)
(*                                                                         *)
(* That a call returns is a property of fair behaviours and stays with the *)
(* runs.  What it rests on is proved here: a number that every step of the *)
(* loop lowers and no step of its surroundings raises.                     *)

\* A wait that has its time, and a tolerance for 404s, still ahead of it.
Positive(n) == IF n > 0 THEN n ELSE 0
TimeLeft == Positive(WaitTimeout - waitTime)
NotFoundLeft == Positive(NotFoundLimit + 1 - invalidRequestResponseDuration)

\* The steps of a turn of the loop that are still to come.
TurnLeft ==
  IF loop = "sleeping" THEN 3
  ELSE IF loop = "polling" THEN 2
  ELSE IF loop = "received" THEN 1
  ELSE 0

Left == 3 * (TimeLeft + NotFoundLeft) + TurnLeft

\* With a timeout and a positive interval every step of the loop leaves less
\* to do, whatever the scheduler answers (scheduler.go:137-166): the timeout
\* or the 404 limit comes nearer with each sleep, though the 404 branch looks
\* only at its own limit and the other only at the timeout.
Dwindles ==
  [][WaitTimeout # Nil /\ Interval > 0 =>
       (loop' = loop /\ Left' = Left) \/ Left' < Left]_vars

\* Every answer the scheduler can give is one the loop goes on from.
AnswerKnown == loop = "received" => response \in Responses

\* The run has finished, or the caller has given up.
Settled == cancelled \/ stage \in FinishedStages

\* An answer the loop returns on at once, however long it has waited.
Conclusive(r) ==
  r \in Failures \union FinishedStages \union {"unauthorized", "unhandled"}

\* Once the run is settled: an answer from before it was may still send the
\* loop to sleep, the next request is the last.
SettledLeft ==
  IF loop = "received" /\ ~Conclusive(response) THEN 4
  ELSE IF loop = "sleeping" THEN 3
  ELSE IF loop = "polling" THEN 2
  ELSE IF loop = "received" THEN 1
  ELSE 0

\* From the moment the run has finished or the context is cancelled the call
\* makes at most one more sleep and one more request, with or without a
\* timeout and for any interval (scheduler.go:123-139).
LastRequest ==
  [][Settled =>
       /\ Settled'
       /\ \/ loop' = loop /\ SettledLeft' = SettledLeft
          \/ SettledLeft' < SettledLeft]_vars

\* A positive amount taken off a number that has not run out leaves less.
LEMMA Nearer ==
  ASSUME NEW n \in Int, NEW d \in Int, d > 0
  PROVE  /\ Positive(n) \in Nat
         /\ Positive(n - d) \in Nat
         /\ Positive(n - d) <= Positive(n)
         /\ n > 0 => Positive(n - d) < Positive(n)
BY DEF Positive

\* A round of the loop: what is left of it may grow by what one sleep adds, if
\* the time that is left has become shorter.
LEMMA Round ==
  ASSUME NEW t \in Nat, NEW n \in Nat, NEW t1 \in Nat, NEW n1 \in Nat,
         t1 <= t, n1 <= n, t1 < t \/ n1 < n
  PROVE  3 * (t1 + n1) + 3 < 3 * (t + n) + 1
OBVIOUS

\* The numbers of the measure.
LEMMA LeftNumbers ==
  ASSUME IInv, WaitTimeout # Nil
  PROVE  /\ WaitTimeout - waitTime \in Int
         /\ NotFoundLimit + 1 - invalidRequestResponseDuration \in Int
         /\ TimeLeft \in Nat /\ NotFoundLeft \in Nat
         /\ TurnLeft \in 0 .. 3
         /\ Left \in Nat
<1>1. /\ WaitTimeout \in Int /\ waitTime \in Int /\ NotFoundLimit \in Int
      /\ invalidRequestResponseDuration \in Int
  BY Parameters DEF IInv, TypeOK
<1>2. /\ WaitTimeout - waitTime \in Int
      /\ NotFoundLimit + 1 - invalidRequestResponseDuration \in Int
  BY <1>1
<1>3. TimeLeft \in Nat /\ NotFoundLeft \in Nat
  BY <1>2 DEF TimeLeft, NotFoundLeft, Positive
<1>4. TurnLeft \in 0 .. 3
  BY DEF TurnLeft
<1> QED
  BY <1>2, <1>3, <1>4 DEF Left

\* A sleep brings the timeout nearer by one interval, and after a 404 the
\* limit as well; one of the two had not run out.
LEMMA SleepLess ==
  ASSUME IInv, WaitTimeout # Nil, Interval > 0, ResultPending \/ NotFoundYet
  PROVE  Left' < Left
<1> USE DEF serverVars, timeVars
<1>1. call' = call /\ loop = "received" /\ loop' = "sleeping"
      /\ waitTime' = waitTime + Interval
  BY DEF ResultPending, NotFoundYet, Sleep
<1>2. WaitTimeout' = WaitTimeout /\ Interval' = Interval
  BY <1>1 DEF WaitTimeout, Interval, PollInterval
<1>3. /\ WaitTimeout \in Int /\ waitTime \in Int /\ NotFoundLimit \in Int
      /\ invalidRequestResponseDuration \in Int /\ Interval \in Int
  BY Parameters DEF IInv, TypeOK
<1> DEFINE a == WaitTimeout - waitTime
           b == NotFoundLimit + 1 - invalidRequestResponseDuration
<1>4. a \in Int /\ b \in Int
  BY <1>3
<1>5. TimeLeft = Positive(a) /\ NotFoundLeft = Positive(b)
  BY DEF TimeLeft, NotFoundLeft
<1>6. TimeLeft' = Positive(a - Interval)
  <2>1. WaitTimeout' - waitTime' = a - Interval
    BY <1>1, <1>2, <1>3
  <2> QED
    BY <2>1 DEF TimeLeft, Positive
<1>7. \/ NotFoundLeft' = Positive(b) /\ a > 0
      \/ NotFoundLeft' = Positive(b - Interval) /\ b > 0
  <2>1. CASE ResultPending
    <3>1. invalidRequestResponseDuration' = invalidRequestResponseDuration
      BY <2>1 DEF ResultPending
    <3>2. a > 0
      BY <1>3, <2>1 DEF ResultPending, TimedOut
    <3> QED
      BY <3>1, <3>2 DEF NotFoundLeft, Positive
  <2>2. CASE NotFoundYet
    <3>1. NotFoundLimit + 1 - invalidRequestResponseDuration' = b - Interval
      BY <1>3, <2>2 DEF NotFoundYet
    <3>2. b > 0
      BY <1>3, <2>2 DEF NotFoundYet
    <3> QED
      BY <3>1, <3>2 DEF NotFoundLeft, Positive
  <2> QED
    BY <2>1, <2>2
<1> HIDE DEF a, b
<1>8. /\ Positive(a) \in Nat /\ Positive(a - Interval) \in Nat
      /\ Positive(a - Interval) <= Positive(a)
      /\ a > 0 => Positive(a - Interval) < Positive(a)
      /\ Positive(b) \in Nat /\ Positive(b - Interval) \in Nat
      /\ Positive(b - Interval) <= Positive(b)
      /\ b > 0 => Positive(b - Interval) < Positive(b)
  BY <1>3, <1>4, Nearer
<1>9. PICK t \in Nat, t1 \in Nat, n \in Nat, n1 \in Nat :
        /\ TimeLeft = t /\ TimeLeft' = t1
        /\ NotFoundLeft = n /\ NotFoundLeft' = n1
        /\ t1 <= t /\ n1 <= n /\ (t1 < t \/ n1 < n)
  BY <1>5, <1>6, <1>7, <1>8
<1>10. TurnLeft = 1 /\ TurnLeft' = 3
  BY <1>1 DEF TurnLeft
<1>11. Left = 3 * (t + n) + 1 /\ Left' = 3 * (t1 + n1) + 3
  BY <1>9, <1>10 DEF Left
<1> QED
  BY <1>9, <1>11, Round

\* Every other step of the loop goes on to the next part of the turn, and the
\* surroundings change nothing that is counted.
LEMMA StepLess ==
  ASSUME IInv, [Next]_vars, WaitTimeout # Nil, Interval > 0
  PROVE  (loop' = loop /\ Left' = Left) \/ Left' < Left
<1> USE DEF serverVars, timeVars
<1>1. CASE ResultPending \/ NotFoundYet
  BY <1>1, SleepLess
<1>2. CASE Record \/ Advance \/ Cancel \/ UNCHANGED vars
  BY <1>2
  DEF Record, Advance, Cancel, vars, Left, TimeLeft, NotFoundLeft, TurnLeft,
      WaitTimeout, Positive
<1>3. ASSUME \/ Poll \/ RequestFailed \/ ResultReady \/ ResultTimedOut
             \/ NotFoundTooLong \/ Unauthorized \/ Unhandled \/ Wake
      PROVE  Left' < Left
  <2>1. UNCHANGED <<call, timeVars>>
    BY <1>3
    DEF Poll, RequestFailed, ResultReady, ResultTimedOut, NotFoundTooLong,
        Unauthorized, Unhandled, Wake, Return
  <2>2. TimeLeft' = TimeLeft /\ NotFoundLeft' = NotFoundLeft
    BY <2>1 DEF TimeLeft, NotFoundLeft, WaitTimeout, Positive
  <2>3. TurnLeft' = TurnLeft - 1
    BY <1>3
    DEF Poll, RequestFailed, ResultReady, ResultTimedOut, NotFoundTooLong,
        Unauthorized, Unhandled, Wake, Return, TurnLeft
  <2>4. PICK s \in Nat : 3 * (TimeLeft + NotFoundLeft) = s
    BY LeftNumbers
  <2>5. PICK k \in Nat : TurnLeft = k
    BY LeftNumbers
  <2>6. Left = s + k /\ Left' = s + (k - 1)
    BY <2>2, <2>3, <2>4, <2>5 DEF Left
  <2> QED
    BY <2>6
<1> QED
  BY <1>1, <1>2, <1>3 DEF Next, Loop, Terminated

\* A call with a timeout and a positive interval comes to its end: what is
\* left is a natural number that every step of the loop lowers, and the loop
\* goes on from every answer.
THEOREM WaitRunsOut ==
  Spec => [](WaitTimeout # Nil => Left \in Nat) /\ []AnswerKnown /\ Dwindles
<1>1. IInv => (WaitTimeout # Nil => Left \in Nat)
  BY LeftNumbers
<1>2. Init => AnswerKnown
  BY DEF Init, AnswerKnown
<1>3. IInv /\ AnswerKnown /\ [Next]_vars => AnswerKnown'
  <2> SUFFICES ASSUME IInv, AnswerKnown, [Next]_vars, loop' = "received"
               PROVE  response' \in Responses
    BY DEF AnswerKnown
  <2>1. CASE Poll
    BY <2>1 DEF Poll, Answers, IInv, TypeOK, Responses, Stages, Failures
  <2>2. CASE ~Poll
    <3>1. loop = "received" /\ response' = response
      BY <2>2
      DEF Next, Loop, Record, Advance, Cancel, RequestFailed, ResultReady,
          ResultTimedOut, ResultPending, NotFoundTooLong, NotFoundYet,
          Unauthorized, Unhandled, Wake, Terminated, Return, Sleep, vars
    <3> QED
      BY <3>1 DEF AnswerKnown
  <2> QED
    BY <2>1, <2>2
<1>4. IInv /\ [Next]_vars
        => [WaitTimeout # Nil /\ Interval > 0 =>
              (loop' = loop /\ Left' = Left) \/ Left' < Left]_vars
  BY StepLess
<1> QED
  BY <1>1, <1>2, <1>3, <1>4, InductiveInvariant, PTL DEF Spec, Dwindles

\* Once the run has finished, or the context is cancelled, it stays so, and the
\* call has at most one sleep and one request left.
THEOREM OneMoreRequest == Spec => LastRequest
<1> USE DEF serverVars, timeVars
<1>1. ASSUME IInv, [Next]_vars, Settled PROVE Settled'
  BY <1>1
  DEF Settled, Next, Loop, Record, Advance, Cancel, Poll, RequestFailed,
      ResultReady, ResultTimedOut, ResultPending, NotFoundTooLong, NotFoundYet,
      Unauthorized, Unhandled, Wake, Terminated, Return, Sleep, vars,
      FinishedStages
<1>2. ASSUME IInv, [Next]_vars, Settled
      PROVE  (loop' = loop /\ SettledLeft' = SettledLeft) \/ SettledLeft' < SettledLeft
  <2>1. CASE Record \/ Advance \/ Cancel \/ UNCHANGED vars
    <3>1. UNCHANGED <<loop, response>>
      BY <2>1 DEF Record, Advance, Cancel, vars
    <3> QED
      BY <3>1 DEF SettledLeft
  <2>2. CASE Poll
    <3>1. Conclusive(response')
      BY <1>2, <2>2
      DEF Poll, Answers, Settled, Conclusive, FinishedStages, Failures
    <3>2. SettledLeft = 2 /\ SettledLeft' = 1
      BY <2>2, <3>1 DEF Poll, SettledLeft
    <3> QED
      BY <3>2
  <2>3. CASE ResultPending \/ NotFoundYet
    <3>1. ~Conclusive(response)
      BY <2>3
      DEF ResultPending, NotFoundYet, Ready, IsFinished, Conclusive, Stages,
          FinishedStages, ActiveStages, Failures
    <3>2. loop = "received" /\ loop' = "sleeping"
      BY <2>3 DEF ResultPending, NotFoundYet, Sleep
    <3>3. SettledLeft = 4 /\ SettledLeft' = 3
      BY <3>1, <3>2 DEF SettledLeft
    <3> QED
      BY <3>3
  <2>4. CASE Wake
    <3>1. SettledLeft = 3 /\ SettledLeft' = 2
      BY <2>4 DEF Wake, SettledLeft
    <3> QED
      BY <3>1
  <2>5. CASE \/ RequestFailed \/ ResultReady \/ ResultTimedOut
             \/ NotFoundTooLong \/ Unauthorized \/ Unhandled
    <3>1. loop = "received" /\ loop' = "returned"
      BY <2>5
      DEF RequestFailed, ResultReady, ResultTimedOut, NotFoundTooLong,
          Unauthorized, Unhandled, Return
    <3>2. (SettledLeft = 4 \/ SettledLeft = 1) /\ SettledLeft' = 0
      BY <3>1 DEF SettledLeft
    <3> QED
      BY <3>2
  <2> QED
    BY <1>2, <2>1, <2>2, <2>3, <2>4, <2>5 DEF Next, Loop, Terminated
<1>3. IInv /\ [Next]_vars
        => [Settled =>
              /\ Settled'
              /\ \/ loop' = loop /\ SettledLeft' = SettledLeft
                 \/ SettledLeft' < SettledLeft]_vars
  BY <1>1, <1>2
<1> QED
  BY <1>3, InductiveInvariant, PTL DEF Spec, LastRequest
===============================================================================
