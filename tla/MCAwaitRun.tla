------------------------------- MODULE MCAwaitRun ------------------------------
(***************************************************************************)
(* AwaitRun for TLC: calls whose timeout is a multiple of the interval and *)
(* calls whose timeout is not, without a timeout, with the default         *)
(* interval, with an interval of zero, and GetRun.                         *)
(***************************************************************************)
EXTENDS AwaitRun

Await(interval, timeout) ==
  [caller |-> "AwaitRun", pollInterval |-> interval, waitTimeout |-> timeout]

Get(interval, timeout) ==
  [caller |-> "GetRun", pollInterval |-> interval, waitTimeout |-> timeout]

AllKinds ==
  {Await(2, 4), Await(2, 3), Await(Nil, Nil), Await(Nil, 0), Await(0, 3),
   Get(1, 3)}

UnevenTimeout == {Await(2, 3)}
===============================================================================
