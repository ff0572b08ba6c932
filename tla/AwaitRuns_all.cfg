CONSTANTS
  Runs = {r1, r2, r3}
  r1 = r1
  r2 = r2
  r3 = r3
  ResultCapacity = 2
  ProgressCapacity = 1
  ProgressUses = {"none", "drained", "unread"}

SPECIFICATION FairSpec
INVARIANT TypeOK
INVARIANT WaitGroupExact
INVARIANT ClosedAfterAllSent
INVARIANT SuccessIsComplete
INVARIANT PanicOnlyAfterFailure
INVARIANT ProgressConserved
INVARIANT UnreadProgressBound
PROPERTY PromiseKept
PROPERTY CallReturns
PROPERTY ProgressEventuallyExact
PROPERTY ShutdownWithinCapacity
CHECK_DEADLOCK FALSE
