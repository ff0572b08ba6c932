CONSTANTS
  Invocations <- AllKinds
  DefaultInterval = 2
  NotFoundLimit = 7
  Nil = Nil

SPECIFICATION FairSpec
INVARIANT TypeOK
INVARIANT WaitBounded
INVARIANT ResultIsFinal
INVARIANT GetRunDoesNotAwait
PROPERTY Terminates
PROPERTY FinishedRunIsReturned
PROPERTY CancelledReturns
