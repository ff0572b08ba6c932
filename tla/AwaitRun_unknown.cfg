CONSTANTS
  Invocations <- UnevenTimeout
  DefaultInterval = 2
  NotFoundLimit = 7
  Nil = Nil

SPECIFICATION Spec
INVARIANT TimeoutHonoured
