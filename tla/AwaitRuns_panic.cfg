CONSTANTS
  Runs = {r1, r2}
  r1 = r1
  r2 = r2
  ResultCapacity = 2
  ProgressCapacity = 1
  ProgressUses = {"drained"}

SPECIFICATION Spec
INVARIANT NeverPanics
CHECK_DEADLOCK FALSE
