CONSTANTS
  Runs = {r1, r2, r3, r4}
  r1 = r1
  r2 = r2
  r3 = r3
  r4 = r4
  ResultCapacity = 2
  ProgressCapacity = 1
  ProgressUses = {"none"}

SPECIFICATION FairSpec
PROPERTY CleanShutdown
CHECK_DEADLOCK FALSE
