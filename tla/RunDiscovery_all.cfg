CONSTANTS
  Runs = {r1, r2}
  r1 = r1
  r2 = r2
  TagNames = {"a", "b", "c"}
  Tags <- RepeatedTag
  LastTime = 1
  OnlyRecentRuns = {TRUE, FALSE}
  Failures = {"transport", "badRequest"}
  NoTag = NoTag
  NoRun = NoRun

SPECIFICATION FairSpec
INVARIANT TypeOK
INVARIANT PlainComplete
INVARIANT LatestCovered
INVARIANT AllOrNothing
INVARIANT OnePerTag
PROPERTY IterationEnds
