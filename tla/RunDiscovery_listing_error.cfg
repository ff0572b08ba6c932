CONSTANTS
  Runs = {r1, r2}
  r1 = r1
  r2 = r2
  TagNames = {"a", "b", "c"}
  Tags <- RepeatedTag
  LastTime = 1
  OnlyRecentRuns = {TRUE}
  Failures = {"transport"}
  NoTag = NoTag
  NoRun = NoRun

SPECIFICATION Spec
INVARIANT ListingErrorSurvives
