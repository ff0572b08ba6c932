CONSTANTS
  Methods = {"CreateRun", "CancelRun", "UpdateRunTag", "CompleteRequest", "CheckRequest", "GetMetadata", "GetBufferedRequest", "GetResult", "GetResults", "GetRunPayload", "GetRequestMetadata"}
  RetryMax = 10
  AlgorithmNames = {"algorithm", ""}
  RequestIds = {"id"}
  RequestTags = {"tag"}
  DryRuns = {"unset", "true"}

SPECIFICATION FairSpec
INVARIANT TypeOK
INVARIANT SuccessWasApplied
INVARIANT ExactUnlessLost
INVARIANT RightTarget
PROPERTY CallEnds
