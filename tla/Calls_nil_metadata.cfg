CONSTANTS
  Methods = {"GetRequestMetadata", "GetRunPayload"}
  RetryMax = 10
  AlgorithmNames = {"algorithm"}
  RequestIds = {"id"}
  RequestTags = {"tag"}
  DryRuns = {"unset"}

SPECIFICATION Spec
INVARIANT MetadataNotNil
