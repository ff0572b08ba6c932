SPECIFICATION Spec
CONSTANTS
  Order <- InSomeOrder
  Encoded <- Encode
  Decoded <- Decode
  Asks <- MCAsks
  Types <- MCTypes
  Depth <- MCDepth
  Values <- MCValues
  Samples <- MCSamples
  Changed <- ChangedSomewhere
  KnownModes <- KnownModesOnly
INVARIANTS
  RoundTrip
  NewerServiceUnderstood
  NothingHalfRead
  OnlyKnownModes
  WhatIsAskedIsRecorded
