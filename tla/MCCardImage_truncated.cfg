SPECIFICATION Spec
CONSTANTS
  Sizes <- MCSizes
  Batch = 2
  Builds <- MCBuilds
  Other <- MCOther
  Names <- MCNames
  WriteBatch = 2
  BlockPages = 2
  MaxSessions = 2
  SwapPoints <- MCSwap
  FaultKinds <- MCCard
  MaxFaults = 2
  InitialCards <- MCTopFormat
  InitialImages <- MCNoImages
PROPERTY
  FormatKeepsWholeCard
