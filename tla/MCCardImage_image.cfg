SPECIFICATION FairSpec
CONSTANTS
  Sizes <- MCSizes
  Batch = 2
  Builds <- MCBuilds
  Other <- MCOther
  Names <- MCNames
  WriteBatch = 2
  BlockPages = 2
  MaxSessions = 2
  SwapPoints <- MCSwap
  FaultKinds <- MCFaults
  MaxFaults = 2
  InitialCards <- MCCards
  InitialImages <- MCImages
INVARIANTS
  TypeOK
  CacheFresh
  PrefetchOwnsItsBuffer
  ExportFaithful
  RestoreInOrder
  OthersKept
  RestoreVerifiedPastProbe
PROPERTIES
  FormatKeepsBackup
  OperationEnds
