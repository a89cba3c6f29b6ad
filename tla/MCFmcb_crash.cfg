SPECIFICATION Spec
CONSTANTS
  c1 = c1
  c2 = c2
  Cards <- TwoCards
  NFiles = 2
  NDirs = 1
  DirOf <- OneDirectory
  FaultKinds <- Hardware
  MaxFaults = 2
  Cnf = {1}
  Required = {1}
  VerifyModes = {"required", "enforced"}
  InitialContents = {"absent", "old"}
  InitialMarkers <- Clean
  SwapPoints = {"idle"}
  MaxTokens = 2
  MaxSeq = 8
INVARIANTS
  TypeOK
  Recoverable
  SaveKeepsNewest
  CommitMeansInstalled
  ReportedRestored
  DirectoriesKept
  PendingShown
PROPERTIES
  OnlyArmedCardWritten
CHECK_DEADLOCK FALSE
