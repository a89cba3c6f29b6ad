SPECIFICATION RecoveringUser
CONSTANTS
  c1 = c1
  c2 = c2
  Cards <- OneCard
  NFiles = 2
  NDirs = 1
  DirOf <- OneDirectory
  FaultKinds <- Hardware
  MaxFaults = 2
  Cnf = {}
  Required = {1}
  VerifyModes = {"enforced"}
  InitialContents = {"absent", "empty", "old"}
  InitialMarkers <- Clean
  SwapPoints = {}
  MaxTokens = 2
  MaxSeq = 9
PROPERTIES
  InstallIsAtomic
  RecoveryCompletes
CHECK_DEADLOCK FALSE
