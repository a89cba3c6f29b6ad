SPECIFICATION Spec
CONSTANTS
  c1 = c1
  c2 = c2
  Cards <- OneCard
  NFiles = 2
  NDirs = 1
  DirOf <- OneDirectory
  FaultKinds <- PowerOnly
  MaxFaults = 2
  Cnf = {}
  Required = {1}
  VerifyModes = {"enforced"}
  InitialContents = {"absent", "empty", "old"}
  InitialMarkers <- Clean
  SwapPoints = {}
  MaxTokens = 1
  MaxSeq = 9
INVARIANT
  RecoveryIsIdempotent
CHECK_DEADLOCK FALSE
