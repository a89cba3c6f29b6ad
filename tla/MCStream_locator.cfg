SPECIFICATION Spec
CONSTANTS
    RecordUnits = 2
    BatchUnits = 4
    ImageUnits = 8
    Fds <- MCFds
    MaxFaults = 0
    MaxShorts = 0
    Builds <- MCSyncBuild
    RingLines = 3
    LogFaults = 0
    Kinds <- MCScan
    MaxOps = 1
    MaxAsides = 0
    MaxFailures = 1
INVARIANT LocatorNamesTheRecord
CHECK_DEADLOCK FALSE
