SPECIFICATION Spec
CONSTANTS
    RecordUnits = 2
    BatchUnits = 4
    ImageUnits = 8
    Fds <- MCFds
    MaxFaults = 1
    MaxShorts = 1
    Builds <- MCBuilds
    RingLines = 3
    LogFaults = 1
    Kinds <- MCKinds
    MaxOps = 1
    MaxAsides = 1
    MaxFailures = 1
INVARIANT StreamTypeOK
INVARIANT WaitBetweenImages
INVARIANT ReadFaithful
INVARIANT FormatOnlyWithImage
INVARIANT NoSilentLoss
INVARIANT LogInOrder
PROPERTY StreamImplements
PROPERTY AsyncOwnsItsBuffer
PROPERTY LogAlone
PROPERTY OpEnds
CHECK_DEADLOCK FALSE
