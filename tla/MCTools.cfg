SPECIFICATION Spec
CONSTANTS
    Cards <- MCCards
    NoCard = "empty"
    FirstCard <- MCFirstCard
    Capacity <- MCCapacity
    MaxFaults = 2
    ImageSaves <- MCImageSaves
    ImageDir <- MCImageDir
    ImageData <- MCImageData
    CreatedMax = 4
    MaxDepth = 12
    PsuNames <- MCPsuNames
    FirstPsu <- MCFirstPsu
    Settings <- MCSettings
    Defaults = "default"
    Absent = "absent"
    Torn = "torn"
    Mixed = "mixed"
    Kelfs <- MCKelfs
    Targets <- MCTargets
    Raws <- MCRaws
    RawSize <- MCRawSize
    MaxRewrites = 1
    WaitPoints <- MCWaitPoints
    Plans <- MCPlans
    FirstPackages <- MCFirstPackages
    MaxCuts = 1
INVARIANT ToolsTypeOK
INVARIANT RolledBackMeansAsBefore
INVARIANT PassMeansCopied
INVARIANT ExportKeepsFiles
INVARIANT ExportedEqualsCard
INVARIANT ConfigWhole
INVARIANT SettingsSurvive
INVARIANT BoundFromPackage
PROPERTY SavesKept
PROPERTY MissMeansRewritten
PROPERTY ToolEnds
CHECK_DEADLOCK FALSE
