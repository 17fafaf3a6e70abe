SPECIFICATION Spec
CONSTANTS
    MaxText = 6
    MaxUri = 4
    MaxEdits = 2
    MaxTable = 3
    MaxBody = 3
CHECK_DEADLOCK FALSE
INVARIANTS
    KeyColumnsAreNames
    HintIsClosest
    DispatchFollowsRoutes
    IniReadsFile
    AcceptedConfigurationIsSound
    AcceptedPullTransfersKeys
    FeaturesAreKept
    RequestKeepsRestrictions
