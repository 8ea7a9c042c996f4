CONSTANTS
    None = None
    Assets <- MCAssets
    Order <- MCOrder
    Pinned = {"schedule"}
    Tagged = {"schedule"}
    Ranged = {"schedule"}
    Versions <- MCVersions
    Size <- MCSize
    MaxSize <- MCMaxSize
    SaveEvery = 3
    Elsewhere <- MCElsewhere
    MaxChanges = 2
    MaxFaults = 2
    MaxCancels = 1
    MaxCrashes = 2
SPECIFICATION FairSpec
INVARIANTS
    PinnedIsExact
    ReceiptNamesItsSources
    SplicesNeedALostTag
PROPERTY
    RetriesComplete
CHECK_DEADLOCK FALSE
