CONSTANTS
    NumSlots = 2
    MaxTries = 2
    MaxPriority = 2
    HasBackup = TRUE
    DeviceMayFail = TRUE
    GoodImage <- Both
    OsKeepsTry = TRUE
    MaxInstalls = 1
    MaxTorn = 1
    MaxLost = 1
SPECIFICATION FairSpec
INVARIANTS NoExtraTries SelectionInv
PROPERTY RollsBack
