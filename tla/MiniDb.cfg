SPECIFICATION FairSpec

CONSTANTS
    Keys = {"k1", "k2"}
    Ops = {1, 3, 4}
    KeysOf <- MCKeysOf
    Deletes <- MCDeletes
    Serialized = TRUE
    FsyncAlways = TRUE
    MaxFaults = 2
    MaxThrows = 1
    MaxCompactions = 1
    MaxCrashes = 1

INVARIANTS
    AckedSurvives
    StoreMatchesFiles

PROPERTIES
    EveryWriteSettles
