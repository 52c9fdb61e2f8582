SPECIFICATION FairSpec
CONSTANTS
    Clusters = {c1, c2, bad}
    ValidNames = {c1, c2}
    Runs = {r1}
    ReadMayFail = FALSE
    CarefulOperator = TRUE
    Keys = {k1, k2, k3, k4, k5, k6}
    NoKey = NoKey
    MaxChanges = 4
    MaxAborts = 1
INVARIANTS
    PublishedKeyIsStored
PROPERTIES
    NoSilentDrop
    EnabledEventuallyAuthorized
    DisabledEventuallyRemoved
