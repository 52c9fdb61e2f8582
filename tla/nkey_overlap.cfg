SPECIFICATION Spec
CONSTANTS
    Clusters = {c1, c2}
    ValidNames = {c1, c2}
    Runs = {r1, r2}
    ReadMayFail = TRUE
    CarefulOperator = FALSE
    Keys = {k1, k2, k3, k4, k5, k6}
    NoKey = NoKey
    MaxChanges = 3
    MaxAborts = 1
INVARIANTS
    PublishedIsMirrored
PROPERTIES
    SeedNeverRegenerated
