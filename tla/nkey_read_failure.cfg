SPECIFICATION Spec
CONSTANTS
    Clusters = {c1, c2}
    ValidNames = {c1, c2}
    Runs = {r1}
    ReadMayFail = TRUE
    CarefulOperator = TRUE
    Keys = {k1, k2, k3, k4, k5, k6}
    NoKey = NoKey
    MaxChanges = 4
    MaxAborts = 0
PROPERTY NoSilentDrop
