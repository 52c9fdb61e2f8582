SPECIFICATION FairSpec
CONSTANTS
    Entries <- Lines
    Late <- LateLines
    Windows <- Asked
    Second = 4
    MaxLimit = 3
    TailSizes = {0, 2, 5}
INVARIANTS NoRepeat NothingSkipped RefusedAtWideEdgeOnly
PROPERTY Terminates
CHECK_DEADLOCK FALSE
