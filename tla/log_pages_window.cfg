SPECIFICATION FairSpec
CONSTANTS
    Entries <- Lines
    Late = {}
    Windows <- Asked
    Second = 4
    MaxLimit = 2
    TailSizes = {4}
INVARIANT OnlyTheWindow
CHECK_DEADLOCK FALSE
