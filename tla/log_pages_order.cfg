SPECIFICATION FairSpec
CONSTANTS
    Entries <- Lines
    Late <- LateLines
    Windows <- Asked
    Second = 4
    MaxLimit = 3
    TailSizes = {0, 2, 5}
INVARIANTS TypeOK SecondsInOrder StraysAreNear
CHECK_DEADLOCK FALSE
