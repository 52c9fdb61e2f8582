SPECIFICATION FairFollowSpec
CONSTANTS
    Entries <- Spread
    Second = 1
    MaxLimit = 3
    BacklogSizes <- Sizes
    FollowOverlap = 2
    followEndSlack = 1
    followMinInterval = 1
    followBackoffStep = 1
    followMaxInterval = 2
    followErrorInterval = 3
    ClockSkew = 1
    MaxTime = 5
    MaxFailures = 1
    MaxTokens = 2
INVARIANTS PrintedOnce TimelyStaysInReach
PROPERTIES SignedOutOnlyWhenStale TimelyArePrinted NotForeverBusy
CHECK_DEADLOCK FALSE
