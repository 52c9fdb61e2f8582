SPECIFICATION FairFollowSpec
CONSTANTS
    Entries <- Burst
    Second = 1
    MaxLimit = 2
    BacklogSizes <- Sizes
    FollowOverlap = 2
    followEndSlack = 1
    followMinInterval = 1
    followBackoffStep = 1
    followMaxInterval = 2
    followErrorInterval = 3
    ClockSkew = 1
    MaxTime = 5
    MaxFailures = 0
    MaxTokens = 1

PROPERTY NotForeverBusy
CHECK_DEADLOCK FALSE
