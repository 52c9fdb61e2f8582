SPECIFICATION Spec
CONSTANTS
    Labels <- MCLabels
    Values <- MCValues
    Lists <- MCLists
    Tokens <- MCTokens
    MaxConditions = 2
    MaxTokens = 7
INVARIANTS
    AskedIsMatched
    HintsAreRequired
CHECK_DEADLOCK FALSE
