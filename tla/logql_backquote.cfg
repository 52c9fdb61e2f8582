SPECIFICATION Spec
CONSTANTS
    Labels <- MCLabels
    Values <- MCValues
    Lists <- MCLists
    Tokens <- MCBackquoteTokens
    MaxConditions = 0
    MaxTokens = 3
INVARIANTS
    BracesInQuotesAreIgnored
CHECK_DEADLOCK FALSE
