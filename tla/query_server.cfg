SPECIFICATION FairSpec
CONSTANTS
    Requests = {r1}
    Paths <- MCPaths
    Callers <- MCCallers
    Projects = {"p1", "p2"}
    Values = {"a", "b"}
    Records <- MCRecords
    MaxRows = 2
    Forms <- MCForms
    Now = 5
    Hour = 2
    DefaultLimit = 1
    MaxLimit = 1
    MaxRange = 4
    QueryTimeout = 3
    maxPoints = 3
INVARIANTS
    RunsAsReviewed
    CallsAreBounded
    SuccessIsComplete
    FaultIsNamed
    StoreOutlivesCalls
    ShownIsMatched
PROPERTY Answered
