SPECIFICATION FairMigrateSpec
CONSTANTS
    Jobs = {j1, j2}
    Latest = 3
    Statements <- MCStatements
    BackoffLimit = 2
    MaxFailures = 2
    MaxRepairs = 1
INVARIANTS
    VersionIsApplied
    SuccessMeansMigrated
PROPERTIES
    LeftAlone
    JobsEndMigrated
CHECK_DEADLOCK FALSE
