SPECIFICATION FairSpec
CONSTANTS
    src = src
    k1 = k1
    k2 = k2
    s1 = s1
    SourceNames = {src}
    SinkNames = {k1, k2}
    Secrets = {s1}
    NoSecret = NoSecret
    Credentials = {cred}
    NoAuth = NoAuth
    Specs <- MCSpecs
    NoConfig = NoConfig
    MaxPolicies = 2
    MaxEdits = 4
    MaxFaults = 1
INVARIANTS
    NoOrphan
    SettledMatches
PROPERTIES
    Converges
    DeletionCompletes
CHECK_DEADLOCK FALSE
