SPECIFICATION Spec
CONSTANTS
    src = src
    k1 = k1
    k2 = k2
    s1 = s1
    SourceNames = {src}
    SinkNames = {k1, k2}
    Secrets = {s1}
    NoSecret = NoSecret
    Credentials = {cred}
    NoAuth = NoAuth
    Specs <- MCReadySpecs
    NoConfig = NoConfig
    MaxPolicies = 1
    MaxEdits = 3
    MaxFaults = 0
INVARIANT
    ReadyIsConfigured
CHECK_DEADLOCK FALSE
