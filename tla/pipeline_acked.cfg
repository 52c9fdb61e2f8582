SPECIFICATION Spec
CONSTANTS
    x1 = x1
    x2 = x2
    x3 = x3
    tenantA = tenantA
    tenantB = tenantB
    Items = {x1, x2}
    Malformed = {bad}
    Tenants = {tenantA, tenantB}
    NoTenant = NoTenant
    DefaultSubject = DefaultSubject
    Subjects = {tenantA, tenantB, DefaultSubject}
    Batches <- Regular
    Modes = {"core", "jetstream"}
    Workers = {w1}
    NoBatch = NoBatch
    QueueSize = 1
    MaxFaults = 1
INVARIANT AckedIsInserted
CHECK_DEADLOCK FALSE
