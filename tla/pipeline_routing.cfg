SPECIFICATION Spec
CONSTANTS
    x1 = x1
    x2 = x2
    x3 = x3
    tenantA = tenantA
    tenantB = tenantB
    Items = {x1, x2, x3}
    Malformed = {bad}
    Tenants = {tenantA, tenantB}
    NoTenant = NoTenant
    DefaultSubject = DefaultSubject
    Subjects = {tenantA, tenantB, DefaultSubject}
    Batches <- Sparse
    Modes = {"core", "jetstream"}
    Workers = {w1}
    NoBatch = NoBatch
    QueueSize = 1
    MaxFaults = 0
INVARIANT RoutedByItsResource
CHECK_DEADLOCK FALSE
