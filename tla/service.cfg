SPECIFICATION Spec
CONSTANTS
    c1 = c1
    c2 = c2
    c3 = c3
    c4 = c4
    c5 = c5
    Callers = {c1, c2, c3, c4, c5}
    Tenants = {"metered", "free"}
    Limited = {"metered"}
    TenantOf <- MCTenantOf
    Quota <- MCQuota
    Asks <- MCAsks
    LimitArg = 2
    Minute = 2
    LastTime = 3
    Scenarios <- MCScenarios
    ChannelSize = 0
    Depth = 2
INVARIANTS TypeOK RequestsBounded AmountsBounded EventsTold SchemasEnforced
PROPERTIES CallersServed
CHECK_DEADLOCK FALSE
