SPECIFICATION FairSpec
CONSTANTS
    r1 = r1
    r2 = r2
    r3 = r3
    t1 = t1
    t2 = t2
    Requests = {r1, r2, r3}
    Tenants = {t1, t2}
    Provisioned = {t1, t2}
    Public = Public
    NoTenant = NoTenant
    NoRequest = NoRequest
    TenantOf <- MCTenantOf
    Unresolved = {r3}
    OpsOf <- MCOpsOf
    MaxConns = 4
    MaxArrivals = 3
INVARIANTS
    RequestsAtHome
PROPERTIES
    ScopePromise
    RequestsEnd
CHECK_DEADLOCK FALSE
