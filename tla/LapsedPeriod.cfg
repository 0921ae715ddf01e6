\* The period ends between the check and the stamp.
CONSTANTS
    r1 = r1
    r2 = r2
    r3 = r3
    t1 = t1
    t2 = t2
    t3 = t3
    t4 = t4
    k1 = k1
    k2 = k2
    s1 = s1
    s2 = s2
    s3 = s3
    Requests = {r1, r2}
    Tenants = {t1}
    Keys = {k1, k2}
    Subscriptions = {s1}
    Plans = {"free", "pro"}
    Calls <- RivalCalls
    Owner <- OwnerT1
    Limit <- LimitTwo
    TenantTable <- ActiveTenants
    InitialRows <- OneRow
    StripeStatuses = {}
    Periods = {}
    PeriodLength = 2
    PoolSize = 3
    Backend = "postgresql"
    MaxClock = 2

SPECIFICATION Spec

INVARIANTS
    LapsedPeriodNeverMetered
