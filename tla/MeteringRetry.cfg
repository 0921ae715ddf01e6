\* Duplicates, rivals of the same tenant, and the same key used by others.
CONSTANTS
    r1 = r1
    r2 = r2
    r3 = r3
    t1 = t1
    t2 = t2
    t3 = t3
    t4 = t4
    k1 = k1
    k2 = k2
    s1 = s1
    s2 = s2
    s3 = s3
    Requests = {r1, r2, r3}
    Tenants = {t1, t2, t3, t4}
    Keys = {k1, k2}
    Subscriptions = {s1, s2, s3}
    Plans = {"free"}
    Calls <- RetryCalls
    Owner <- OwnerEach
    Limit <- LimitTwo
    TenantTable <- MixedTenants
    InitialRows <- EachRow
    StripeStatuses = {"past_due"}
    Periods = {}
    PeriodLength = 1
    PoolSize = 3
    Backend = "postgresql"
    MaxClock = 1

SPECIFICATION Spec
SYMMETRY AnyRequest

INVARIANTS
    TypeOK
    LedgerMatchesRecords
    OneAnswerPerKey
    ConflictNeverAnswered
    AtMostOneLateEvent
    NeverOversold
    AdmissionSound
    LockedRowIsCurrent

PROPERTIES
    ImplementsLedger
