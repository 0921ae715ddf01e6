\* Renewals, their predecessors and cancellations delivered while requests are metered.
CONSTANTS
    r1 = r1
    r2 = r2
    t1 = t1
    t2 = t2
    k1 = k1
    k2 = k2
    d1 = d1
    d2 = d2
    s1 = s1
    s2 = s2
    buy = buy
    renew = renew
    again = again
    invoice = invoice
    delete = delete
    delete2 = delete2
    Requests = {r1, r2}
    Tenants = {t1, t2}
    Stranger = Stranger
    Keys = {k1, k2}
    Subscriptions = {s1, s2}
    Plans = {"pro"}
    Calls <- TokenCalls
    Owner <- OwnerEach
    Limit <- LimitTwo
    TenantTable <- ActiveTenants
    InitialRows <- OneRow
    InitialPlanType <- OnePro
    EventIds = {buy, renew, again, invoice, delete, delete2}
    Events <- ServiceEvents
    Deliveries = {d1, d2}
    PeriodLength = 2
    PoolSize = 4
    MaxFailures = 0
    Skew = 0
    MaxClock = 2

SPECIFICATION Spec
SYMMETRY AnyActor

INVARIANTS
    TypeOK
    AdmissionSound
    TenantSerialised
    LockedRowIsCurrent
    NoPeriodOversold

PROPERTIES
    
    BilledAsSubscribed
    ImplementsMetering
