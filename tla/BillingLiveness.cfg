\* Two calls and two deliveries share three connections and two rows.
CONSTANTS
    r1 = r1
    r2 = r2
    t1 = t1
    t2 = t2
    k1 = k1
    k2 = k2
    d1 = d1
    d2 = d2
    s1 = s1
    s2 = s2
    buy = buy
    renew = renew
    again = again
    invoice = invoice
    delete = delete
    delete2 = delete2
    Requests = {r1, r2}
    Tenants = {t1}
    Stranger = Stranger
    Keys = {k1, k2}
    Subscriptions = {s1, s2}
    Plans = {"pro"}
    Calls <- SameKeyCalls
    Owner <- OwnerT1
    Limit <- LimitTwo
    TenantTable <- ActiveTenants
    InitialRows <- TwoRows
    InitialPlanType <- ProTenants
    EventIds = {buy, renew, again, invoice, delete, delete2}
    Events <- CancelEvents
    Deliveries = {d1, d2}
    PeriodLength = 2
    PoolSize = 3
    MaxFailures = 1
    Skew = 0
    MaxClock = 0

SPECIFICATION FairSpec

PROPERTIES
    EveryCallEnds
    EveryEventProcessed
