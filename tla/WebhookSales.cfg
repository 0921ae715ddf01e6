\* Sales and cancellations delivered together, twice, with a crash.
CONSTANTS
    d1 = d1
    d2 = d2
    d3 = d3
    t1 = t1
    t2 = t2
    s1 = s1
    s2 = s2
    buy = buy
    rebuy = rebuy
    late = late
    renew = renew
    resume = resume
    delete = delete
    delete2 = delete2
    extend = extend
    invoice = invoice
    Stranger = Stranger
    Deliveries = {d1, d2, d3}
    Tenants = {t1, t2}
    Subscriptions = {s1, s2}
    EventIds = {buy, rebuy, late, renew, resume, delete, delete2, extend, invoice}
    Events <- SalesEvents
    PeriodLength = 2
    Plans = {"free", "pro"}
    InitialRows <- ProRow
    InitialPlanType <- OnePro
    MaxFailures = 1
    MaxClock = 1

SPECIFICATION Spec
SYMMETRY AnyDelivery

INVARIANTS
    TypeOK
    EveryCheckoutHasItsRow
    ProTenantHasProRow
    AcknowledgedIsDurable

PROPERTIES
    ImplementsFeed
