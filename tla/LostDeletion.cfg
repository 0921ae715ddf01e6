\* A deletion that loaded its row before another update committed.
CONSTANTS
    d1 = d1
    d2 = d2
    d3 = d3
    t1 = t1
    t2 = t2
    s1 = s1
    s2 = s2
    buy = buy
    rebuy = rebuy
    late = late
    renew = renew
    resume = resume
    delete = delete
    delete2 = delete2
    extend = extend
    invoice = invoice
    Stranger = Stranger
    Deliveries = {d1, d2}
    Tenants = {t1, t2}
    Subscriptions = {s1, s2}
    EventIds = {buy, rebuy, late, renew, resume, delete, delete2, extend, invoice}
    Events <- ResumeEvents
    PeriodLength = 2
    Plans = {"free", "pro"}
    InitialRows <- UnpaidRow
    InitialPlanType <- OnePro
    MaxFailures = 0
    MaxClock = 0

SPECIFICATION FairSpec

PROPERTIES
    EventTakesEffect
