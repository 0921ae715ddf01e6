\* A signup, readers of two tenants, usage and webhooks.
CONSTANTS
    t1 = t1
    t2 = t2
    g1 = g1
    s0 = s0
    s1 = s1
    s2 = s2
    buy = buy
    renew = renew
    delete = delete
    Stranger = Stranger
    Tenants = {t1, t2}
    Subscriptions = {s0, s1, s2}
    EventIds = {buy, renew, delete}
    Events <- StripeFeed
    PeriodLength = 1
    Signups = {t1}
    Readers = {g1}
    FirstRow <- FirstRows
    Plans = {"pro"}
    Limit <- LimitTwo
    InitialRows <- ProRow
    InitialPlanType <- PlanOf
    Quantities = {2}
    MaxUsage = 2
    MaxClock = 1

SPECIFICATION Spec

INVARIANTS
    TypeOK
    NewTenantIsWhole
    CreatedIsFound
    StatusIsRecent

PROPERTIES
    StatusBindsEnforcement
