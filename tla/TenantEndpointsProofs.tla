------------------------- MODULE TenantEndpointsProofs -------------------------
(***************************************************************************)
(* For any number of signups, readers, tenants, webhooks and usage events:  *)
(* a tenant never comes without its subscription, a client finds the tenant *)
(* it was told of, and what a status shows is what the enforcer counts.     *)
(***************************************************************************)
EXTENDS TenantEndpoints, UsageUnitsProofs

-----------------------------------------------------------------------------
(* Types.                                                                  *)

\* An announced row is a row, with the identity of the old one.
LEMMA AnnouncedType ==
    ASSUME NEW e \in Event, NEW row \in SubscriptionRow
    PROVE  /\ Announced(e, row).status \in SubscriptionStatus
           /\ Announced(e, row).start \in Nat
           /\ Announced(e, row).end \in Nat
<1>1. StatusFor(e.status, row.status) \in SubscriptionStatus
  BY DEF Event, SubscriptionRow, StatusFor, StripeStatus, SubscriptionStatus,
         ACTIVE_STRIPE_STATUSES, TERMINAL_STRIPE_STATUSES
<1>2. DateFor(e.start, row.start) \in Nat /\ DateFor(e.end, row.end) \in Nat
  BY DEF DateFor, Event, SubscriptionRow
<1> QED BY <1>1, <1>2 DEF Announced, SubscriptionRow, SubscriptionStatus

\* A webhook leaves the rows alone, adds a row of its customer, or changes one
\* row that its event names.
Changes(e) ==
    \/ UNCHANGED subscriptions
    \/ \E new \in SubscriptionRow :
         /\ subscriptions' = subscriptions \cup {new}
         /\ new.id = e.subscription
         /\ new.tenant \in tenants
         /\ new.plan = "pro"
         /\ \A row \in subscriptions : row.id # new.id
    \/ \E row \in subscriptions, new \in SubscriptionRow :
         /\ subscriptions' = (subscriptions \ {row}) \cup {new}
         /\ row.id = e.subscription
         /\ new.id = row.id /\ new.tenant = row.tenant /\ new.plan = row.plan

\* BillingFeed has the vocabulary of StripeEvents.
LEMMA SameVocabulary ==
    ASSUME NEW e
    PROVE  /\ Feed!Checkout = Checkout /\ Feed!Updated = Updated
           /\ Feed!Deleted = Deleted
           /\ Feed!PlanTypeAfter(e) = PlanTypeAfter(e)
           /\ \A now : Feed!Bought(e, now) = Bought(e, now)
           /\ \A row : Feed!Announced(e, row) = Announced(e, row)
<1>1. /\ Feed!Checkout = Checkout /\ Feed!Updated = Updated
      /\ Feed!Deleted = Deleted
  BY DEF Feed!Checkout, Checkout, Feed!Updated, Updated, Feed!Deleted, Deleted
<1>2. Feed!PlanTypeAfter(e) = PlanTypeAfter(e)
  BY <1>1 DEF Feed!PlanTypeAfter, PlanTypeAfter
<1>3. ASSUME NEW now PROVE Feed!Bought(e, now) = Bought(e, now)
  BY DEF Feed!Bought, Bought
<1>4. ASSUME NEW row PROVE Feed!Announced(e, row) = Announced(e, row)
  <2>1. ASSUME NEW s, NEW current
        PROVE  Feed!StatusFor(s, current) = StatusFor(s, current)
    BY DEF Feed!StatusFor, StatusFor, Feed!ACTIVE_STRIPE_STATUSES,
           ACTIVE_STRIPE_STATUSES, Feed!TERMINAL_STRIPE_STATUSES,
           TERMINAL_STRIPE_STATUSES
  <2>2. ASSUME NEW date, NEW current
        PROVE  Feed!DateFor(date, current) = DateFor(date, current)
    BY DEF Feed!DateFor, DateFor, Feed!Absent, Absent
  <2> QED BY <1>1, <2>1, <2>2 DEF Feed!Announced, Announced
<1> QED BY <1>1, <1>2, <1>3, <1>4

LEMMA WebhookChanges ==
    ASSUME TypeOK, NEW e \in Events, Webhook(e)
    PROVE  Changes(e) /\ plan_type' \in [Tenants -> PlanTypes]
<1>1. e \in Event
  BY EventsAssumption
<1>2. PlanTypeAfter(e) \in PlanTypes
  BY DEF PlanTypeAfter, PlanTypes
<1>3. CASE Feed!Acknowledge(e)
  BY <1>3 DEF Feed!Acknowledge, Changes, TypeOK
<1>4. CASE Feed!Open(e)
  <2>1. PICK now \in 0 .. MaxClock :
          subscriptions' = subscriptions \cup {Bought(e, now)}
    BY <1>4, SameVocabulary DEF Feed!Open
  <2> DEFINE new == Bought(e, now)
  <2>2. /\ e.type = Checkout
        /\ e.customer \in Tenants
        /\ \A row \in subscriptions : row.id # e.subscription
        /\ Feed!MaySetPlanType(e.customer, e)
    BY <1>4, SameVocabulary DEF Feed!Open
  <2>3. /\ new \in SubscriptionRow
        /\ new.id = e.subscription /\ new.tenant = e.customer /\ new.plan = "pro"
    BY <1>1, <2>2, EventsAssumption, TenantEndpointsAssumption
       DEF Bought, Event, SubscriptionRow, SubscriptionStatus, PlanTypes
  <2>4. new \in subscriptions' /\ new \notin subscriptions
    BY <2>1, <2>2, <2>3
  <2>5. new.tenant \in tenants
    BY <2>2, <2>3, <2>4 DEF Webhook
  <2> HIDE DEF new
  <2>6. Changes(e)
    BY <2>1, <2>2, <2>3, <2>5 DEF Changes, new
  <2> QED BY <1>2, <2>2, <2>6, SameVocabulary DEF Feed!MaySetPlanType, TypeOK
<1>5. CASE Feed!Change(e)
  <2>0. PICK row \in subscriptions :
          /\ row.id = e.subscription
          /\ \E status \in {row.status, Feed!Announced(e, row).status},
                start \in {row.start, Feed!Announced(e, row).start},
                end \in {row.end, Feed!Announced(e, row).end} :
               subscriptions' = (subscriptions \ {row}) \cup
                 {[row EXCEPT !.status = status, !.start = start, !.end = end]}
          /\ IF e.type = Feed!Deleted
               THEN Feed!MaySetPlanType(row.tenant, e)
               ELSE UNCHANGED plan_type
    BY <1>5, Zenon DEF Feed!Change
  <2>1. PICK status \in {row.status, Announced(e, row).status},
             start \in {row.start, Announced(e, row).start},
             end \in {row.end, Announced(e, row).end} :
          subscriptions' = (subscriptions \ {row}) \cup
            {[row EXCEPT !.status = status, !.start = start, !.end = end]}
    BY <2>0, SameVocabulary
  <2> DEFINE new == [row EXCEPT !.status = status, !.start = start, !.end = end]
  <2>2. row \in SubscriptionRow
    BY DEF TypeOK
  <2>3. status \in SubscriptionStatus /\ start \in Nat /\ end \in Nat
    BY <1>1, <2>1, <2>2, AnnouncedType DEF SubscriptionRow
  <2>4. /\ new \in SubscriptionRow
        /\ new.id = row.id /\ new.tenant = row.tenant /\ new.plan = row.plan
    BY <2>2, <2>3 DEF SubscriptionRow
  <2>5. plan_type' \in [Tenants -> PlanTypes]
    BY <1>2, <2>0, <2>2, SameVocabulary DEF Feed!MaySetPlanType, TypeOK, SubscriptionRow
  <2> HIDE DEF new
  <2>6. Changes(e)
    BY <2>0, <2>1, <2>4 DEF Changes, new
  <2> QED BY <2>5, <2>6
<1> QED BY <1>3, <1>4, <1>5 DEF Webhook, Feed!Process

-----------------------------------------------------------------------------
(* The inductive invariant.                                                *)

\* A new usage event gets an id nobody has, and sums are numbers.
UsageInv ==
    /\ IsFiniteSet(usage)
    /\ IsFiniteSet(Units(usage))
    /\ \A e \in usage : e.id < Cardinality(usage)

\* A signup's tenant and its first row appear together, under the plan asked
\* for; nobody but the signup adds that row.
SignupInv ==
    \A s \in Signups :
        /\ pc[s] \in {"insert", "commit"} => payload[s] \in Plans
        /\ pc[s] \in {"start", "insert", "commit"} => s \notin tenants
        /\ pc[s] = "reply" \/ answer[s].code = 201 => s \in tenants
        /\ pc[s] = "commit" => \E now \in Nat :
               draft[s] = {[ id |-> FirstRow[s], tenant |-> s,
                             plan |-> payload[s], status |-> "active",
                             start |-> now, end |-> now + PeriodLength ]}
        /\ \A row \in subscriptions : row.id = FirstRow[s] => row.tenant = s

\* What a reader was told of exists, and it answers only once.
ReaderInv ==
    \A g \in Readers :
        /\ known[g].tenants \subseteq tenants
        /\ pc[g] = "start" => answer[g] = NoAnswer

Inv == /\ TypeOK /\ UsageInv /\ SignupInv /\ ReaderInv
       /\ NewTenantIsWhole /\ CreatedIsFound /\ StatusIsRecent

LEMMA InitInv == Init => Inv
<1> SUFFICES ASSUME Init PROVE Inv
  OBVIOUS
<1> USE TenantEndpointsAssumption DEF Init
<1>1. TypeOK
  <2>1. NoAnswer \in Answer
    BY DEF NoAnswer, Answer
  <2> QED BY <2>1 DEF TypeOK, Calls, PC, SubscriptionRow
<1>2. UsageInv
  BY NoUsage, FS_EmptySet DEF UsageInv
<1>3. SignupInv
  BY DEF SignupInv, NoAnswer, Calls
<1>4. ReaderInv
  BY DEF ReaderInv, Calls
<1>5. NewTenantIsWhole
  BY DEF NewTenantIsWhole
<1>6. CreatedIsFound /\ StatusIsRecent
  BY DEF CreatedIsFound, StatusIsRecent, NoAnswer, Calls
<1> QED BY <1>1, <1>2, <1>3, <1>4, <1>5, <1>6 DEF Inv

-----------------------------------------------------------------------------
(* Every step keeps the types.                                             *)

LEMMA RespondType ==
    ASSUME TypeOK, NEW c \in Calls, NEW code \in {0, 200, 201, 404, 422},
           NEW tenant \in SUBSET TenantRow, NEW status \in SUBSET QuotaStatus,
           Respond(c, code, tenant, status)
    PROVE  pc' \in [Calls -> PC] /\ answer' \in [Calls -> Answer]
<1>1. [code |-> code, tenant |-> tenant, status |-> status] \in Answer
  BY DEF Answer
<1> QED BY <1>1 DEF Respond, Goto, TypeOK, PC

\* Sums over a period are numbers, and more usage never sums to less.
LEMMA SumType ==
    ASSUME UsageInv, NEW S \in SUBSET usage
    PROVE  TotalQuantity(S) \in Nat /\ IsFiniteSet(Units(S))
BY LessUsage DEF UsageInv

\* Rows of the subscriptions table after a webhook.
LEMMA WebhookRows ==
    ASSUME TypeOK, NEW e \in Events, Webhook(e)
    PROVE  /\ subscriptions' \subseteq SubscriptionRow
           /\ \A a, b \in subscriptions' : a.id = b.id => a = b
           /\ \A row \in subscriptions' : row.tenant \in tenants /\ row.plan \in Plans
<1>1. Changes(e)
  BY WebhookChanges
<1>2. CASE UNCHANGED subscriptions
  BY <1>2 DEF TypeOK
<1>3. ASSUME NEW new \in SubscriptionRow,
             subscriptions' = subscriptions \cup {new},
             new.tenant \in tenants, new.plan = "pro",
             \A row \in subscriptions : row.id # new.id
      PROVE  /\ subscriptions' \subseteq SubscriptionRow
             /\ \A a, b \in subscriptions' : a.id = b.id => a = b
             /\ \A row \in subscriptions' :
                    row.tenant \in tenants /\ row.plan \in Plans
  BY <1>3, TenantEndpointsAssumption DEF TypeOK
<1>4. ASSUME NEW row \in subscriptions, NEW new \in SubscriptionRow,
             subscriptions' = (subscriptions \ {row}) \cup {new},
             new.id = row.id, new.tenant = row.tenant, new.plan = row.plan
      PROVE  /\ subscriptions' \subseteq SubscriptionRow
             /\ \A a, b \in subscriptions' : a.id = b.id => a = b
             /\ \A other \in subscriptions' :
                    other.tenant \in tenants /\ other.plan \in Plans
  BY <1>4 DEF TypeOK
<1> QED BY <1>1, <1>2, <1>3, <1>4 DEF Changes

\* A call that is metered adds one event with a new id.
LEMMA MeterAdds ==
    ASSUME TypeOK, UsageInv, NEW row \in subscriptions, Meter(row)
    PROVE  \E e \in UsageEvent :
               /\ usage' = usage \cup {e}
               /\ e \notin usage /\ e.id = Cardinality(usage)
               /\ e.tenant = row.tenant
               /\ Rows(row.tenant) = {row} =>
                     Used(row, e.event_type) + e.quantity
                         <= Limit[row.plan][e.event_type]
<1>1. PICK type \in EventTypes, stamp \in 0 .. clock :
        \E quantity \in IF type = "api_call" THEN {1} ELSE Quantities :
           /\ Rows(row.tenant) = {row}
                  => Used(row, type) + quantity <= Limit[row.plan][type]
           /\ usage' = usage \cup
                {[ id |-> Cardinality(usage), tenant |-> row.tenant,
                   event_type |-> type, quantity |-> quantity,
                   timestamp |-> stamp ]}
  BY DEF Meter
<1>2. PICK quantity \in IF type = "api_call" THEN {1} ELSE Quantities :
           /\ Rows(row.tenant) = {row}
                  => Used(row, type) + quantity <= Limit[row.plan][type]
           /\ usage' = usage \cup
                {[ id |-> Cardinality(usage), tenant |-> row.tenant,
                   event_type |-> type, quantity |-> quantity,
                   timestamp |-> stamp ]}
  BY <1>1
<1> DEFINE e == [ id |-> Cardinality(usage), tenant |-> row.tenant,
                  event_type |-> type, quantity |-> quantity,
                  timestamp |-> stamp ]
<1>3. Cardinality(usage) \in Nat
  BY FS_CardinalityType DEF UsageInv
<1>4. quantity \in Nat /\ stamp \in Nat /\ row.tenant \in Tenants
  BY TenantEndpointsAssumption DEF TypeOK, SubscriptionRow
<1>5. e \in UsageEvent /\ e.id = Cardinality(usage)
  BY <1>3, <1>4 DEF UsageEvent
<1>6. e \notin usage
  BY <1>3, <1>5 DEF UsageInv
<1> QED BY <1>2, <1>5, <1>6

LEMMA TypeStep ==
    ASSUME Inv, [Next]_vars
    PROVE  TypeOK'
<1> USE DEF Inv
<1> DEFINE TablesOK ==
             /\ clock \in Nat
             /\ tenants \subseteq Tenants
             /\ plan_type \in [Tenants -> PlanTypes]
             /\ subscriptions \subseteq SubscriptionRow
             /\ \A a, b \in subscriptions : a.id = b.id => a = b
             /\ \A row \in subscriptions : row.tenant \in tenants /\ row.plan \in Plans
             /\ usage \subseteq UsageEvent
             /\ \A a, b \in usage : a.id = b.id => a = b
             /\ processed \subseteq EventIds
           CallsOK ==
             /\ pc \in [Calls -> PC]
             /\ payload \in [Signups -> PlanTypes]
             /\ asked \in [Readers -> Question]
             /\ draft \in [Signups -> SUBSET SubscriptionRow]
             /\ loaded \in [Readers -> SUBSET SubscriptionRow]
             /\ known \in [Readers -> [tenants : SUBSET Signups, usage : SUBSET usage]]
             /\ answer \in [Calls -> Answer]
<1>0. TablesOK /\ CallsOK
  BY DEF TypeOK
<1>1. SUFFICES TablesOK' /\ CallsOK'
  BY DEF TypeOK
<1>2. ASSUME UNCHANGED <<clock, tables>> PROVE TablesOK'
  BY <1>0, <1>2 DEF tables, billing
<1>3. ASSUME UNCHANGED calls, usage \subseteq usage' PROVE CallsOK'
  <2>1. known' \in [Readers -> [tenants : SUBSET Signups, usage : SUBSET usage']]
    BY <1>0, <1>3 DEF calls
  <2> QED BY <1>0, <1>3, <2>1 DEF calls
<1>4. ASSUME NEW s \in Signups, Signup(s) \/ Fail(s) PROVE TablesOK' /\ CallsOK'
  <2>0. s \in Calls /\ s \in Tenants
    BY TenantEndpointsAssumption DEF Calls
  <2>1. CASE CheckPlan(s)
    <3>1. pc' \in [Calls -> PC] /\ answer' \in [Calls -> Answer]
      <4>1. CASE payload[s] \in Plans
        BY <1>0, <2>0, <2>1, <4>1 DEF CheckPlan, Goto, PC
      <4>2. CASE payload[s] \notin Plans
        <5>1. Respond(s, 422, {}, {})
          BY <2>1, <4>2 DEF CheckPlan
        <5> QED BY <2>0, <5>1, RespondType
      <4> QED BY <4>1, <4>2
    <3> QED BY <1>0, <1>2, <2>1, <3>1 DEF CheckPlan, tables
  <2>2. CASE InsertTenant(s)
    <3>1. NewRow(s) \in SubscriptionRow
      BY <1>0, <2>0, TenantEndpointsAssumption, EventsAssumption
         DEF NewRow, SubscriptionRow, SubscriptionStatus
    <3> QED BY <1>0, <1>2, <2>0, <2>2, <3>1 DEF InsertTenant, Goto, PC, tables
  <2>3. CASE CommitSignup(s)
    <3>1. PICK now \in Nat :
            draft[s] = {[ id |-> FirstRow[s], tenant |-> s,
                          plan |-> payload[s], status |-> "active",
                          start |-> now, end |-> now + PeriodLength ]}
      BY <2>3 DEF CommitSignup, SignupInv
    <3> DEFINE new == [ id |-> FirstRow[s], tenant |-> s,
                        plan |-> payload[s], status |-> "active",
                        start |-> now, end |-> now + PeriodLength ]
    <3>2. new \in SubscriptionRow /\ payload[s] \in Plans /\ s \notin tenants
      BY <1>0, <2>3, <3>1 DEF CommitSignup, SignupInv
    <3>3. \A row \in subscriptions : row.id # new.id
      BY <1>0, <3>2 DEF SignupInv
    <3>4. subscriptions' = subscriptions \cup {new} /\ tenants' = tenants \cup {s}
      BY <2>3, <3>1 DEF CommitSignup
    <3>5. new.tenant = s /\ new.plan = payload[s]
      OBVIOUS
    <3> HIDE DEF new
    <3>6. /\ subscriptions' \subseteq SubscriptionRow
          /\ \A a, b \in subscriptions' : a.id = b.id => a = b
          /\ \A row \in subscriptions' : row.tenant \in tenants' /\ row.plan \in Plans
      BY <1>0, <3>2, <3>3, <3>4, <3>5
    <3>7. /\ plan_type' \in [Tenants -> PlanTypes]
          /\ pc' \in [Calls -> PC]
          /\ UNCHANGED <<clock, processed, usage, payload, asked, draft, loaded,
                         known, answer>>
      BY <1>0, <2>0, <2>3 DEF CommitSignup, Goto, PC
    <3> QED BY <1>0, <2>0, <3>4, <3>6, <3>7
  <2>4. CASE ReplyCreated(s)
    <3>1. {TenantShown(s)} \in SUBSET TenantRow
      BY <1>0, <2>0 DEF TenantShown, TenantRow
    <3>2. pc' \in [Calls -> PC] /\ answer' \in [Calls -> Answer]
      BY <2>0, <2>4, <3>1, RespondType DEF ReplyCreated
    <3> QED BY <1>0, <1>2, <2>4, <3>2 DEF ReplyCreated, tables
  <2>5. CASE Fail(s)
    BY <1>0, <1>2, <2>0, <2>5 DEF Fail, Goto, PC, tables
  <2> QED BY <1>4, <2>1, <2>2, <2>3, <2>4, <2>5 DEF Signup
<1>5. ASSUME NEW g \in Readers, Read(g) PROVE TablesOK' /\ CallsOK'
  <2>0. g \in Calls
    BY DEF Calls
  <2>1. CASE LoadTenant(g)
    <3>1. known' \in [Readers -> [tenants : SUBSET Signups, usage : SUBSET usage']]
      BY <1>0, <2>1 DEF LoadTenant, tables, Created
    <3>2. ASSUME asked[g].tenant \in tenants
          PROVE  {TenantShown(asked[g].tenant)} \in SUBSET TenantRow
      BY <1>0, <3>2 DEF TenantShown, TenantRow
    <3>3. pc' \in [Calls -> PC] /\ answer' \in [Calls -> Answer]
      <4>1. CASE Respond(g, 404, {}, {})
        BY <2>0, <4>1, RespondType
      <4>2. CASE /\ asked[g].tenant \in tenants
                 /\ Respond(g, 200, {TenantShown(asked[g].tenant)}, {})
        <5> DEFINE told == {TenantShown(asked[g].tenant)}
        <5>1. told \in SUBSET TenantRow /\ Respond(g, 200, told, {})
          BY <3>2, <4>2
        <5> HIDE DEF told
        <5> QED BY <2>0, <5>1, RespondType
      <4>3. CASE Goto(g, "select") /\ UNCHANGED answer
        BY <1>0, <2>0, <4>3 DEF Goto, PC
      <4> QED BY <2>1, <4>1, <4>2, <4>3 DEF LoadTenant
    <3> QED BY <1>0, <1>2, <2>1, <3>1, <3>3 DEF LoadTenant, tables
  <2>2. CASE NoActiveSubscription(g)
    <3>1. pc' \in [Calls -> PC] /\ answer' \in [Calls -> Answer]
      BY <2>0, <2>2, RespondType DEF NoActiveSubscription
    <3> QED BY <1>0, <1>2, <2>2, <3>1 DEF NoActiveSubscription, tables
  <2>3. CASE LoadSubscription(g)
    <3>1. loaded' \in [Readers -> SUBSET SubscriptionRow]
      BY <1>0, <2>3 DEF LoadSubscription, Latest, Active, Rows
    <3> QED
      BY <1>0, <1>2, <2>0, <2>3, <3>1 DEF LoadSubscription, Goto, PC, tables
  <2>4. CASE SumUsage(g)
    <3>1. PICK row \in loaded[g] :
            Respond(g, 200, {},
                    {[row |-> row,
                      used |-> [type \in EventTypes |-> Shown(row, type)]]})
      BY <2>4 DEF SumUsage
    <3>2. row \in SubscriptionRow
      BY <1>0
    <3>3. \A type \in EventTypes : Shown(row, type) \in Nat
      BY SumType DEF Shown, InPeriod
    <3>4. {[row |-> row, used |-> [type \in EventTypes |-> Shown(row, type)]]}
             \in SUBSET QuotaStatus
      BY <3>2, <3>3 DEF QuotaStatus
    <3>5. pc' \in [Calls -> PC] /\ answer' \in [Calls -> Answer]
      BY <2>0, <3>1, <3>4, RespondType
    <3> QED BY <1>0, <1>2, <2>4, <3>5 DEF SumUsage, tables
  <2> QED BY <1>5, <2>1, <2>2, <2>3, <2>4 DEF Read
<1>6. ASSUME NEW row \in subscriptions, Meter(row) PROVE TablesOK' /\ CallsOK'
  <2>1. PICK e \in UsageEvent :
          usage' = usage \cup {e} /\ e \notin usage /\ e.id = Cardinality(usage)
    BY <1>6, MeterAdds
  <2>2. \A a, b \in usage' : a.id = b.id => a = b
    <3>1. \A a \in usage : a.id # e.id
      BY <1>0, <2>1, FS_CardinalityType DEF UsageInv, UsageEvent
    <3> QED BY <1>0, <2>1, <3>1
  <2>3. UNCHANGED <<clock, billing, tenants, calls>>
    BY <1>6 DEF Meter
  <2> QED BY <1>0, <1>3, <2>1, <2>2, <2>3 DEF billing
<1>7. ASSUME NEW e \in Events, Webhook(e) PROVE TablesOK' /\ CallsOK'
  <2>1. UNCHANGED <<clock, tenants, usage, calls>>
    BY <1>7 DEF Webhook
  <2>2. processed' \subseteq EventIds
    BY <1>0, <1>7, EventsAssumption DEF Webhook, Feed!Process, Event
  <2>3. CallsOK'
    BY <1>3, <2>1
  <2> QED BY <1>0, <1>7, <2>1, <2>2, <2>3, WebhookChanges, WebhookRows
<1>8. CASE Tick
  <2>1. clock' \in Nat /\ UNCHANGED <<tables, calls>>
    BY <1>0, <1>8 DEF Tick
  <2> QED BY <1>0, <1>3, <2>1 DEF tables, billing
<1>9. CASE UNCHANGED vars
  BY <1>2, <1>3, <1>9 DEF vars, tables
<1> QED
  BY <1>4, <1>5, <1>6, <1>7, <1>8, <1>9 DEF Next, Quiescent

-----------------------------------------------------------------------------
(* Every step keeps the rest of the invariant.                             *)

\* Events recorded later do not have the ids of those recorded before.
LEMMA UsageStep ==
    ASSUME Inv, [Next]_vars
    PROVE  UsageInv' /\ usage \subseteq usage'
<1> USE DEF Inv
<1>1. ASSUME NEW row \in subscriptions, Meter(row)
      PROVE  UsageInv' /\ usage \subseteq usage'
  <2>1. PICK e \in UsageEvent :
          usage' = usage \cup {e} /\ e \notin usage /\ e.id = Cardinality(usage)
    BY <1>1, MeterAdds
  <2>2. IsFiniteSet(usage') /\ Cardinality(usage') = Cardinality(usage) + 1
    BY <2>1, FS_AddElement DEF UsageInv
  <2>3. IsFiniteSet(Units(usage'))
    BY <2>1, AddUsage DEF UsageInv, UsageEvent
  <2>4. Cardinality(usage) \in Nat /\ \A a \in usage : a.id \in Nat
    BY FS_CardinalityType DEF UsageInv, TypeOK, UsageEvent
  <2>5. \A a \in usage' : a.id < Cardinality(usage')
    BY <2>1, <2>2, <2>4 DEF UsageInv
  <2> QED BY <2>1, <2>2, <2>3, <2>5 DEF UsageInv
<1>2. CASE UNCHANGED usage
  BY <1>2 DEF UsageInv
<1>3. UNCHANGED usage \/ \E row \in subscriptions : Meter(row)
  BY DEF Next, Signup, Read, CheckPlan, InsertTenant, CommitSignup,
         ReplyCreated, Fail, LoadTenant, NoActiveSubscription,
         LoadSubscription, SumUsage, Webhook, Tick, Quiescent, vars, tables
<1> QED BY <1>1, <1>2, <1>3

\* No webhook adds or changes the first row of a signup.
LEMMA FirstRowKept ==
    ASSUME Inv, NEW e \in Events, Webhook(e), NEW s \in Signups,
           NEW row, row.id = FirstRow[s]
    PROVE  row \in subscriptions' <=> row \in subscriptions
<1>1. Changes(e) /\ e.subscription # FirstRow[s]
  BY WebhookChanges, TenantEndpointsAssumption DEF Inv
<1>2. ASSUME NEW new, new.id = e.subscription,
             subscriptions' = subscriptions \cup {new}
      PROVE  row \in subscriptions' <=> row \in subscriptions
  BY <1>1, <1>2
<1>3. ASSUME NEW old, NEW new, old.id = e.subscription, new.id = old.id,
             subscriptions' = (subscriptions \ {old}) \cup {new}
      PROVE  row \in subscriptions' <=> row \in subscriptions
  BY <1>1, <1>3
<1> QED BY <1>1, <1>2, <1>3 DEF Changes

LEMMA SignupStep ==
    ASSUME Inv, [Next]_vars
    PROVE  SignupInv' /\ NewTenantIsWhole'
<1> USE DEF Inv
<1> DEFINE Whole(s) == \E row \in subscriptions : /\ row.id = FirstRow[s]
                                                 /\ row.tenant = s
                                                 /\ row.status = "active"
                                                 /\ row.plan = payload[s]
           Part(s) ==
             /\ pc[s] \in {"insert", "commit"} => payload[s] \in Plans
             /\ pc[s] \in {"start", "insert", "commit"} => s \notin tenants
             /\ pc[s] = "reply" \/ answer[s].code = 201 => s \in tenants
             /\ pc[s] = "commit" => \E now \in Nat :
                   draft[s] = {[ id |-> FirstRow[s], tenant |-> s,
                                 plan |-> payload[s], status |-> "active",
                                 start |-> now, end |-> now + PeriodLength ]}
             /\ \A row \in subscriptions : row.id = FirstRow[s] => row.tenant = s
             /\ s \in tenants => Whole(s)
<1>0. \A s \in Signups : Part(s)
  BY DEF SignupInv, NewTenantIsWhole, Active, Rows
<1>1. SUFFICES ASSUME NEW s \in Signups PROVE Part(s)'
  BY DEF SignupInv, NewTenantIsWhole, Active, Rows
<1>2. s \in Calls /\ s \in Tenants /\ s \notin Readers /\ Part(s)
  BY <1>0, TenantEndpointsAssumption DEF Calls
<1>3. ASSUME UNCHANGED <<payload, tenants, subscriptions, draft>>,
             pc'[s] = pc[s], answer'[s] = answer[s]
      PROVE  Part(s)'
  BY <1>2, <1>3
<1>4. ASSUME NEW t \in Signups, t # s, Signup(t) \/ Fail(t) PROVE Part(s)'
  <2>1. CASE CommitSignup(t)
    <3>1. PICK now \in Nat :
            draft[t] = {[ id |-> FirstRow[t], tenant |-> t,
                          plan |-> payload[t], status |-> "active",
                          start |-> now, end |-> now + PeriodLength ]}
      BY <1>0, <2>1 DEF CommitSignup
    <3>2. FirstRow[t] # FirstRow[s]
      BY <1>4, TenantEndpointsAssumption
    <3>3. /\ subscriptions \subseteq subscriptions'
          /\ \A row \in subscriptions' : row.id = FirstRow[s] => row \in subscriptions
      BY <2>1, <3>1, <3>2 DEF CommitSignup
    <3>4. tenants' = tenants \cup {t} /\ UNCHANGED <<payload, draft, answer>>
      BY <2>1 DEF CommitSignup
    <3>5. pc'[s] = pc[s]
      BY <1>4, <2>1 DEF CommitSignup, Goto, TypeOK
    <3> QED BY <1>2, <1>4, <3>3, <3>4, <3>5
  <2>2. CASE CheckPlan(t)
    <3>1. UNCHANGED <<payload, tenants, subscriptions, draft>>
      BY <2>2 DEF CheckPlan, tables, billing
    <3>2. pc'[s] = pc[s] /\ answer'[s] = answer[s]
      BY <1>2, <1>4, <2>2 DEF CheckPlan, Goto, Respond, TypeOK
    <3> QED BY <1>3, <3>1, <3>2
  <2>3. CASE InsertTenant(t)
    <3>1. draft'[s] = draft[s] /\ pc'[s] = pc[s]
      BY <1>4, <2>3 DEF InsertTenant, Goto, TypeOK
    <3>2. UNCHANGED <<payload, tenants, subscriptions, answer>>
      BY <2>3 DEF InsertTenant, tables, billing
    <3> QED BY <1>2, <3>1, <3>2
  <2>4. CASE ReplyCreated(t)
    BY <1>3, <1>4, <2>4 DEF ReplyCreated, Goto, Respond, tables, billing, TypeOK
  <2>5. CASE Fail(t)
    BY <1>3, <1>4, <2>5 DEF Fail, Goto, tables, billing, TypeOK
  <2> QED BY <1>4, <2>1, <2>2, <2>3, <2>4, <2>5 DEF Signup
<1>5. ASSUME Signup(s) \/ Fail(s) PROVE Part(s)'
  <2>1. CASE CheckPlan(s)
    BY <1>2, <2>1 DEF CheckPlan, Goto, Respond, tables, billing, TypeOK
  <2>2. CASE InsertTenant(s)
    <3>1. draft'[s] = {NewRow(s)} /\ clock \in Nat /\ pc'[s] = "commit"
      BY <1>2, <2>2 DEF InsertTenant, Goto, TypeOK
    <3>2. UNCHANGED <<payload, tenants, subscriptions, answer>>
      BY <2>2 DEF InsertTenant, tables, billing
    <3> QED BY <1>2, <2>2, <3>1, <3>2 DEF InsertTenant, NewRow
  <2>3. CASE CommitSignup(s)
    <3>1. PICK now \in Nat :
            draft[s] = {[ id |-> FirstRow[s], tenant |-> s,
                          plan |-> payload[s], status |-> "active",
                          start |-> now, end |-> now + PeriodLength ]}
      BY <1>2, <2>3 DEF CommitSignup
    <3>2. /\ subscriptions' = subscriptions \cup draft[s]
          /\ tenants' = tenants \cup {s} /\ UNCHANGED payload
          /\ pc'[s] = "reply"
      BY <1>2, <2>3 DEF CommitSignup, Goto, TypeOK
    <3> DEFINE new == [ id |-> FirstRow[s], tenant |-> s,
                        plan |-> payload[s], status |-> "active",
                        start |-> now, end |-> now + PeriodLength ]
    <3>3. new \in subscriptions'
      BY <3>1, <3>2
    <3>4. /\ new.id = FirstRow[s] /\ new.tenant = s
          /\ new.status = "active" /\ new.plan = payload'[s]
      BY <3>2
    <3> HIDE DEF new
    <3>5. Whole(s)'
      BY <3>3, <3>4
    <3>6. \A row \in subscriptions' : row.id = FirstRow[s] => row.tenant = s
      BY <1>2, <3>1, <3>2
    <3> QED BY <3>2, <3>5, <3>6
  <2>4. CASE ReplyCreated(s)
    <3>1. pc'[s] = "done" /\ s \in tenants
      BY <1>2, <2>4 DEF ReplyCreated, Respond, Goto, TypeOK
    <3>2. UNCHANGED <<payload, tenants, subscriptions, draft>>
      BY <2>4 DEF ReplyCreated, tables, billing
    <3> QED BY <1>2, <3>1, <3>2
  <2>5. CASE Fail(s)
    BY <1>2, <2>5 DEF Fail, Goto, tables, billing, TypeOK
  <2> QED BY <1>5, <2>1, <2>2, <2>3, <2>4, <2>5 DEF Signup
<1>6. ASSUME NEW g \in Readers, Read(g) PROVE Part(s)'
  <2>1. UNCHANGED <<payload, tenants, subscriptions, draft>>
    BY <1>6 DEF Read, LoadTenant, NoActiveSubscription, LoadSubscription,
                SumUsage, tables, billing
  <2>2. pc'[s] = pc[s] /\ answer'[s] = answer[s]
    BY <1>2, <1>6 DEF Read, LoadTenant, NoActiveSubscription, LoadSubscription,
                      SumUsage, Respond, Goto, TypeOK
  <2> QED BY <1>3, <2>1, <2>2
<1>7. ASSUME NEW e \in Events, Webhook(e) PROVE Part(s)'
  <2>1. UNCHANGED <<payload, tenants, draft, pc, answer>>
    BY <1>7 DEF Webhook, calls
  <2>2. ASSUME NEW row, row.id = FirstRow[s]
        PROVE  row \in subscriptions' <=> row \in subscriptions
    BY <1>7, <2>2, FirstRowKept
  <2>3. Whole(s)' <=> Whole(s)
    BY <2>1, <2>2
  <2>4. \A row \in subscriptions' : row.id = FirstRow[s] => row.tenant = s
    BY <1>2, <2>2
  <2> QED BY <1>2, <2>1, <2>3, <2>4
<1>8. CASE Tick \/ UNCHANGED vars \/ \E row \in subscriptions : Meter(row)
  BY <1>3, <1>8 DEF Tick, Meter, vars, tables, billing, calls
<1> QED BY <1>4, <1>5, <1>6, <1>7, <1>8 DEF Next, Quiescent

\* A reader is told of tenants that exist, and finds their first subscription.
LEMMA ReaderStep ==
    ASSUME Inv, [Next]_vars
    PROVE  ReaderInv' /\ CreatedIsFound'
<1> USE DEF Inv
<1> DEFINE Part(g) ==
             /\ known[g].tenants \subseteq tenants
             /\ pc[g] = "start" => answer[g] = NoAnswer
             /\ asked[g].tenant \in known[g].tenants => answer[g].code # 404
<1>0. \A g \in Readers : Part(g)
  BY DEF ReaderInv, CreatedIsFound
<1>1. SUFFICES ASSUME NEW g \in Readers PROVE Part(g)'
  BY DEF ReaderInv, CreatedIsFound
<1>2. g \in Calls /\ g \notin Signups /\ Part(g)
  BY <1>0, TenantEndpointsAssumption DEF Calls
<1>3. ASSUME tenants \subseteq tenants', known'[g] = known[g], UNCHANGED asked,
             pc'[g] = pc[g], answer'[g] = answer[g]
      PROVE  Part(g)'
  BY <1>2, <1>3
<1>4. ASSUME NEW s \in Signups, Signup(s) \/ Fail(s) PROVE Part(g)'
  <2>1. tenants \subseteq tenants' /\ UNCHANGED <<known, asked>>
    BY <1>4 DEF Signup, CheckPlan, InsertTenant, CommitSignup, ReplyCreated,
                Fail, tables
  <2>2. pc'[g] = pc[g]
    BY <1>2, <1>4 DEF Signup, CheckPlan, InsertTenant, CommitSignup,
                      ReplyCreated, Fail, Respond, Goto, TypeOK
  <2>3. answer'[g] = answer[g]
    BY <1>2, <1>4 DEF Signup, CheckPlan, InsertTenant, CommitSignup,
                      ReplyCreated, Fail, Respond, TypeOK
  <2> QED BY <1>3, <2>1, <2>2, <2>3
<1>5. ASSUME NEW h \in Readers, h # g, Read(h) PROVE Part(g)'
  <2>1. UNCHANGED <<tenants, asked>>
    BY <1>5 DEF Read, LoadTenant, NoActiveSubscription, LoadSubscription,
                SumUsage, tables
  <2>2. known'[g] = known[g]
    BY <1>5 DEF Read, LoadTenant, NoActiveSubscription, LoadSubscription,
                SumUsage, TypeOK
  <2>3. pc'[g] = pc[g] /\ answer'[g] = answer[g]
    BY <1>2, <1>5 DEF Read, LoadTenant, NoActiveSubscription,
                      LoadSubscription, SumUsage, Respond, Goto, TypeOK
  <2> QED BY <1>3, <2>1, <2>2, <2>3
<1>6. ASSUME Read(g) PROVE Part(g)'
  <2>1. CASE LoadTenant(g)
    <3>1. /\ known'[g] = [tenants |-> Created, usage |-> usage]
          /\ UNCHANGED <<tenants, asked>>
      BY <2>1 DEF LoadTenant, tables, TypeOK
    <3>2. Created \subseteq tenants
      BY DEF Created, SignupInv
    <3>3. CASE asked[g].tenant \notin tenants /\ Respond(g, 404, {}, {})
      BY <1>2, <3>1, <3>2, <3>3 DEF Respond, Goto, TypeOK
    <3>4. CASE Respond(g, 200, {TenantShown(asked[g].tenant)}, {})
      <4>1. pc'[g] = "done" /\ answer'[g].code = 200
        BY <1>2, <3>4 DEF Respond, Goto, TypeOK
      <4> QED BY <3>1, <3>2, <4>1
    <3>5. CASE Goto(g, "select") /\ UNCHANGED answer
      <4>1. pc'[g] = "select" /\ answer'[g].code # 404
        BY <1>2, <2>1, <3>5 DEF LoadTenant, Goto, NoAnswer, TypeOK
      <4> QED BY <3>1, <3>2, <4>1
    <3> QED BY <2>1, <3>3, <3>4, <3>5 DEF LoadTenant
  <2>2. CASE NoActiveSubscription(g)
    <3>1. asked[g].tenant \notin known[g].tenants
      <4>1. known[g].tenants \subseteq Signups \cap tenants
        BY <1>2 DEF TypeOK
      <4> QED BY <2>2, <4>1 DEF NoActiveSubscription, NewTenantIsWhole
    <3>2. UNCHANGED <<tenants, known, asked>> /\ pc'[g] = "done"
      BY <1>2, <2>2 DEF NoActiveSubscription, Respond, Goto, tables, TypeOK
    <3> QED BY <1>2, <3>1, <3>2
  <2>3. CASE LoadSubscription(g)
    <3>1. pc'[g] = "sum"
      BY <1>2, <2>3 DEF LoadSubscription, Goto, TypeOK
    <3> QED BY <1>2, <2>3, <3>1 DEF LoadSubscription, tables
  <2>4. CASE SumUsage(g)
    <3>1. answer'[g].code = 200 /\ pc'[g] = "done"
      BY <1>2, <2>4 DEF SumUsage, Respond, Goto, TypeOK
    <3> QED BY <1>2, <2>4, <3>1 DEF SumUsage, tables
  <2> QED BY <1>6, <2>1, <2>2, <2>3, <2>4 DEF Read
<1>7. ASSUME NEW e \in Events, Webhook(e) PROVE Part(g)'
  BY <1>3, <1>7 DEF Webhook, calls
<1>8. CASE Tick \/ UNCHANGED vars \/ \E row \in subscriptions : Meter(row)
  BY <1>3, <1>8 DEF Tick, Meter, vars, tables, calls
<1> QED BY <1>4, <1>5, <1>6, <1>7, <1>8 DEF Next, Quiescent

\* A status is right when it is read, and usage only grows afterwards.
LEMMA StatusStep ==
    ASSUME Inv, [Next]_vars
    PROVE  StatusIsRecent'
<1> USE DEF Inv
<1> DEFINE Seen(g, row, type) == TotalQuantity(known[g].usage \cap InPeriod(row, type))
           Between(g, status) == \A type \in EventTypes :
             /\ Seen(g, status.row, type) <= status.used[type]
             /\ status.used[type] <= Used(status.row, type)
<1>1. SUFFICES ASSUME NEW g \in Readers, NEW status \in answer'[g].status
               PROVE  Between(g, status)'
  BY DEF StatusIsRecent
<1>2. g \in Calls /\ g \notin Signups
  BY TenantEndpointsAssumption DEF Calls
<1>3. UsageInv' /\ usage \subseteq usage' /\ TypeOK'
  BY UsageStep, TypeStep
<1>4. ASSUME answer'[g] = answer[g], known'[g] = known[g] PROVE Between(g, status)'
  <2>1. status \in answer[g].status /\ Between(g, status)
    BY <1>1, <1>4 DEF StatusIsRecent
  <2>2. SUFFICES ASSUME NEW type \in EventTypes
                 PROVE  /\ Seen(g, status.row, type)' <= status.used[type]
                        /\ status.used[type] <= Used(status.row, type)'
    OBVIOUS
  <2>3. status.used[type] \in Nat
    BY <1>2, <2>1, <2>2 DEF TypeOK, Answer, QuotaStatus
  <2> DEFINE old == InPeriod(status.row, type)
             new == InPeriod(status.row, type)'
  <2>4. old \in SUBSET new
    BY <1>3 DEF InPeriod
  <2>5. new \in SUBSET usage' /\ old \in SUBSET usage
    BY DEF InPeriod
  <2>6. IsFiniteSet(Units(new))
    BY <1>3, <2>5, LessUsage DEF UsageInv
  <2>7. TotalQuantity(old) \in Nat /\ TotalQuantity(old) <= TotalQuantity(new)
        /\ TotalQuantity(new) \in Nat
    <3> HIDE DEF old, new
    <3>1. new \in SUBSET new
      OBVIOUS
    <3> QED BY <2>4, <2>6, <3>1, LessUsage
  <2>8. known'[g].usage \cap new = known[g].usage \cap old
    <3>1. known[g].usage \subseteq usage
      BY DEF TypeOK
    <3> QED BY <1>3, <1>4, <3>1 DEF InPeriod
  <2>9. Seen(g, status.row, type)' = Seen(g, status.row, type)
    BY <2>8
  <2>10. /\ Used(status.row, type) = TotalQuantity(old)
         /\ Used(status.row, type)' = TotalQuantity(new)
    BY DEF Used
  <2>11. Seen(g, status.row, type) <= status.used[type]
         /\ status.used[type] <= Used(status.row, type)
    BY <2>1, <2>2
  <2> HIDE DEF old, new, Seen
  <2> QED BY <2>3, <2>7, <2>9, <2>10, <2>11
<1>5. ASSUME LoadTenant(g) PROVE Between(g, status)'
  <2>1. CASE Respond(g, 404, {}, {})
    BY <1>1, <1>2, <2>1 DEF Respond, TypeOK
  <2>2. CASE Respond(g, 200, {TenantShown(asked[g].tenant)}, {})
    BY <1>1, <1>2, <2>2 DEF Respond, TypeOK
  <2>3. CASE UNCHANGED answer
    BY <1>1, <1>5, <2>3 DEF LoadTenant, ReaderInv, NoAnswer
  <2> QED BY <1>5, <2>1, <2>2, <2>3 DEF LoadTenant
<1>6. ASSUME SumUsage(g) PROVE Between(g, status)'
  <2>1. PICK row \in loaded[g] :
          answer' = [answer EXCEPT ![g] =
            [ code |-> 200, tenant |-> {},
              status |-> {[ row |-> row,
                            used |-> [type \in EventTypes |-> Shown(row, type)]]} ]]
    BY <1>6 DEF SumUsage, Respond
  <2>2. status = [row |-> row, used |-> [type \in EventTypes |-> Shown(row, type)]]
    BY <1>1, <1>2, <2>1 DEF TypeOK
  <2>3. UNCHANGED <<usage, known>>
    BY <1>6 DEF SumUsage, tables
  <2>4. SUFFICES ASSUME NEW type \in EventTypes
                 PROVE  /\ Seen(g, row, type) <= Shown(row, type)
                        /\ Shown(row, type) <= Used(row, type)
    BY <2>2, <2>3 DEF Used, Shown, InPeriod
  <2>5. InPeriod(row, type) \in SUBSET usage
    BY DEF InPeriod
  <2>6. TotalQuantity(InPeriod(row, type)) \in Nat
        /\ IsFiniteSet(Units(InPeriod(row, type)))
    BY <2>5, SumType
  <2>7. Seen(g, row, type) <= TotalQuantity(InPeriod(row, type))
    <3> DEFINE all == InPeriod(row, type)
               some == known[g].usage \cap all
    <3>1. some \in SUBSET all
      OBVIOUS
    <3> HIDE DEF all, some
    <3>2. TotalQuantity(some) <= TotalQuantity(all)
      BY <2>6, <3>1, LessUsage DEF all
    <3> QED BY <3>2 DEF all, some
  <2> QED BY <2>6, <2>7 DEF Used, Shown
<1>7. CASE NoActiveSubscription(g)
  BY <1>1, <1>2, <1>7 DEF NoActiveSubscription, Respond, TypeOK
<1>8. CASE LoadSubscription(g)
  BY <1>4, <1>8 DEF LoadSubscription
<1>9. ASSUME NEW h \in Readers, h # g, Read(h) PROVE Between(g, status)'
  BY <1>2, <1>4, <1>9 DEF Read, LoadTenant, NoActiveSubscription,
     LoadSubscription, SumUsage, Respond, TypeOK
<1>10. ASSUME NEW s \in Signups, Signup(s) \/ Fail(s) PROVE Between(g, status)'
  <2>1. answer'[g] = answer[g]
    BY <1>2, <1>10 DEF Signup, CheckPlan, InsertTenant, CommitSignup,
                       ReplyCreated, Fail, Respond, TypeOK
  <2> QED BY <1>4, <1>10, <2>1 DEF Signup, CheckPlan, InsertTenant,
          CommitSignup, ReplyCreated, Fail
<1>11. CASE \/ Tick \/ UNCHANGED vars
            \/ \E row \in subscriptions : Meter(row)
            \/ \E e \in Events : Webhook(e)
  BY <1>4, <1>11 DEF Tick, Meter, Webhook, vars, calls
<1> QED
  BY <1>5, <1>6, <1>7, <1>8, <1>9, <1>10, <1>11 DEF Next, Read, Quiescent

LEMMA SpecInv == Spec => []Inv
<1>1. Inv /\ [Next]_vars => Inv'
  BY TypeStep, UsageStep, SignupStep, ReaderStep, StatusStep DEF Inv
<1> QED BY InitInv, <1>1, PTL DEF Spec

-----------------------------------------------------------------------------
(* The theorems.                                                           *)

\* Primary keys stay unique and foreign keys are met, whatever signups and
\* webhooks do at the same time.
THEOREM TypeCorrect == Spec => []TypeOK
<1>1. Inv => TypeOK
  BY DEF Inv
<1> QED BY SpecInv, <1>1, PTL

\* A tenant that was signed up always has the subscription it asked for, ACTIVE.
THEOREM TenantWhole == Spec => []NewTenantIsWhole
<1>1. Inv => NewTenantIsWhole
  BY DEF Inv
<1> QED BY SpecInv, <1>1, PTL

\* Nobody who was told of a new tenant is told "not found" afterwards.
THEOREM TenantFound == Spec => []CreatedIsFound
<1>1. Inv => CreatedIsFound
  BY DEF Inv
<1> QED BY SpecInv, <1>1, PTL

\* The usage a status shows is at least what was committed before it was asked
\* for and at most what is committed now.
THEOREM StatusRecent == Spec => []StatusIsRecent
<1>1. Inv => StatusIsRecent
  BY DEF Inv
<1> QED BY SpecInv, <1>1, PTL

\* As long as the tenant has only the subscription a status showed, no call is
\* metered beyond the room the status left.
THEOREM StatusBinds == Spec => StatusBindsEnforcement
<1> DEFINE Bound(e, status) ==
             Rows(e.tenant) = {status.row} =>
                 status.used[e.event_type] + e.quantity
                     <= Limit[status.row.plan][e.event_type]
           Step == \A e \in usage' \ usage, g \in Readers :
                      \A status \in answer[g].status : Bound(e, status)
<1>1. ASSUME Inv, Next PROVE Step
  <2>1. SUFFICES ASSUME NEW row \in subscriptions, Meter(row)
                 PROVE  Step
    <3>1. UNCHANGED usage => Step
      OBVIOUS
    <3>2. UNCHANGED usage \/ \E row \in subscriptions : Meter(row)
      BY <1>1 DEF Next, Signup, Read, CheckPlan, InsertTenant, CommitSignup,
         ReplyCreated, Fail, LoadTenant, NoActiveSubscription,
         LoadSubscription, SumUsage, Webhook, Tick, Quiescent, vars, tables
    <3> QED BY <2>1, <3>1, <3>2
  <2>2. PICK e \in UsageEvent :
          /\ usage' = usage \cup {e}
          /\ e.tenant = row.tenant
          /\ Rows(row.tenant) = {row} =>
                Used(row, e.event_type) + e.quantity
                    <= Limit[row.plan][e.event_type]
    BY <1>1, <2>1, MeterAdds DEF Inv
  <2>3. SUFFICES ASSUME NEW g \in Readers, NEW status \in answer[g].status,
                        Rows(e.tenant) = {status.row}
                 PROVE  status.used[e.event_type] + e.quantity
                            <= Limit[status.row.plan][e.event_type]
    BY <2>2
  <2>4. row = status.row
    BY <2>2, <2>3 DEF Rows
  <2>5. e.event_type \in EventTypes /\ e.quantity \in Nat
    BY DEF UsageEvent
  <2>6. status.used[e.event_type] <= Used(row, e.event_type)
    BY <1>1, <2>4, <2>5 DEF Inv, StatusIsRecent
  <2>7. status.used[e.event_type] \in Nat
    BY <1>1, <2>5 DEF Inv, TypeOK, Answer, QuotaStatus, Calls
  <2>8. Used(row, e.event_type) \in Nat
    <3>1. InPeriod(row, e.event_type) \in SUBSET usage
      BY DEF InPeriod
    <3> QED BY <1>1, <3>1, SumType DEF Inv, Used
  <2>9. Limit[row.plan][e.event_type] \in Nat
    BY <1>1, <2>5, TenantEndpointsAssumption
       DEF Inv, TypeOK, SubscriptionRow, PlanLimits
  <2>10. Used(row, e.event_type) + e.quantity <= Limit[row.plan][e.event_type]
    BY <2>2, <2>3, <2>4
  <2> QED BY <2>4, <2>5, <2>6, <2>7, <2>8, <2>9, <2>10
<1>2. Inv /\ [Next]_vars => [Step]_vars
  BY <1>1
<1>3. [][Step]_vars => StatusBindsEnforcement
  BY PTL DEF StatusBindsEnforcement
<1> QED BY SpecInv, <1>2, <1>3, PTL DEF Spec
===============================================================================
