---------------------------- MODULE TenantEndpoints ----------------------------
(***************************************************************************)
(* The endpoints a tenant is set up and watched with: POST /v1/tenants,     *)
(* GET /v1/tenants/{id} and GET /v1/tenants/{id}/quota.                    *)
(*                                                                         *)
(* As in MeteringEngine, one action is one statement, tables hold committed *)
(* rows only, and a rollback is the loss of what a session holds.  The      *)
(* readers take no locks: each of their statements sees what is committed   *)
(* by then.  Webhooks change the tables as BillingFeed promises, and calls  *)
(* of POST /v1/usage as MeteringEngine does at its COMMIT.                  *)
(***************************************************************************)
EXTENDS StripeEvents, UsageUnits

CONSTANTS
    Signups,          \* calls of POST /v1/tenants, and the tenants they create
    Readers,          \* calls of the GET endpoints
    FirstRow,         \* [Signups -> Subscriptions]: the row a signup inserts
    Plans,            \* names in the plans table
    Limit,            \* columns api_call_limit and token_limit of plans
    InitialRows, InitialPlanType,  \* as in StripeWebhooks
    Quantities,       \* sizes of the ai_token calls clients make
    MaxUsage,         \* bound on the number of usage events
    MaxClock          \* bound on the clock

TenantRow == [id : Tenants, plan_type : PlanTypes]

\* The plans table, which nothing changes: both limits are CHECKed >= 0.
PlanLimits == [PlanTypes -> [EventTypes -> Nat]]

\* A usage_events row, as far as quotas depend on it.
UsageEvent ==
    [ id : Nat, tenant : Tenants, event_type : EventTypes, quantity : Nat,
      timestamp : Nat ]

\* The subscription a status describes and the two sums.
QuotaStatus == [row : SubscriptionRow, used : [EventTypes -> Nat]]

Answer ==
    [ code : {0, 200, 201, 404, 422}, tenant : SUBSET TenantRow,
      status : SUBSET QuotaStatus ]

NoAnswer == [code |-> 0, tenant |-> {}, status |-> {}]

Question == [kind : {"tenant", "quota"}, tenant : Tenants]

PC == {"start", "insert", "commit", "reply", "select", "sum", "done", "failed"}

ASSUME TenantEndpointsAssumption ==
    /\ Signups \subseteq Tenants
    /\ Signups \cap Readers = {}
    /\ FirstRow \in [Signups -> Subscriptions]
    /\ \A s, t \in Signups : FirstRow[s] = FirstRow[t] => s = t
    \* The first row has no stripe_subscription_id.
    /\ \A s \in Signups : \A e \in Events : e.subscription # FirstRow[s]
    /\ Plans \subseteq PlanTypes /\ "pro" \in Plans
    /\ Limit \in PlanLimits
    /\ InitialRows \subseteq SubscriptionRow
    /\ \A row \in InitialRows :
           /\ row.tenant \notin Signups
           /\ \A s \in Signups : row.id # FirstRow[s]
           /\ row.plan \in Plans
    /\ \A a, b \in InitialRows : a.id = b.id => a = b
    /\ InitialPlanType \in [Tenants -> PlanTypes]
    /\ Quantities \subseteq Nat
    /\ MaxUsage \in Nat
    /\ MaxClock \in Nat

VARIABLES
    clock,          \* datetime.now(timezone.utc)
    tenants,        \* table tenants: the primary keys
    plan_type,      \* column tenants.plan_type
    subscriptions,  \* table subscriptions
    usage,          \* table usage_events
    processed,      \* table processed_webhooks
    pc,             \* where each call is
    payload,        \* the plan_type a signup asks for
    asked,          \* what a reader asks
    draft,          \* {} or {the row a signup adds to its session}
    loaded,         \* {} or {the subscription a reader has loaded}
    known,          \* tenants told of and usage committed when a reader started
    answer          \* the HTTP response

billing == <<processed, subscriptions, plan_type>>
tables == <<billing, tenants, usage>>
calls == <<pc, payload, asked, draft, loaded, known, answer>>
vars == <<clock, tables, calls>>

Feed == INSTANCE BillingFeed

-----------------------------------------------------------------------------
(* Reading the tables.                                                     *)

InPeriod(row, type) ==
    { e \in usage : /\ e.tenant = row.tenant
                    /\ e.event_type = type
                    /\ e.timestamp >= row.start
                    /\ e.timestamp < row.end }

\* What the quota enforcer counts.
Used(row, type) == TotalQuantity(InPeriod(row, type))

\* Mutant: the period includes its last instant.
ShownWithEnd(row, type) ==
    TotalQuantity({ e \in usage : /\ e.tenant = row.tenant
                                  /\ e.event_type = type
                                  /\ e.timestamp >= row.start
                                  /\ e.timestamp <= row.end })

\* Mutant: the period excludes its first instant.
ShownWithoutStart(row, type) ==
    TotalQuantity({e \in InPeriod(row, type) : e.timestamp > row.start})

\* What the status endpoint counts, with a query of its own.
Shown(row, type) == TotalQuantity(InPeriod(row, type))

Rows(t) == {row \in subscriptions : row.tenant = t}

Active(t) == {row \in Rows(t) : row.status = "active"}

\* ORDER BY current_period_end DESC LIMIT 1.
Latest(rows) == {row \in rows : \A other \in rows : other.end <= row.end}

Created == {s \in Signups : answer[s].code = 201}

Goto(c, label) == pc' = [pc EXCEPT ![c] = label]

Respond(c, code, tenant, status) ==
    /\ Goto(c, "done")
    /\ answer' = [answer EXCEPT ![c] =
                     [code |-> code, tenant |-> tenant, status |-> status]]

-----------------------------------------------------------------------------
(* POST /v1/tenants.                                                       *)

\* Mutant: the plan in the payload is trusted.
TrustPlan(s) ==
    /\ pc[s] = "start"
    /\ Goto(s, "insert")
    /\ UNCHANGED <<clock, tables, payload, asked, draft, loaded, known, answer>>

CheckPlan(s) ==
    /\ pc[s] = "start"
    /\ IF payload[s] \in Plans
         THEN Goto(s, "insert") /\ UNCHANGED answer
         ELSE Respond(s, 422, {}, {})
    /\ UNCHANGED <<clock, tables, payload, asked, draft, loaded, known>>

NewRow(s) ==
    [ id |-> FirstRow[s], tenant |-> s, plan |-> payload[s],
      status |-> "active", start |-> clock, end |-> clock + PeriodLength ]

\* Mutant: commit() in place of flush(), to have the tenant's id.
InsertAndCommitTenant(s) ==
    /\ pc[s] = "insert"
    /\ tenants' = tenants \cup {s}
    /\ plan_type' = [plan_type EXCEPT ![s] = payload[s]]
    /\ draft' = [draft EXCEPT ![s] = {NewRow(s)}]
    /\ Goto(s, "commit")
    /\ UNCHANGED <<clock, processed, subscriptions, usage, payload,
                   asked, loaded, known, answer>>

\* flush() sends the tenant, which nobody else sees; then the subscription
\* object is built, its period starting now.
InsertTenant(s) ==
    /\ pc[s] = "insert"
    /\ draft' = [draft EXCEPT ![s] = {NewRow(s)}]
    /\ Goto(s, "commit")
    /\ UNCHANGED <<clock, tables, payload, asked, loaded, known, answer>>

\* Mutant: flush() in place of commit(); close() rolls back.
FlushSignup(s) ==
    /\ pc[s] = "commit"
    /\ Goto(s, "reply")
    /\ UNCHANGED <<clock, tables, payload, asked, draft, loaded, known, answer>>

\* commit() sends the subscription and publishes both rows.
CommitSignup(s) ==
    /\ pc[s] = "commit"
    /\ tenants' = tenants \cup {s}
    /\ plan_type' = [plan_type EXCEPT ![s] = payload[s]]
    /\ subscriptions' = subscriptions \cup draft[s]
    /\ Goto(s, "reply")
    /\ UNCHANGED <<clock, processed, usage, payload, asked,
                   draft, loaded, known, answer>>

TenantShown(t) == [id |-> t, plan_type |-> plan_type[t]]

\* refresh() reads the tenant again, and the client is told.
ReplyCreated(s) ==
    /\ pc[s] = "reply"
    /\ Respond(s, 201, {TenantShown(s)}, {})
    /\ UNCHANGED <<clock, tables, payload, asked, draft, loaded, known>>

-----------------------------------------------------------------------------
(* GET /v1/tenants/{id} and GET /v1/tenants/{id}/quota.                    *)

\* db.get(Tenant), in either endpoint.
LoadTenant(g) ==
    /\ pc[g] = "start"
    /\ known' = [known EXCEPT ![g] = [tenants |-> Created, usage |-> usage]]
    /\ \/ /\ asked[g].tenant \notin tenants
          /\ Respond(g, 404, {}, {})
       \/ /\ asked[g].tenant \in tenants
          /\ asked[g].kind = "tenant"
          /\ Respond(g, 200, {TenantShown(asked[g].tenant)}, {})
       \/ /\ asked[g].tenant \in tenants
          /\ asked[g].kind = "quota"
          /\ Goto(g, "select") /\ UNCHANGED answer
    /\ UNCHANGED <<clock, tables, payload, asked, draft, loaded>>

NoActiveSubscription(g) ==
    /\ pc[g] = "select"
    /\ Active(asked[g].tenant) = {}
    /\ Respond(g, 404, {}, {})
    /\ UNCHANGED <<clock, tables, payload, asked, draft, loaded, known>>

LoadSubscription(g) ==
    /\ pc[g] = "select"
    /\ \E row \in Latest(Active(asked[g].tenant)) :
           loaded' = [loaded EXCEPT ![g] = {row}]
    /\ Goto(g, "sum")
    /\ UNCHANGED <<clock, tables, payload, asked, draft, known, answer>>

\* The plan, which never changes, and the sums over the period loaded before.
SumUsage(g) ==
    /\ pc[g] = "sum"
    /\ \E row \in loaded[g] :
         LET used == [type \in EventTypes |-> Shown(row, type)]
         IN  Respond(g, 200, {}, {[row |-> row, used |-> used]})
    /\ UNCHANGED <<clock, tables, payload, asked, draft, loaded, known>>

\* The process, the connection or the client of a signup goes away: what is not
\* committed is lost, and the client learns nothing about what is.  A reader
\* that is lost leaves nothing behind; it just stops.
Fail(s) ==
    /\ pc[s] \notin {"done", "failed"}
    /\ Goto(s, "failed")
    /\ UNCHANGED <<clock, tables, payload, asked, draft, loaded, known, answer>>

-----------------------------------------------------------------------------
(* The rest of the service.                                                *)

\* The COMMIT of a call that the enforcer has admitted under row; the event may
\* have been stamped a while ago.  There is still room for it if the tenant has
\* only that row (MeteringQuotaProofs!AdmissionStaysSound); calls admitted under
\* different rows are blind to each other.
Meter(row) ==
    /\ row \in subscriptions
    /\ row.status = "active"
    /\ Cardinality(usage) < MaxUsage
    /\ \E type \in EventTypes, stamp \in 0 .. clock :
       \E quantity \in IF type = "api_call" THEN {1} ELSE Quantities :
           /\ Rows(row.tenant) = {row}
                  => Used(row, type) + quantity <= Limit[row.plan][type]
           /\ usage' = usage \cup
                {[ id |-> Cardinality(usage), tenant |-> row.tenant,
                   event_type |-> type, quantity |-> quantity,
                   timestamp |-> stamp ]}
    /\ UNCHANGED <<clock, billing, tenants, calls>>

\* The COMMIT of a webhook.  A customer whose tenant does not exist is unknown.
Webhook(e) ==
    /\ Feed!Process(e)
    /\ subscriptions' # subscriptions /\ e.type = Checkout
           => e.customer \in tenants
    /\ UNCHANGED <<clock, tenants, usage, calls>>

Tick ==
    /\ clock < MaxClock
    /\ clock' = clock + 1
    /\ UNCHANGED <<tables, calls>>

-----------------------------------------------------------------------------
(* The specification.                                                      *)

Calls == Signups \cup Readers

Init ==
    /\ clock = 0
    /\ tenants = Tenants \ Signups
    /\ plan_type = InitialPlanType
    /\ subscriptions = InitialRows
    /\ usage = {}
    /\ processed = {}
    /\ pc = [c \in Calls |-> "start"]
    /\ payload \in [Signups -> PlanTypes]
    /\ asked \in [Readers -> Question]
    /\ draft = [s \in Signups |-> {}]
    /\ loaded = [g \in Readers |-> {}]
    /\ known = [g \in Readers |-> [tenants |-> {}, usage |-> {}]]
    /\ answer = [c \in Calls |-> NoAnswer]

Signup(s) ==
    CheckPlan(s) \/ InsertTenant(s) \/ CommitSignup(s) \/ ReplyCreated(s)

Read(g) ==
    \/ LoadTenant(g) \/ NoActiveSubscription(g)
    \/ LoadSubscription(g) \/ SumUsage(g)

\* Every call was answered or lost.
Quiescent ==
    /\ \A c \in Calls : pc[c] \in {"done", "failed"}
    /\ UNCHANGED vars

Next ==
    \/ \E s \in Signups : Signup(s) \/ Fail(s)
    \/ \E g \in Readers : Read(g)
    \/ \E row \in subscriptions : Meter(row)
    \/ \E e \in Events : Webhook(e)
    \/ Tick
    \/ Quiescent

Spec == Init /\ [][Next]_vars

-----------------------------------------------------------------------------
(* Properties.                                                             *)

\* Variables have their types, primary keys are unique, and the tenant and the
\* plan of a subscription exist.
TypeOK ==
    /\ clock \in Nat
    /\ tenants \subseteq Tenants
    /\ plan_type \in [Tenants -> PlanTypes]
    /\ subscriptions \subseteq SubscriptionRow
    /\ \A a, b \in subscriptions : a.id = b.id => a = b
    /\ \A row \in subscriptions : row.tenant \in tenants /\ row.plan \in Plans
    /\ usage \subseteq UsageEvent
    /\ \A a, b \in usage : a.id = b.id => a = b
    /\ processed \subseteq EventIds
    /\ pc \in [Calls -> PC]
    /\ payload \in [Signups -> PlanTypes]
    /\ asked \in [Readers -> Question]
    /\ draft \in [Signups -> SUBSET SubscriptionRow]
    /\ loaded \in [Readers -> SUBSET SubscriptionRow]
    /\ known \in [Readers -> [tenants : SUBSET Signups, usage : SUBSET usage]]
    /\ answer \in [Calls -> Answer]

\* Whatever fails half-way, and whatever Stripe says later, a tenant that was
\* signed up has the subscription of the plan it asked for, ACTIVE.
NewTenantIsWhole ==
    \A s \in tenants \cap Signups : \E row \in Active(s) :
        row.id = FirstRow[s] /\ row.plan = payload[s]

\* Once a client has been told of its new tenant, neither the tenant nor its
\* quota status is ever "not found".
CreatedIsFound ==
    \A g \in Readers :
        asked[g].tenant \in known[g].tenants => answer[g].code # 404

\* A status counts all usage that was committed before it was asked for,
\* and nothing that is not committed, although it is read without a lock.
StatusIsRecent ==
    \A g \in Readers : \A status \in answer[g].status : \A type \in EventTypes :
        /\ TotalQuantity(known[g].usage \cap InPeriod(status.row, type))
               <= status.used[type]
        /\ status.used[type] <= Used(status.row, type)

\* The read path and the write path agree: as long as a tenant has only the
\* subscription a status showed, calls get no more than the room it left.
StatusBindsEnforcement ==
    [][\A e \in usage' \ usage, g \in Readers : \A status \in answer[g].status :
          Rows(e.tenant) = {status.row} =>
              status.used[e.event_type] + e.quantity
                  <= Limit[status.row.plan][e.event_type]]_vars
===============================================================================
