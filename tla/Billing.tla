-------------------------------- MODULE Billing --------------------------------
(***************************************************************************)
(* The service as one system: calls of POST /v1/usage and deliveries to     *)
(* POST /v1/webhooks/stripe, over one subscriptions table and one           *)
(* connection pool.                                                        *)
(*                                                                         *)
(* The statements are those of MeteringEngine and StripeWebhooks.  What the *)
(* composition adds is where the two wait for each other: the UPDATE a      *)
(* webhook flushes waits for a request's FOR UPDATE lock on that row, a     *)
(* request's FOR UPDATE waits for an UPDATE that is not yet committed, and  *)
(* both wait for the pool.                                                 *)
(***************************************************************************)
EXTENDS StripeEvents, FiniteSets

CONSTANTS
    Requests, Keys, Calls, Owner, Limit, TenantTable,  \* as in MeteringEngine
    PoolSize,
    Deliveries, InitialPlanType, MaxFailures,          \* as in StripeWebhooks
    Plans, InitialRows,                                \* as in both
    Skew,      \* how far Stripe's clock may be ahead of the service's
    MaxClock   \* bound on the clock

ASSUME BillingAssumption ==
    /\ Skew \in Nat
    /\ \A e \in Events : e.type = Checkout /\ e.customer \in Tenants
           => Owner[e.subscription] = e.customer

VARIABLES
    clock, subscriptions,                                  \* shared
    events, records, pc, call, candidates, locked, held,   \* MeteringEngine
    draft, answer,
    processed, plan_type, delivery_pc, event, owner,       \* StripeWebhooks
    loaded, wanted, result, failures,
    connections   \* deliveries that hold a pooled connection

requestVars == <<events, records, pc, call, candidates, locked, held, draft,
                 answer>>
deliveryVars == <<processed, plan_type, delivery_pc, event, owner, loaded,
                  wanted, result, failures, connections>>
vars == <<clock, subscriptions, requestVars, deliveryVars>>

\* Every date a row can come to have: columns are written one by one.
Starts == (0 .. MaxClock) \cup {row.start : row \in InitialRows}
              \cup ({e.start : e \in Events} \ {Absent})
Ends == {now + PeriodLength : now \in 0 .. MaxClock}
            \cup {row.end : row \in InitialRows}
            \cup ({e.end : e \in Events} \ {Absent})

Metering == INSTANCE MeteringEngine
    WITH Backend <- "postgresql",
         StripeStatuses <- SubscriptionStatus,
         Periods <- Starts \X Ends

Hooks == INSTANCE StripeWebhooks WITH pc <- delivery_pc

ASSUME ComponentsAssumption ==
    /\ Metering!ConstantsAssumption
    /\ Hooks!WebhooksAssumption

-----------------------------------------------------------------------------
(* Where the two wait for each other.                                      *)

ConnectionAvailable ==
    Cardinality(Metering!Connected) + Cardinality(connections) < PoolSize

\* Mutant: the handler's statements do not wait for row locks.
NeverHeldByRequest(d) == FALSE

\* The UPDATE of delivery d waits for a FOR UPDATE lock.
HeldByRequest(d) ==
    /\ loaded[d] # {}
    /\ Hooks!ChangesSubscription(d)
    /\ \E r \in Requests : event[d].subscription \in locked[r]

\* Mutant: SKIP LOCKED and FOR UPDATE do not see the uncommitted UPDATE.
NeverBeingUpdated(s) == FALSE

\* A request's FOR UPDATE of row s waits for an uncommitted UPDATE of it.
BeingUpdated(s) == Hooks!SubscriptionLocked(s)

\* Stripe announces a period when it begins, by Stripe's clock.
Due(e) == e.start <= clock + Skew

-----------------------------------------------------------------------------
(* The composed system.                                                    *)

Init ==
    /\ Metering!Init
    /\ Hooks!Init
    /\ connections = {}

\* The first statement of a delivery takes a connection, and then may wait.
Connect(d) ==
    /\ delivery_pc[d] = "start"
    /\ d \notin connections
    /\ Due(event[d])
    /\ ConnectionAvailable
    /\ connections' = connections \cup {d}
    /\ UNCHANGED <<clock, subscriptions, requestVars, processed, plan_type,
                   delivery_pc, event, owner, loaded, wanted, result, failures>>

\* Mutant: get_db does not close the session of a webhook.
KeepConnection(d) == UNCHANGED connections

\* COMMIT, ROLLBACK and close() give the connection back.
ReturnConnection(d) ==
    connections' = IF delivery_pc'[d] \in {"reply", "failed"}
                     THEN connections \ {d}
                     ELSE connections

Request(r) ==
    /\ \/ ConnectionAvailable /\ (Metering!LoadTenant(r) \/ Metering!ReadWinner(r))
       \/ Metering!ReplayStored(r)
       \/ Metering!CheckTenant(r)
       \/ Metering!SelectSubscription(r)
       \/ \E c \in candidates[r] :
              ~BeingUpdated(c.id) /\ (Metering!LockRow(r, c) \/ Metering!PassOver(r, c))
       \/ Metering!NoSubscription(r)
       \/ Metering!SumUsage(r)
       \/ Metering!InsertEvent(r)
       \/ Metering!Commit(r)
       \/ Metering!ReplyCreated(r)
       \/ Metering!AbortDeadlocked(r)
    /\ UNCHANGED deliveryVars

FailRequest(r) == Metering!Fail(r) /\ UNCHANGED deliveryVars

Delivery(d) ==
    /\ \/ d \in connections /\ Hooks!MarkProcessedOrSkip(d)
       \/ Hooks!IgnoreUnhandledType(d)
       \/ Hooks!LoadCustomer(d)
       \/ Hooks!LoadPlan(d)
       \/ Hooks!LoadSubscription(d)
       \/ Hooks!LoadOwner(d)
       \/ Hooks!FlushTenant(d)
       \/ ~HeldByRequest(d) /\ Hooks!FlushSubscription(d)
       \/ Hooks!Commit(d)
       \/ Hooks!Reply(d)
    /\ ReturnConnection(d)
    /\ UNCHANGED requestVars

FailDelivery(d) ==
    /\ Hooks!Fail(d)
    /\ ReturnConnection(d)
    /\ UNCHANGED requestVars

Redeliver(d) == Hooks!Redeliver(d) /\ UNCHANGED <<requestVars, connections>>

Tick ==
    /\ clock < MaxClock
    /\ clock' = clock + 1
    /\ UNCHANGED <<subscriptions, requestVars, deliveryVars>>

\* Every call was answered or lost and every event acknowledged.
Quiescent ==
    /\ \A r \in Requests : pc[r] \in {"done", "failed"}
    /\ \A d \in Deliveries : delivery_pc[d] = "done"
    /\ UNCHANGED vars

Next ==
    \/ \E r \in Requests : Request(r) \/ FailRequest(r)
    \/ \E d \in Deliveries :
           Connect(d) \/ Delivery(d) \/ FailDelivery(d) \/ Redeliver(d)
    \/ Tick
    \/ Quiescent

Spec == Init /\ [][Next]_vars

\* The event loop, the pool and PostgreSQL serve whoever can go on; Stripe
\* repeats what was not acknowledged.
FairSpec ==
    /\ Spec
    /\ \A r \in Requests : WF_vars(Request(r))
    /\ \A d \in Deliveries :
           WF_vars(Connect(d) \/ Delivery(d)) /\ WF_vars(Redeliver(d))

-----------------------------------------------------------------------------
(* Properties.                                                             *)

\* Both components keep their types, and only a delivery whose transaction is
\* open or about to open has a connection: none leaks from the pool.
TypeOK ==
    /\ Metering!TypeOK
    /\ Hooks!TypeOK
    /\ connections \subseteq Deliveries
    /\ \A d \in connections : delivery_pc[d] \notin {"reply", "done", "failed"}
    /\ Cardinality(Metering!Connected) + Cardinality(connections) <= PoolSize

\* What makes quota checks sound is the row lock, and webhooks respect it at
\* the granularity of their statements, not just as one atomic change.
AdmissionSound == Metering!AdmissionSound
TenantSerialised == Metering!TenantSerialised
LockedRowIsCurrent == Metering!LockedRowIsCurrent

\* The periods Stripe bills for subscription s.
BilledPeriods(s) ==
    {<<row.start, row.end>> : row \in {x \in InitialRows : x.id = s}} \cup
    {<<e.start, e.end>> :
        e \in {x \in Events : /\ x.type = Updated /\ x.subscription = s
                              /\ Absent \notin {x.start, x.end}}}

\* The dates on which periods of subscription s begin, as far as Stripe says.
BilledStarts(s) ==
    {row.start : row \in {x \in InitialRows : x.id = s}} \cup
    ({e.start : e \in {x \in Events : x.type = Updated /\ x.subscription = s}}
         \ {Absent})

UsedBetween(row, start, end, type) ==
    Metering!Used([row EXCEPT !.start = start, !.end = end], type)

\* A row still in the period the handler guessed at checkout does not count
\* what its tenant used before the checkout.
CountedFrom(row, start) ==
    IF row.start \in BilledStarts(row.id) \/ row.start <= start
      THEN start
      ELSE row.start

\* However many rows a tenant has, and however late, twice or out of order their
\* periods are announced: the call that commits leaves the period its usage
\* falls into, not only the one its row showed, within the limit of its plan.
CommitsStayWithinLimit ==
    [][\A r \in Requests : \A row \in held[r], e \in draft[r] :
          pc[r] = "inserted" /\ pc'[r] = "reply" =>
            \A period \in BilledPeriods(row.id) :
              period[1] <= e.timestamp /\ e.timestamp < period[2] =>
                UsedBetween(row, CountedFrom(row, period[1]), period[2], e.event_type)'
                  <= Limit[row.plan][e.event_type]]_vars

OnlySubscription(s) ==
    \A other \in Subscriptions : Owner[other] = Owner[s] => other = s

\* Of every period Stripe bills for the only subscription of a tenant, past ones
\* and those announced late, twice or out of order included, the tenant gets no
\* more than the plan's limit.
NoPeriodOversold ==
    \A row \in subscriptions, type \in Metering!EventTypes :
        OnlySubscription(row.id) =>
            \A period \in BilledPeriods(row.id) :
                UsedBetween(row, period[1], period[2], type) <= Limit[row.plan][type]

\* Usage is billed under what the webhooks have committed by then: an ACTIVE
\* subscription of the tenant, on the plan the response names.
BilledAsSubscribed ==
    [][\A e \in events' \ events :
          \E row \in subscriptions, rec \in records' :
              /\ row.tenant = e.tenant /\ row.status = "active"
              /\ rec.key = e.key /\ rec.body.plan = row.plan]_vars

\* Nobody starves, although calls and deliveries share pool and row locks.
EveryCallEnds == Metering!EveryCallEnds
EveryEventProcessed ==
    \A d \in Deliveries :
        <>(delivery_pc[d] = "done" /\ event[d].id \in processed)

\* Seen from POST /v1/usage a delivery is one step of its environment: at its
\* COMMIT one row appears or changes that no request has locked.  What holds of
\* MeteringEngine with atomic webhooks therefore holds of the service.
ImplementsMetering == Metering!Spec
===============================================================================
