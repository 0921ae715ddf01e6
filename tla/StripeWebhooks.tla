---------------------------- MODULE StripeWebhooks ----------------------------
(***************************************************************************)
(* POST /v1/webhooks/stripe: StripeWebhookHandler.handle_event run by      *)
(* concurrent deliveries against PostgreSQL under READ COMMITTED.          *)
(*                                                                         *)
(* As in MeteringEngine, one action is one statement and tables hold       *)
(* committed rows only.  The three handlers load ORM objects without a     *)
(* lock, change them, and leave it to the flush inside commit() to UPDATE  *)
(* the columns whose value differs from the loaded one: first the tenant,  *)
(* then the subscription.  Row locks are not variables, they follow from   *)
(* how far each delivery's flush has got.                                  *)
(***************************************************************************)
EXTENDS StripeEvents

CONSTANTS
    Deliveries,       \* one identity per event Stripe keeps delivering
    Plans,            \* names in the plans table
    InitialRows,      \* subscriptions present at the start
    InitialPlanType,  \* tenants.plan_type at the start
    MaxFailures,      \* bound on crashes, lost connections and lost answers
    MaxClock          \* bound on the clock

Result ==
    { "none", "duplicate_ignored", "ignored_unhandled_type",
      "no_matching_tenant", "no_matching_plan", "no_matching_subscription",
      "subscription_created", "subscription_updated", "subscription_canceled" }

PC == { "start", "dispatch", "plan", "owner", "flush_tenant",
        "flush_subscription", "commit", "reply", "done", "failed" }

TenantImage == [id : Tenants, plan_type : PlanTypes]

ASSUME WebhooksAssumption ==
    /\ Plans \subseteq PlanTypes
    /\ InitialRows \subseteq SubscriptionRow
    /\ \A a, b \in InitialRows : a.id = b.id => a = b
    /\ InitialPlanType \in [Tenants -> PlanTypes]
    /\ \A t \in Tenants : InitialPlanType[t] = "pro" =>
           \E row \in InitialRows : row.tenant = t /\ row.plan = "pro"
    /\ MaxFailures \in Nat
    /\ MaxClock \in Nat

VARIABLES
    clock,          \* datetime.now(timezone.utc)
    processed,      \* table processed_webhooks: the event ids
    subscriptions,  \* table subscriptions
    plan_type,      \* column tenants.plan_type
    pc,             \* where each delivery is
    event,          \* the event it carries
    owner,          \* {} or {the tenant row as it was loaded}
    loaded,         \* {} or {the subscription row as it was loaded}
    wanted,         \* {} or {the subscription object in the session}
    result,         \* what handle_event returns
    failures        \* how many failures there were, up to MaxFailures

tables == <<processed, subscriptions, plan_type>>
session == <<owner, loaded, wanted>>
vars == <<clock, tables, pc, event, session, result, failures>>

Goto(d, label) == pc' = [pc EXCEPT ![d] = label]

Return(d, value) == result' = [result EXCEPT ![d] = value]

\* A handler that has nothing to write returns; commit() keeps the ledger row.
ReturnUnchanged(d, value) ==
    /\ Goto(d, "commit")
    /\ Return(d, value)
    /\ UNCHANGED session

\* COMMIT or ROLLBACK: the session's objects and the locks go.
EndTransaction(d) ==
    /\ owner' = [owner EXCEPT ![d] = {}]
    /\ loaded' = [loaded EXCEPT ![d] = {}]
    /\ wanted' = [wanted EXCEPT ![d] = {}]

-----------------------------------------------------------------------------
(* What each transaction has written, and what the others wait for.        *)

\* The delivery's INSERT into processed_webhooks is not yet committed.
Marked(d) == pc[d] \in { "dispatch", "plan", "owner", "flush_tenant",
                         "flush_subscription", "commit" }

\* The INSERT of an event id waits for a transaction that inserted the same.
MarkMustWait(d) ==
    \E other \in Deliveries \ {d} :
        Marked(other) /\ event[other].id = event[d].id

ChangesTenant(d) ==
    \E t \in owner[d] : t.plan_type # PlanTypeAfter(event[d])

ChangesSubscription(d) == wanted[d] # loaded[d]

TenantLocked(t) ==
    \E other \in Deliveries :
        /\ pc[other] \in {"flush_subscription", "commit"}
        /\ ChangesTenant(other)
        /\ \E image \in owner[other] : image.id = t

\* Updated, or inserted: both make another writer of the same row wait.
SubscriptionLocked(s) ==
    \E other \in Deliveries :
        /\ pc[other] = "commit"
        /\ ChangesSubscription(other)
        /\ \E row \in wanted[other] : row.id = s

\* Mutant: every column is written, as Session.merge or raw SQL would do.
WriteAllColumns(current, old, new) == new

\* UPDATE sets the columns whose value is not the loaded one.
WriteChangedColumns(current, old, new) ==
    [current EXCEPT
        !.status = IF new.status = old.status THEN @ ELSE new.status,
        !.start = IF new.start = old.start THEN @ ELSE new.start,
        !.end = IF new.end = old.end THEN @ ELSE new.end]

-----------------------------------------------------------------------------
(* A delivery, statement by statement.                                     *)

Init ==
    /\ clock = 0
    /\ processed = {}
    /\ subscriptions = InitialRows
    /\ plan_type = InitialPlanType
    /\ pc = [d \in Deliveries |-> "start"]
    /\ event \in [Deliveries -> Events]
    /\ owner = [d \in Deliveries |-> {}]
    /\ loaded = [d \in Deliveries |-> {}]
    /\ wanted = [d \in Deliveries |-> {}]
    /\ result = [d \in Deliveries |-> "none"]
    /\ failures = 0

AlreadyProcessed(d) == event[d].id \in processed

\* Mutant: the ledger row is committed before the handler runs.
MarkAndCommit(d) ==
    /\ pc[d] = "start"
    /\ ~MarkMustWait(d)
    /\ IF AlreadyProcessed(d)
         THEN /\ Goto(d, "reply")
              /\ Return(d, "duplicate_ignored")
              /\ UNCHANGED processed
         ELSE /\ Goto(d, "dispatch")
              /\ processed' = processed \cup {event[d].id}
              /\ UNCHANGED result
    /\ UNCHANGED <<clock, subscriptions, plan_type, event, session, failures>>

\* Mutant: a delivery is skipped as soon as another one has marked its event.
SkipMarked(d) ==
    /\ pc[d] = "start"
    /\ IF AlreadyProcessed(d) \/ MarkMustWait(d)
         THEN Goto(d, "reply") /\ Return(d, "duplicate_ignored")
         ELSE Goto(d, "dispatch") /\ UNCHANGED result
    /\ UNCHANGED <<clock, tables, event, session, failures>>

\* Mutant: the IntegrityError of the ledger row is not caught.
MarkProcessedOrFail(d) ==
    /\ pc[d] = "start"
    /\ ~MarkMustWait(d)
    /\ Goto(d, IF AlreadyProcessed(d) THEN "failed" ELSE "dispatch")
    /\ UNCHANGED <<clock, tables, event, session, result, failures>>

\* _mark_processed_or_skip: INSERT the id, or roll back on its primary key.
MarkProcessedOrSkip(d) ==
    /\ pc[d] = "start"
    /\ ~MarkMustWait(d)
    /\ IF AlreadyProcessed(d)
         THEN Goto(d, "reply") /\ Return(d, "duplicate_ignored")
         ELSE Goto(d, "dispatch") /\ UNCHANGED result
    /\ UNCHANGED <<clock, tables, event, session, failures>>

IgnoreUnhandledType(d) ==
    /\ pc[d] = "dispatch"
    /\ event[d].type \notin {Checkout, Updated, Deleted}
    /\ ReturnUnchanged(d, "ignored_unhandled_type")
    /\ UNCHANGED <<clock, tables, event, failures>>

\* _handle_checkout_completed, first query: the tenant with that customer id.
LoadCustomer(d) ==
    /\ pc[d] = "dispatch"
    /\ event[d].type = Checkout
    /\ LET t == event[d].customer
       IN  IF t \notin Tenants
             THEN ReturnUnchanged(d, "no_matching_tenant")
             ELSE /\ owner' = [owner EXCEPT ![d] =
                       {[id |-> t, plan_type |-> plan_type[t]]}]
                  /\ Goto(d, "plan")
                  /\ UNCHANGED <<loaded, wanted, result>>
    /\ UNCHANGED <<clock, tables, event, failures>>

\* Second query: the pro plan, whatever the price id; then the clock is read
\* and the new row joins the session.
LoadPlan(d) ==
    /\ pc[d] = "plan"
    /\ IF "pro" \notin Plans
         THEN /\ Goto(d, "commit")
              /\ Return(d, "no_matching_plan")
              /\ EndTransaction(d)
         ELSE /\ wanted' = [wanted EXCEPT ![d] = {Bought(event[d], clock)}]
              /\ Goto(d, "flush_tenant")
              /\ Return(d, "subscription_created")
              /\ UNCHANGED <<owner, loaded>>
    /\ UNCHANGED <<clock, tables, event, failures>>

\* _handle_subscription_updated and _deleted: the row with that Stripe id.
LoadSubscription(d) ==
    /\ pc[d] = "dispatch"
    /\ event[d].type \in {Updated, Deleted}
    /\ LET found == {row \in subscriptions : row.id = event[d].subscription}
       IN  IF found = {}
             THEN ReturnUnchanged(d, "no_matching_subscription")
             ELSE /\ loaded' = [loaded EXCEPT ![d] = found]
                  /\ wanted' = [wanted EXCEPT ![d] =
                       {Announced(event[d], row) : row \in found}]
                  /\ IF event[d].type = Deleted
                       THEN Goto(d, "owner") /\ Return(d, "subscription_canceled")
                       ELSE Goto(d, "flush_tenant") /\ Return(d, "subscription_updated")
                  /\ UNCHANGED owner
    /\ UNCHANGED <<clock, tables, event, failures>>

\* _handle_subscription_deleted, second query: the tenant of the row.
LoadOwner(d) ==
    /\ pc[d] = "owner"
    /\ owner' = [owner EXCEPT ![d] =
           {[id |-> row.tenant, plan_type |-> plan_type[row.tenant]] :
                row \in loaded[d]}]
    /\ Goto(d, "flush_tenant")
    /\ UNCHANGED <<clock, tables, event, loaded, wanted, result, failures>>

\* Mutant: the tenant is committed before the subscription is written.
FlushTenantAndCommit(d) ==
    /\ pc[d] = "flush_tenant"
    /\ plan_type' = [t \in Tenants |->
           IF \E image \in owner[d] : image.id = t
             THEN PlanTypeAfter(event[d]) ELSE plan_type[t]]
    /\ Goto(d, "flush_subscription")
    /\ UNCHANGED <<clock, processed, subscriptions, event, session, result, failures>>

\* commit() flushes: UPDATE tenants, unless plan_type was right when loaded.
FlushTenant(d) ==
    /\ pc[d] = "flush_tenant"
    /\ ChangesTenant(d) => \A t \in owner[d] : ~TenantLocked(t.id)
    /\ Goto(d, "flush_subscription")
    /\ UNCHANGED <<clock, tables, event, session, result, failures>>

\* Mutant: stripe_subscription_id is not UNIQUE.
InsertConflictUnseen(d) == FALSE

\* The INSERT of a stripe_subscription_id that some row already has.
InsertConflict(d) ==
    /\ loaded[d] = {}
    /\ \E row \in subscriptions : row.id = event[d].subscription

\* Then INSERT or UPDATE subscriptions.  Nobody catches an IntegrityError here:
\* get_db rolls back, the ledger row included, and the answer is 500.
FlushSubscription(d) ==
    /\ pc[d] = "flush_subscription"
    /\ ChangesSubscription(d) => ~SubscriptionLocked(event[d].subscription)
    /\ IF InsertConflict(d)
         THEN /\ Goto(d, "failed")
              /\ Return(d, "none")
              /\ EndTransaction(d)
         ELSE /\ Goto(d, "commit")
              /\ UNCHANGED <<session, result>>
    /\ UNCHANGED <<clock, tables, event, failures>>

\* The committed row that this transaction updates, if it updates one.
Target(d) == {row \in subscriptions : \E old \in loaded[d] : old.id = row.id}

\* The rows COMMIT publishes in its place.
Written(d) ==
    IF loaded[d] = {}
      THEN wanted[d]
      ELSE { WriteChangedColumns(current, old, new) :
                 current \in Target(d), old \in loaded[d], new \in wanted[d] }

\* Tenants whose plan_type this transaction writes.
WrittenTenants(d) ==
    {t \in Tenants : ChangesTenant(d) /\ \E image \in owner[d] : image.id = t}

\* COMMIT publishes the ledger row together with the effects.
Commit(d) ==
    /\ pc[d] = "commit"
    /\ processed' = processed \cup {event[d].id}
    /\ subscriptions' = (subscriptions \ Target(d)) \cup Written(d)
    /\ plan_type' = [t \in Tenants |-> IF t \in WrittenTenants(d)
                                        THEN PlanTypeAfter(event[d])
                                        ELSE plan_type[t]]
    /\ Goto(d, "reply")
    /\ EndTransaction(d)
    /\ UNCHANGED <<clock, event, result, failures>>

\* 200 reaches Stripe, which stops delivering the event.
Reply(d) ==
    /\ pc[d] = "reply"
    /\ Goto(d, "done")
    /\ UNCHANGED <<clock, tables, event, session, result, failures>>

Step(d) ==
    \/ MarkProcessedOrSkip(d) \/ IgnoreUnhandledType(d) \/ LoadCustomer(d)
    \/ LoadPlan(d) \/ LoadSubscription(d) \/ LoadOwner(d) \/ FlushTenant(d)
    \/ FlushSubscription(d) \/ Commit(d) \/ Reply(d)

\* The process or the connection goes away: what is not committed is lost, and
\* so is the answer.
Fail(d) ==
    /\ failures < MaxFailures
    /\ failures' = failures + 1
    /\ pc[d] \notin {"done", "failed"}
    /\ Goto(d, "failed")
    /\ Return(d, "none")
    /\ EndTransaction(d)
    /\ UNCHANGED <<clock, tables, event>>

\* Stripe delivers an event again for which it has not seen a 2xx answer.
Redeliver(d) ==
    /\ pc[d] = "failed"
    /\ Goto(d, "start")
    /\ UNCHANGED <<clock, tables, event, session, result, failures>>

Tick ==
    /\ clock < MaxClock
    /\ clock' = clock + 1
    /\ UNCHANGED <<tables, pc, event, session, result, failures>>

\* Every delivery was acknowledged.
Quiescent ==
    /\ \A d \in Deliveries : pc[d] = "done"
    /\ UNCHANGED vars

Next ==
    \/ \E d \in Deliveries : Step(d) \/ Fail(d) \/ Redeliver(d)
    \/ Tick
    \/ Quiescent

Spec == Init /\ [][Next]_vars

\* The event loop runs every ready handler and PostgreSQL grants freed locks;
\* Stripe repeats what was not acknowledged.
FairSpec == Spec /\ \A d \in Deliveries : WF_vars(Step(d)) /\ WF_vars(Redeliver(d))

-----------------------------------------------------------------------------
(* Properties.                                                             *)

\* Every variable holds a value of its type, and a stripe_subscription_id has
\* one row.
TypeOK ==
    /\ clock \in 0 .. MaxClock
    /\ processed \subseteq EventIds
    /\ subscriptions \subseteq SubscriptionRow
    /\ \A a, b \in subscriptions : a.id = b.id => a = b
    /\ plan_type \in [Tenants -> PlanTypes]
    /\ pc \in [Deliveries -> PC]
    /\ event \in [Deliveries -> Events]
    /\ owner \in [Deliveries -> SUBSET TenantImage]
    /\ loaded \in [Deliveries -> SUBSET SubscriptionRow]
    /\ wanted \in [Deliveries -> SUBSET SubscriptionRow]
    /\ result \in [Deliveries -> Result]
    /\ failures \in Nat

\* A checkout the handler has to act on.
Sells(e) == e.type = Checkout /\ e.customer \in Tenants /\ "pro" \in Plans

\* The ledger and the effects agree: a processed checkout has its own row, and
\* a row that was not there at the start comes from a processed checkout.  A
\* crash between the two, or a second delivery, would break it.
EveryCheckoutHasItsRow ==
    /\ \A e \in Events : Sells(e) /\ e.id \in processed =>
           \E row \in subscriptions :
               row.id = e.subscription /\ row.tenant = e.customer
    /\ \A e, f \in Events :
           /\ Sells(e) /\ e.id \in processed
           /\ Sells(f) /\ f.id \in processed
           /\ e.subscription = f.subscription
           => e = f
    /\ \A row \in subscriptions :
           \/ \E first \in InitialRows : first.id = row.id
           \/ \E e \in Events : /\ Sells(e) /\ e.id \in processed
                                /\ row.id = e.subscription

\* plan_type and the subscriptions agree as far as they must: a tenant shown as
\* pro has bought a pro subscription at some time.
ProTenantHasProRow ==
    \A t \in Tenants : plan_type[t] = "pro" =>
        \E row \in subscriptions : row.tenant = t /\ row.plan = "pro"

\* Stripe stops delivering an event once it sees 200, so an event that is
\* answered 200, as a duplicate or not, is in the committed ledger.
AcknowledgedIsDurable ==
    \A d \in Deliveries :
        pc[d] \in {"reply", "done"} => event[d].id \in processed

\* test_webhooks.py: an update "syncs status and period dates", and a deletion
\* "correctly downgrades the tenant's plan_type back to "free" and marks the
\* subscription CANCELED": once the delivery that did it has committed, the
\* tables say so.
EventTakesEffect ==
    [][\A d \in Deliveries :
          pc[d] = "commit" /\ pc'[d] = "reply" /\ event[d].type \in {Updated, Deleted}
              => \A row \in subscriptions' : row.id = event[d].subscription
                     => Announced(event[d], row) = row]_vars

Feed == INSTANCE BillingFeed

\* The handler implements the abstract feed: an id is spent in the one step
\* that applies its event, and nothing but announced columns ever changes.
ImplementsFeed == Feed!Spec
===============================================================================
