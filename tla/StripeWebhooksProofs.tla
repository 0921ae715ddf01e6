------------------------- MODULE StripeWebhooksProofs -------------------------
(***************************************************************************)
(* What StripeWebhooks guarantees for every set of events, tenants and     *)
(* subscriptions and any number of deliveries and failures.                *)
(***************************************************************************)
EXTENDS StripeWebhooks, TLAPS

-----------------------------------------------------------------------------
(* What an event announces.                                                *)

LEMMA StatusForType ==
    ASSUME NEW s \in StripeStatus, NEW current \in SubscriptionStatus
    PROVE  StatusFor(s, current) \in SubscriptionStatus
  BY DEF StatusFor, StripeStatus, SubscriptionStatus, ACTIVE_STRIPE_STATUSES,
         TERMINAL_STRIPE_STATUSES

\* A status the code knows is announced whatever the row says now.
LEMMA StatusForKnown ==
    ASSUME NEW s \in StripeStatus, NEW old \in SubscriptionStatus,
           NEW current \in SubscriptionStatus, StatusFor(s, old) # old
    PROVE  StatusFor(s, current) = StatusFor(s, old)
  BY DEF StatusFor, StripeStatus, ACTIVE_STRIPE_STATUSES,
         TERMINAL_STRIPE_STATUSES

LEMMA AnnouncedType ==
    ASSUME NEW e \in Event, NEW row \in SubscriptionRow
    PROVE  /\ Announced(e, row) \in SubscriptionRow
           /\ Announced(e, row).id = row.id
           /\ Announced(e, row).tenant = row.tenant
           /\ Announced(e, row).plan = row.plan
<1>1. StatusFor(e.status, row.status) \in SubscriptionStatus
  BY StatusForType DEF Event, SubscriptionRow
<1>2. DateFor(e.start, row.start) \in Nat /\ DateFor(e.end, row.end) \in Nat
  BY DEF DateFor, Event, SubscriptionRow
<1> QED BY <1>1, <1>2 DEF Announced, SubscriptionRow, SubscriptionStatus

LEMMA BoughtType ==
    ASSUME NEW e \in Event, e.customer \in Tenants, NEW now \in Nat
    PROVE  Bought(e, now) \in SubscriptionRow
  BY EventsAssumption
     DEF Bought, Event, SubscriptionRow, SubscriptionStatus, PlanTypes

\* An UPDATE of the changed columns writes announced values only.
LEMMA WriteAnnounced ==
    ASSUME NEW e \in Event, NEW old \in SubscriptionRow,
           NEW current \in SubscriptionRow
    PROVE  \E status \in {current.status, Announced(e, current).status},
              start \in {current.start, Announced(e, current).start},
              end \in {current.end, Announced(e, current).end} :
             /\ WriteChangedColumns(current, old, Announced(e, old)) =
                  [current EXCEPT !.status = status, !.start = start, !.end = end]
             /\ status \in SubscriptionStatus /\ start \in Nat /\ end \in Nat
<1> DEFINE new == Announced(e, old)
           status == IF new.status = old.status THEN current.status ELSE new.status
           start == IF new.start = old.start THEN current.start ELSE new.start
           end == IF new.end = old.end THEN current.end ELSE new.end
<1>1. status \in {current.status, Announced(e, current).status}
  <2>1. CASE e.type = Deleted
    BY <2>1 DEF Announced, SubscriptionRow
  <2>2. CASE e.type # Deleted
    <3>1. new.status = StatusFor(e.status, old.status)
      BY <2>2 DEF Announced, SubscriptionRow
    <3>2. Announced(e, current).status = StatusFor(e.status, current.status)
      BY <2>2 DEF Announced, SubscriptionRow
    <3> QED BY <3>1, <3>2, StatusForKnown DEF Event, SubscriptionRow
  <2> QED BY <2>1, <2>2
<1>2. start \in {current.start, Announced(e, current).start}
  BY DEF Announced, SubscriptionRow, DateFor
<1>3. end \in {current.end, Announced(e, current).end}
  BY DEF Announced, SubscriptionRow, DateFor
<1>4. WriteChangedColumns(current, old, new) =
        [current EXCEPT !.status = status, !.start = start, !.end = end]
  BY DEF WriteChangedColumns, SubscriptionRow
<1>5. status \in SubscriptionStatus /\ start \in Nat /\ end \in Nat
  BY AnnouncedType DEF SubscriptionRow
<1> HIDE DEF new, status, start, end
<1> QED BY <1>1, <1>2, <1>3, <1>4, <1>5 DEF new

-----------------------------------------------------------------------------
(* The inductive invariant: who may hold an event's id, what a session's    *)
(* objects have to do with its event, and that loaded rows still exist.     *)

\* An uncommitted ledger row is the only one for its event.
MarkInv ==
    \A d \in Deliveries : Marked(d) =>
        /\ event[d].id \notin processed
        /\ \A other \in Deliveries :
               Marked(other) /\ event[other].id = event[d].id => other = d

\* The session holds nothing, a row to insert, or a loaded row and what its
\* event makes of it.
SessionInv ==
    \A d \in Deliveries :
        /\ ~Marked(d) \/ pc[d] = "dispatch" =>
               owner[d] = {} /\ loaded[d] = {} /\ wanted[d] = {}
        /\ pc[d] = "plan" => event[d].type = Checkout
        /\ pc[d] = "owner" => event[d].type = Deleted
        /\ loaded[d] # {} => event[d].type \in {Updated, Deleted}
        /\ \A a, b \in loaded[d] : a = b
        /\ \A old \in loaded[d] : old.id = event[d].subscription
        /\ loaded[d] # {} => wanted[d] = {Announced(event[d], old) : old \in loaded[d]}
        /\ \A a, b \in wanted[d] : a = b
        /\ loaded[d] = {} => \A new \in wanted[d] :
               Sells(event[d]) /\ \E now \in 0 .. clock : new = Bought(event[d], now)

\* The tenant in the session is the one the event is about, and the flush
\* never writes it alone.
OwnerInv ==
    \A d \in Deliveries :
        /\ \A t \in owner[d] :
               \/ event[d].type = Checkout /\ t.id = event[d].customer
               \/ /\ event[d].type = Deleted
                  /\ \E old \in loaded[d] : t.id = old.tenant
        /\ owner[d] # {} /\ event[d].type = Checkout =>
               pc[d] = "plan" \/ wanted[d] # {}
        /\ pc[d] = "plan" => Sells(event[d]) \/ "pro" \notin Plans
        /\ pc[d] \in {"flush_tenant", "flush_subscription", "commit"}
               /\ Sells(event[d]) => wanted[d] # {}

\* Rows are never deleted, and keep id, tenant and plan.
LoadedInv ==
    \A d \in Deliveries : \A old \in loaded[d] :
        \E row \in subscriptions :
            row.id = old.id /\ row.tenant = old.tenant /\ row.plan = old.plan

\* A row that is inserted and not committed is the only one with its id.
InsertInv ==
    \A d \in Deliveries :
        pc[d] = "commit" /\ loaded[d] = {} /\ wanted[d] # {} =>
            /\ \A row \in subscriptions : row.id # event[d].subscription
            /\ \A other \in Deliveries :
                   /\ pc[other] = "commit" /\ loaded[other] = {} /\ wanted[other] # {}
                   /\ event[other].subscription = event[d].subscription
                   => other = d

WebhookInv ==
    /\ MarkInv
    /\ SessionInv
    /\ OwnerInv
    /\ LoadedInv
    /\ InsertInv

-----------------------------------------------------------------------------
(* What COMMIT does to the tables.                                          *)

NothingWritten == UNCHANGED <<subscriptions, plan_type>>

SetsPlanType(t, e) ==
    \/ plan_type' = [plan_type EXCEPT ![t] = PlanTypeAfter(e)]
    \/ UNCHANGED plan_type

RowInserted(e) ==
    /\ Sells(e)
    /\ \A row \in subscriptions : row.id # e.subscription
    /\ \E now \in 0 .. clock : subscriptions' = subscriptions \cup {Bought(e, now)}
    /\ SetsPlanType(e.customer, e)

RowUpdated(e) ==
    /\ e.type \in {Updated, Deleted}
    /\ \E row \in subscriptions :
         /\ row.id = e.subscription
         /\ \E status \in {row.status, Announced(e, row).status},
               start \in {row.start, Announced(e, row).start},
               end \in {row.end, Announced(e, row).end} :
              /\ status \in SubscriptionStatus /\ start \in Nat /\ end \in Nat
              /\ subscriptions' = (subscriptions \ {row}) \cup
                   {[row EXCEPT !.status = status, !.start = start, !.end = end]}
         /\ IF e.type = Deleted THEN SetsPlanType(row.tenant, e)
                                ELSE UNCHANGED plan_type

\* A COMMIT that writes some tenant writes the one tenant t.
LEMMA CommitPlanType ==
    ASSUME TypeOK, NEW d \in Deliveries, Commit(d), NEW t \in Tenants,
           \A image \in owner[d] : image.id = t
    PROVE  SetsPlanType(t, event[d])
<1>1. WrittenTenants(d) \in {{}, {t}}
  BY DEF WrittenTenants
<1>2. plan_type' = [u \in Tenants |-> IF u \in WrittenTenants(d)
                                      THEN PlanTypeAfter(event[d])
                                      ELSE plan_type[u]]
  BY DEF Commit
<1>3. plan_type \in [Tenants -> PlanTypes]
  BY DEF TypeOK
<1>4. CASE WrittenTenants(d) = {}
  BY <1>2, <1>3, <1>4 DEF SetsPlanType
<1>5. CASE WrittenTenants(d) = {t}
  BY <1>2, <1>3, <1>5 DEF SetsPlanType
<1> QED BY <1>1, <1>4, <1>5

\* A COMMIT without a tenant in its session writes none.
LEMMA CommitNoPlanType ==
    ASSUME TypeOK, NEW d \in Deliveries, Commit(d), owner[d] = {}
    PROVE  UNCHANGED plan_type
<1>1. WrittenTenants(d) = {}
  BY DEF WrittenTenants
<1> QED BY <1>1 DEF Commit, TypeOK

LEMMA CommitEffect ==
    ASSUME TypeOK, WebhookInv, NEW d \in Deliveries, Commit(d)
    PROVE  \/ NothingWritten /\ ~Sells(event[d])
           \/ loaded[d] = {} /\ wanted[d] # {} /\ RowInserted(event[d])
           \/ RowUpdated(event[d])
<1> DEFINE e == event[d]
<1>1. e \in Event
  BY EventsAssumption DEF TypeOK
<1>2. pc[d] = "commit" /\ subscriptions' = (subscriptions \ Target(d)) \cup Written(d)
  BY DEF Commit
<1>3. CASE loaded[d] = {} /\ wanted[d] = {}
  <2>1. owner[d] = {}
    BY <1>2, <1>3 DEF WebhookInv, OwnerInv
  <2>2. UNCHANGED plan_type
    BY <2>1, CommitNoPlanType
  <2>3. ~Sells(e)
    BY <1>2, <1>3 DEF WebhookInv, OwnerInv
  <2> QED BY <1>2, <1>3, <2>2, <2>3 DEF NothingWritten, Target, Written
<1>4. CASE loaded[d] = {} /\ wanted[d] # {}
  <2>1. PICK now \in 0 .. clock : wanted[d] = {Bought(e, now)} /\ Sells(e)
    BY <1>4 DEF WebhookInv, SessionInv
  <2>2. subscriptions' = subscriptions \cup {Bought(e, now)}
    BY <1>2, <1>4, <2>1 DEF Target, Written
  <2>3. \A row \in subscriptions : row.id # e.subscription
    BY <1>2, <1>4 DEF WebhookInv, InsertInv
  <2>4. \A image \in owner[d] : image.id = e.customer
    BY <1>4 DEF WebhookInv, OwnerInv
  <2>5. SetsPlanType(e.customer, e)
    BY <2>1, <2>4, CommitPlanType DEF Sells
  <2> QED BY <1>4, <2>1, <2>2, <2>3, <2>5 DEF RowInserted
<1>5. CASE loaded[d] # {}
  <2>1. PICK old : loaded[d] = {old}
    <3>1. \A a, b \in loaded[d] : a = b
      BY DEF WebhookInv, SessionInv
    <3> QED BY <1>5, <3>1
  <2>2. /\ e.type \in {Updated, Deleted}
        /\ old.id = e.subscription
        /\ wanted[d] = {Announced(e, old)}
        /\ old \in SubscriptionRow
    BY <2>1 DEF WebhookInv, SessionInv, TypeOK
  <2>3. PICK row \in subscriptions : row.id = old.id /\ row.tenant = old.tenant
    BY <2>1 DEF WebhookInv, LoadedInv
  <2>4. row \in SubscriptionRow /\ Target(d) = {row}
    BY <2>1, <2>3 DEF TypeOK, Target
  <2>5. Written(d) = {WriteChangedColumns(row, old, Announced(e, old))}
    BY <2>1, <2>2, <2>4 DEF Written
  <2>6. \E status \in {row.status, Announced(e, row).status},
           start \in {row.start, Announced(e, row).start},
           end \in {row.end, Announced(e, row).end} :
          /\ status \in SubscriptionStatus /\ start \in Nat /\ end \in Nat
          /\ subscriptions' = (subscriptions \ {row}) \cup
               {[row EXCEPT !.status = status, !.start = start, !.end = end]}
    <3> DEFINE new == WriteChangedColumns(row, old, Announced(e, old))
    <3>1. PICK status \in {row.status, Announced(e, row).status},
               start \in {row.start, Announced(e, row).start},
               end \in {row.end, Announced(e, row).end} :
            /\ new = [row EXCEPT !.status = status, !.start = start, !.end = end]
            /\ status \in SubscriptionStatus /\ start \in Nat /\ end \in Nat
      BY <1>1, <2>2, <2>4, WriteAnnounced
    <3>2. subscriptions' = (subscriptions \ {row}) \cup {new}
      BY <1>2, <2>4, <2>5
    <3> HIDE DEF new
    <3> QED BY <3>1, <3>2
  <2>7. CASE e.type = Deleted
    <3>1. \A image \in owner[d] : image.id = row.tenant
      BY <2>1, <2>3, <2>7 DEF WebhookInv, OwnerInv, Deleted, Checkout
    <3>2. SetsPlanType(row.tenant, e)
      BY <2>4, <3>1, CommitPlanType DEF SubscriptionRow
    <3> QED BY <2>2, <2>3, <2>6, <2>7, <3>2 DEF RowUpdated
  <2>8. CASE e.type = Updated
    <3>1. owner[d] = {}
      BY <2>8 DEF WebhookInv, OwnerInv, Updated, Deleted, Checkout
    <3>2. UNCHANGED plan_type
      BY <3>1, CommitNoPlanType
    <3> QED BY <2>2, <2>3, <2>6, <2>8, <3>2 DEF RowUpdated, Updated, Deleted
  <2> QED BY <2>2, <2>7, <2>8
<1> QED BY <1>3, <1>4, <1>5

\* A COMMIT whose session object equals the loaded row writes no column.
LEMMA CommitWithoutChange ==
    ASSUME TypeOK, WebhookInv, NEW d \in Deliveries, Commit(d),
           ~ChangesSubscription(d)
    PROVE  UNCHANGED subscriptions
<1>1. subscriptions' = (subscriptions \ Target(d)) \cup Written(d)
  BY DEF Commit
<1>2. wanted[d] = loaded[d]
  BY DEF ChangesSubscription
<1>3. CASE loaded[d] = {}
  BY <1>1, <1>2, <1>3 DEF Target, Written
<1>4. CASE loaded[d] # {}
  <2>1. PICK old : loaded[d] = {old}
    <3>1. \A a, b \in loaded[d] : a = b
      BY DEF WebhookInv, SessionInv
    <3> QED BY <1>4, <3>1
  <2>2. PICK row \in subscriptions : row.id = old.id
    BY <2>1 DEF WebhookInv, LoadedInv
  <2>3. row \in SubscriptionRow /\ Target(d) = {row}
    BY <2>1, <2>2 DEF TypeOK, Target
  <2>4. WriteChangedColumns(row, old, old) = row
    BY <2>3 DEF WriteChangedColumns, SubscriptionRow
  <2>5. Written(d) = {WriteChangedColumns(row, old, old)}
    BY <1>2, <2>1, <2>3 DEF Written
  <2> QED BY <1>1, <2>3, <2>4, <2>5
<1> QED BY <1>3, <1>4

\* COMMIT keeps the tables well-formed, and every row's id, tenant and plan.
LEMMA CommitTables ==
    ASSUME TypeOK, WebhookInv, NEW d \in Deliveries, Commit(d)
    PROVE  /\ subscriptions' \subseteq SubscriptionRow
           /\ \A a, b \in subscriptions' : a.id = b.id => a = b
           /\ plan_type' \in [Tenants -> PlanTypes]
           /\ \A row \in subscriptions : \E new \in subscriptions' :
                  new.id = row.id /\ new.tenant = row.tenant /\ new.plan = row.plan
           /\ \A new \in subscriptions' :
                  \/ \E row \in subscriptions : row.id = new.id
                  \/ /\ loaded[d] = {} /\ wanted[d] # {}
                     /\ new.id = event[d].subscription
<1> DEFINE e == event[d]
<1>1. e \in Event
  BY EventsAssumption DEF TypeOK
<1>2. \A t \in Tenants : SetsPlanType(t, e) => plan_type' \in [Tenants -> PlanTypes]
  BY DEF SetsPlanType, TypeOK, PlanTypeAfter, PlanTypes
<1>3. CASE NothingWritten
  BY <1>3 DEF NothingWritten, TypeOK
<1>4. CASE loaded[d] = {} /\ wanted[d] # {} /\ RowInserted(e)
  <2>1. PICK now \in 0 .. clock : subscriptions' = subscriptions \cup {Bought(e, now)}
    BY <1>4 DEF RowInserted
  <2>2. e.customer \in Tenants
    BY <1>4 DEF RowInserted, Sells
  <2>3. Bought(e, now) \in SubscriptionRow
    BY <1>1, <2>2, BoughtType, WebhooksAssumption
  <2>4. Bought(e, now).id = e.subscription
    BY DEF Bought
  <2>5. \A row \in subscriptions : row.id # e.subscription
    BY <1>4 DEF RowInserted
  <2>6. plan_type' \in [Tenants -> PlanTypes]
    BY <1>2, <1>4, <2>2 DEF RowInserted
  <2> QED BY <1>4, <2>1, <2>3, <2>4, <2>5, <2>6 DEF TypeOK
<1>5. CASE RowUpdated(e)
  <2>1. PICK row \in subscriptions, status \in SubscriptionStatus, start \in Nat,
             end \in Nat :
          /\ subscriptions' = (subscriptions \ {row}) \cup
               {[row EXCEPT !.status = status, !.start = start, !.end = end]}
          /\ IF e.type = Deleted THEN SetsPlanType(row.tenant, e)
                                 ELSE UNCHANGED plan_type
    BY <1>5 DEF RowUpdated
  <2> DEFINE new == [row EXCEPT !.status = status, !.start = start, !.end = end]
  <2>2. row \in SubscriptionRow
    BY DEF TypeOK
  <2>3. /\ new \in SubscriptionRow
        /\ new.id = row.id /\ new.tenant = row.tenant /\ new.plan = row.plan
    BY <2>2 DEF SubscriptionRow
  <2>4. plan_type' \in [Tenants -> PlanTypes]
    BY <1>2, <2>1, <2>2 DEF SubscriptionRow, TypeOK
  <2>5. subscriptions' = (subscriptions \ {row}) \cup {new}
    BY <2>1
  <2> HIDE DEF new
  <2> QED BY <2>2, <2>3, <2>4, <2>5 DEF TypeOK
<1> QED BY <1>3, <1>4, <1>5, CommitEffect

-----------------------------------------------------------------------------
(* Type correctness.                                                        *)

LEMMA StepType ==
    ASSUME TypeOK, WebhookInv, NEW d \in Deliveries,
           Step(d) \/ Fail(d) \/ Redeliver(d)
    PROVE  TypeOK'
<1> event[d] \in Event
  BY EventsAssumption DEF TypeOK
<1> USE DEF tables, session, Goto, Return, EndTransaction, ReturnUnchanged
<1>1. CASE MarkProcessedOrSkip(d)
  BY <1>1 DEF MarkProcessedOrSkip, TypeOK, PC, Result
<1>2. CASE IgnoreUnhandledType(d)
  BY <1>2 DEF IgnoreUnhandledType, TypeOK, PC, Result
<1>3. CASE LoadCustomer(d)
  <2>1. CASE event[d].customer \notin Tenants
    BY <1>3, <2>1 DEF LoadCustomer, TypeOK, PC, Result
  <2>2. CASE event[d].customer \in Tenants
    <3> DEFINE image == [ id |-> event[d].customer,
                          plan_type |-> plan_type[event[d].customer] ]
    <3>1. image \in TenantImage
      BY <2>2 DEF TenantImage, TypeOK
    <3>2. owner' = [owner EXCEPT ![d] = {image}]
      BY <1>3, <2>2 DEF LoadCustomer
    <3> HIDE DEF image
    <3> QED BY <1>3, <2>2, <3>1, <3>2 DEF LoadCustomer, TypeOK, PC
  <2> QED BY <2>1, <2>2
<1>4. CASE LoadPlan(d)
  <2>1. CASE "pro" \notin Plans
    BY <1>4, <2>1 DEF LoadPlan, TypeOK, PC, Result
  <2>2. CASE "pro" \in Plans
    <3> DEFINE new == Bought(event[d], clock)
    <3>1. Sells(event[d])
      BY <1>4, <2>2 DEF LoadPlan, WebhookInv, OwnerInv
    <3>2. new \in SubscriptionRow
      BY <3>1, BoughtType, WebhooksAssumption DEF Sells, TypeOK
    <3>3. wanted' = [wanted EXCEPT ![d] = {new}]
      BY <1>4, <2>2 DEF LoadPlan
    <3> HIDE DEF new
    <3> QED BY <1>4, <2>2, <3>2, <3>3 DEF LoadPlan, TypeOK, PC, Result
  <2> QED BY <2>1, <2>2
<1>5. CASE LoadSubscription(d)
  <2> DEFINE found == {row \in subscriptions : row.id = event[d].subscription}
  <2>1. CASE found = {}
    BY <1>5, <2>1 DEF LoadSubscription, TypeOK, PC, Result
  <2>2. CASE found # {}
    <3>1. found \subseteq SubscriptionRow
      BY DEF TypeOK
    <3>2. {Announced(event[d], row) : row \in found} \subseteq SubscriptionRow
      BY <3>1, AnnouncedType
    <3>3. /\ loaded' = [loaded EXCEPT ![d] = found]
          /\ wanted' = [wanted EXCEPT ![d] = {Announced(event[d], row) : row \in found}]
      BY <1>5, <2>2 DEF LoadSubscription
    <3>4. /\ pc' \in [Deliveries -> PC]
          /\ result' \in [Deliveries -> Result]
          /\ UNCHANGED <<clock, tables, event, owner, failures>>
      BY <1>5, <2>2 DEF LoadSubscription, TypeOK, PC, Result
    <3> HIDE DEF found
    <3> QED BY <3>1, <3>2, <3>3, <3>4 DEF TypeOK
  <2> QED BY <2>1, <2>2
<1>6. CASE LoadOwner(d)
  <2> DEFINE images == {[id |-> row.tenant, plan_type |-> plan_type[row.tenant]] :
                            row \in loaded[d]}
  <2>1. images \subseteq TenantImage
    BY DEF TypeOK, TenantImage, SubscriptionRow
  <2>2. owner' = [owner EXCEPT ![d] = images]
    BY <1>6 DEF LoadOwner
  <2> HIDE DEF images
  <2> QED BY <1>6, <2>1, <2>2 DEF LoadOwner, TypeOK, PC
<1>7. CASE FlushTenant(d)
  BY <1>7 DEF FlushTenant, TypeOK, PC
<1>8. CASE FlushSubscription(d)
  BY <1>8 DEF FlushSubscription, TypeOK, PC, Result
<1>9. CASE Commit(d)
  <2>1. processed' \subseteq EventIds
    BY <1>9 DEF Commit, TypeOK, Event
  <2> QED BY <1>9, <2>1, CommitTables DEF Commit, TypeOK, PC
<1>10. CASE Reply(d)
  BY <1>10 DEF Reply, TypeOK, PC
<1>11. CASE Fail(d)
  BY <1>11 DEF Fail, TypeOK, PC, Result
<1>12. CASE Redeliver(d)
  BY <1>12 DEF Redeliver, TypeOK, PC
<1> QED
  BY <1>1, <1>2, <1>3, <1>4, <1>5, <1>6, <1>7, <1>8, <1>9, <1>10, <1>11, <1>12
     DEF Step

LEMMA InitType == Init => TypeOK
  BY WebhooksAssumption DEF Init, TypeOK, PC, Result

LEMMA NextType ==
    ASSUME TypeOK, WebhookInv, [Next]_vars
    PROVE  TypeOK'
<1>1. CASE UNCHANGED vars
  BY <1>1 DEF vars, tables, session, TypeOK
<1>2. CASE Tick
  BY <1>2, WebhooksAssumption DEF Tick, tables, session, TypeOK
<1> QED BY <1>1, <1>2, StepType DEF Next, Quiescent

-----------------------------------------------------------------------------
(* The invariant is inductive.                                              *)

LEMMA StepInv ==
    ASSUME TypeOK, WebhookInv, NEW d \in Deliveries,
           Step(d) \/ Fail(d) \/ Redeliver(d)
    PROVE  WebhookInv'
<1> USE DEF TypeOK, Marked, tables, session, Goto, Return, EndTransaction,
            ReturnUnchanged, WebhookInv
<1>1. CASE MarkProcessedOrSkip(d)
  <2>1. MarkInv'
    BY <1>1 DEF MarkProcessedOrSkip, MarkInv, AlreadyProcessed, MarkMustWait
  <2>2. SessionInv'
    BY <1>1 DEF MarkProcessedOrSkip, SessionInv, Sells, Checkout, Updated, Deleted
  <2>3. OwnerInv'
    BY <1>1 DEF MarkProcessedOrSkip, OwnerInv, SessionInv, Sells, Checkout, Updated, Deleted
  <2>4. LoadedInv'
    BY <1>1 DEF MarkProcessedOrSkip, LoadedInv, SessionInv
  <2>5. InsertInv'
    BY <1>1 DEF MarkProcessedOrSkip, InsertInv, SessionInv
  <2> QED BY <2>1, <2>2, <2>3, <2>4, <2>5
<1>2. CASE IgnoreUnhandledType(d)
  <2>1. MarkInv'
    BY <1>2 DEF IgnoreUnhandledType, MarkInv
  <2>2. SessionInv'
    BY <1>2 DEF IgnoreUnhandledType, SessionInv, Sells, Checkout, Updated, Deleted
  <2>3. OwnerInv'
    BY <1>2 DEF IgnoreUnhandledType, OwnerInv, SessionInv, Sells, Checkout, Updated, Deleted
  <2>4. LoadedInv'
    BY <1>2 DEF IgnoreUnhandledType, LoadedInv, SessionInv
  <2>5. InsertInv'
    BY <1>2 DEF IgnoreUnhandledType, InsertInv, SessionInv
  <2> QED BY <2>1, <2>2, <2>3, <2>4, <2>5
<1>3. CASE LoadCustomer(d)
  <2>1. MarkInv'
    BY <1>3 DEF LoadCustomer, MarkInv
  <2>2. SessionInv'
    BY <1>3 DEF LoadCustomer, SessionInv, Sells, Checkout, Updated, Deleted
  <2>3. OwnerInv'
    BY <1>3 DEF LoadCustomer, OwnerInv, SessionInv, Sells, Checkout, Updated, Deleted
  <2>4. LoadedInv'
    BY <1>3 DEF LoadCustomer, LoadedInv, SessionInv
  <2>5. InsertInv'
    BY <1>3 DEF LoadCustomer, InsertInv, SessionInv
  <2> QED BY <2>1, <2>2, <2>3, <2>4, <2>5
<1>4. CASE LoadPlan(d)
  <2>1. MarkInv'
    BY <1>4 DEF LoadPlan, MarkInv
  <2> DEFINE new == Bought(event[d], clock)
  <2>a. /\ event[d].type = Checkout
        /\ loaded[d] = {}
        /\ "pro" \in Plans => Sells(event[d])
    BY <1>4 DEF LoadPlan, SessionInv, OwnerInv, Checkout, Updated, Deleted
  <2>b. "pro" \in Plans => /\ wanted' = [wanted EXCEPT ![d] = {new}]
                           /\ pc' = [pc EXCEPT ![d] = "flush_tenant"]
                           /\ UNCHANGED <<owner, loaded>>
    BY <1>4 DEF LoadPlan
  <2>c. "pro" \notin Plans => /\ pc' = [pc EXCEPT ![d] = "commit"]
                              /\ owner' = [owner EXCEPT ![d] = {}]
                              /\ loaded' = [loaded EXCEPT ![d] = {}]
                              /\ wanted' = [wanted EXCEPT ![d] = {}]
    BY <1>4 DEF LoadPlan
  <2>d. event' = event /\ clock' = clock /\ pc[d] = "plan" /\ \E now \in 0 .. clock : new = Bought(event[d], now)
    BY <1>4 DEF LoadPlan
  <2> HIDE DEF new
  <2>2. SessionInv'
    <3>1. CASE "pro" \in Plans
      BY <2>a, <2>b, <2>d, <3>1 DEF SessionInv, Sells, Checkout, Updated, Deleted
    <3>2. CASE "pro" \notin Plans
      BY <2>a, <2>c, <2>d, <3>2 DEF SessionInv, Sells, Checkout, Updated, Deleted
    <3> QED BY <3>1, <3>2
  <2>3. OwnerInv'
    <3>1. CASE "pro" \in Plans
      <4>1. wanted'[d] # {} /\ Sells(event[d]) /\ pc'[d] = "flush_tenant"
        BY <2>a, <2>b, <3>1
      <4>2. \A o \in Deliveries \ {d} : wanted'[o] = wanted[o] /\ pc'[o] = pc[o]
        BY <2>b, <3>1
      <4>3. UNCHANGED <<owner, loaded, event>>
        BY <2>b, <2>d, <3>1
      <4> QED BY <2>a, <4>1, <4>2, <4>3 DEF OwnerInv, Sells
    <3>2. CASE "pro" \notin Plans
      BY <2>a, <2>c, <2>d, <3>2 DEF OwnerInv, Sells
    <3> QED BY <3>1, <3>2
  <2>4. LoadedInv'
    BY <1>4 DEF LoadPlan, LoadedInv, SessionInv
  <2>5. InsertInv'
    BY <1>4 DEF LoadPlan, InsertInv, SessionInv
  <2> QED BY <2>1, <2>2, <2>3, <2>4, <2>5
<1>5. CASE LoadSubscription(d)
  <2>1. MarkInv'
    BY <1>5 DEF LoadSubscription, MarkInv
  <2>2. SessionInv'
    BY <1>5 DEF LoadSubscription, SessionInv, Sells, Checkout, Updated, Deleted
  <2>3. OwnerInv'
    BY <1>5 DEF LoadSubscription, OwnerInv, SessionInv, Sells, Checkout, Updated, Deleted
  <2>4. LoadedInv'
    BY <1>5 DEF LoadSubscription, LoadedInv, SessionInv
  <2>5. InsertInv'
    BY <1>5 DEF LoadSubscription, InsertInv, SessionInv
  <2> QED BY <2>1, <2>2, <2>3, <2>4, <2>5
<1>6. CASE LoadOwner(d)
  <2>1. MarkInv'
    BY <1>6 DEF LoadOwner, MarkInv
  <2>2. SessionInv'
    BY <1>6 DEF LoadOwner, SessionInv, Sells, Checkout, Updated, Deleted
  <2>3. OwnerInv'
    BY <1>6 DEF LoadOwner, OwnerInv, SessionInv, Sells, Checkout, Updated, Deleted
  <2>4. LoadedInv'
    BY <1>6 DEF LoadOwner, LoadedInv, SessionInv
  <2>5. InsertInv'
    BY <1>6 DEF LoadOwner, InsertInv, SessionInv
  <2> QED BY <2>1, <2>2, <2>3, <2>4, <2>5
<1>7. CASE FlushTenant(d)
  <2>1. MarkInv'
    BY <1>7 DEF FlushTenant, MarkInv
  <2>2. SessionInv'
    BY <1>7 DEF FlushTenant, SessionInv, Sells, Checkout, Updated, Deleted
  <2>3. OwnerInv'
    BY <1>7 DEF FlushTenant, OwnerInv, SessionInv, Sells, Checkout, Updated, Deleted
  <2>4. LoadedInv'
    BY <1>7 DEF FlushTenant, LoadedInv, SessionInv
  <2>5. InsertInv'
    BY <1>7 DEF FlushTenant, InsertInv, SessionInv
  <2> QED BY <2>1, <2>2, <2>3, <2>4, <2>5
<1>8. CASE FlushSubscription(d)
  <2>1. MarkInv'
    BY <1>8 DEF FlushSubscription, MarkInv
  <2>2. SessionInv'
    BY <1>8 DEF FlushSubscription, SessionInv, Sells, Checkout, Updated, Deleted
  <2>3. OwnerInv'
    BY <1>8 DEF FlushSubscription, OwnerInv, SessionInv, Sells, Checkout, Updated, Deleted
  <2>4. LoadedInv'
    BY <1>8 DEF FlushSubscription, LoadedInv, SessionInv
  <2>5. InsertInv'
    BY <1>8 DEF FlushSubscription, InsertInv, InsertConflict, SubscriptionLocked, ChangesSubscription, SessionInv, Bought, Checkout, Updated, Deleted
  <2> QED BY <2>1, <2>2, <2>3, <2>4, <2>5
<1>9. CASE Commit(d)
  <2>1. MarkInv'
    BY <1>9 DEF Commit, MarkInv
  <2>2. SessionInv'
    BY <1>9 DEF Commit, SessionInv, Sells, Checkout, Updated, Deleted
  <2>3. OwnerInv'
    BY <1>9 DEF Commit, OwnerInv, SessionInv, Sells, Checkout, Updated, Deleted
  <2>4. LoadedInv'
    <3>1. loaded' = [loaded EXCEPT ![d] = {}]
      BY <1>9 DEF Commit
    <3>2. \A row \in subscriptions : \E new \in subscriptions' :
            new.id = row.id /\ new.tenant = row.tenant /\ new.plan = row.plan
      BY <1>9, CommitTables
    <3> QED BY <3>1, <3>2 DEF LoadedInv
  <2>5. InsertInv'
    <3>1. /\ pc' = [pc EXCEPT ![d] = "reply"]
          /\ loaded' = [loaded EXCEPT ![d] = {}]
          /\ wanted' = [wanted EXCEPT ![d] = {}]
          /\ pc[d] = "commit" /\ event' = event
      BY <1>9 DEF Commit
    <3>2. \A new \in subscriptions' :
            \/ \E row \in subscriptions : row.id = new.id
            \/ /\ loaded[d] = {} /\ wanted[d] # {}
               /\ new.id = event[d].subscription
      BY <1>9, CommitTables
    <3> QED BY <3>1, <3>2 DEF InsertInv
  <2> QED BY <2>1, <2>2, <2>3, <2>4, <2>5
<1>10. CASE Reply(d)
  <2>1. MarkInv'
    BY <1>10 DEF Reply, MarkInv
  <2>2. SessionInv'
    BY <1>10 DEF Reply, SessionInv, Sells, Checkout, Updated, Deleted
  <2>3. OwnerInv'
    BY <1>10 DEF Reply, OwnerInv, SessionInv, Sells, Checkout, Updated, Deleted
  <2>4. LoadedInv'
    BY <1>10 DEF Reply, LoadedInv, SessionInv
  <2>5. InsertInv'
    BY <1>10 DEF Reply, InsertInv, SessionInv
  <2> QED BY <2>1, <2>2, <2>3, <2>4, <2>5
<1>11. CASE Fail(d)
  <2>1. MarkInv'
    BY <1>11 DEF Fail, MarkInv
  <2>2. SessionInv'
    BY <1>11 DEF Fail, SessionInv, Sells, Checkout, Updated, Deleted
  <2>3. OwnerInv'
    BY <1>11 DEF Fail, OwnerInv, SessionInv, Sells, Checkout, Updated, Deleted
  <2>4. LoadedInv'
    BY <1>11 DEF Fail, LoadedInv, SessionInv
  <2>5. InsertInv'
    BY <1>11 DEF Fail, InsertInv, SessionInv
  <2> QED BY <2>1, <2>2, <2>3, <2>4, <2>5
<1>12. CASE Redeliver(d)
  <2>1. MarkInv'
    BY <1>12 DEF Redeliver, MarkInv
  <2>2. SessionInv'
    BY <1>12 DEF Redeliver, SessionInv, Sells, Checkout, Updated, Deleted
  <2>3. OwnerInv'
    BY <1>12 DEF Redeliver, OwnerInv, SessionInv, Sells, Checkout, Updated, Deleted
  <2>4. LoadedInv'
    BY <1>12 DEF Redeliver, LoadedInv, SessionInv
  <2>5. InsertInv'
    BY <1>12 DEF Redeliver, InsertInv, SessionInv
  <2> QED BY <2>1, <2>2, <2>3, <2>4, <2>5
<1> QED
  BY <1>1, <1>2, <1>3, <1>4, <1>5, <1>6, <1>7, <1>8, <1>9, <1>10, <1>11, <1>12
     DEF Step

LEMMA InitInv == Init => WebhookInv
  BY DEF Init, WebhookInv, MarkInv, SessionInv, OwnerInv, LoadedInv, InsertInv, Marked

LEMMA NextInv ==
    ASSUME TypeOK, WebhookInv, [Next]_vars
    PROVE  WebhookInv'
<1>1. ASSUME UNCHANGED <<tables, pc, event, session>>, clock' \in {clock, clock + 1}
      PROVE  WebhookInv'
  <2>1. 0 .. clock \subseteq 0 .. clock'
    BY <1>1 DEF TypeOK
  <2>2. SessionInv'
    BY <1>1, <2>1 DEF WebhookInv, SessionInv, Marked, Sells, tables, session
  <2> QED
    BY <1>1, <2>2
       DEF WebhookInv, MarkInv, OwnerInv, LoadedInv, InsertInv, Marked, tables, session
<1>2. CASE UNCHANGED vars \/ Tick
  BY <1>1, <1>2 DEF vars, Tick
<1> QED BY <1>2, StepInv DEF Next, Quiescent

LEMMA SpecInv == Spec => [](TypeOK /\ WebhookInv)
  BY InitType, NextType, InitInv, NextInv, PTL DEF Spec

\* The tables and sessions always have their types, and a
\* stripe_subscription_id never has two rows.
THEOREM TypeCorrect == Spec => []TypeOK
  BY SpecInv, PTL

-----------------------------------------------------------------------------
(* What clients of the tables can rely on.  Only Commit writes them.        *)

\* Whatever is not a COMMIT leaves the tables alone.
LEMMA OnlyCommitWrites ==
    ASSUME [Next]_vars
    PROVE  \/ UNCHANGED tables
           \/ \E d \in Deliveries : Commit(d)
<1> USE DEF vars, tables
<1>1. CASE UNCHANGED vars \/ Tick
  BY <1>1 DEF Tick
<1>2. ASSUME NEW d \in Deliveries, Step(d) \/ Fail(d) \/ Redeliver(d)
      PROVE  UNCHANGED tables \/ Commit(d)
  BY <1>2
     DEF Step, MarkProcessedOrSkip, IgnoreUnhandledType, LoadCustomer, LoadPlan,
         LoadSubscription, LoadOwner, FlushTenant, FlushSubscription, Reply,
         Fail, Redeliver
<1> QED BY <1>1, <1>2 DEF Next, Quiescent

\* An event that Stripe sees acknowledged is in the committed ledger, so nothing
\* is lost when Stripe stops delivering it.
THEOREM AcknowledgementIsDurable == Spec => []AcknowledgedIsDurable
<1>1. Init => AcknowledgedIsDurable
  BY DEF Init, AcknowledgedIsDurable
<1>2. TypeOK /\ AcknowledgedIsDurable /\ [Next]_vars => AcknowledgedIsDurable'
  <2> SUFFICES ASSUME TypeOK, AcknowledgedIsDurable, [Next]_vars
               PROVE  AcknowledgedIsDurable'
    OBVIOUS
  <2> USE DEF TypeOK, AcknowledgedIsDurable, tables, Goto
  <2>1. CASE UNCHANGED vars \/ Tick
    BY <2>1 DEF vars, Tick
  <2>2. ASSUME NEW d \in Deliveries, MarkProcessedOrSkip(d)
        PROVE  AcknowledgedIsDurable'
    BY <2>2 DEF MarkProcessedOrSkip, AlreadyProcessed
  <2>3. ASSUME NEW d \in Deliveries, Commit(d)
        PROVE  AcknowledgedIsDurable'
    BY <2>3 DEF Commit
  <2>4. ASSUME NEW d \in Deliveries, Reply(d)
        PROVE  AcknowledgedIsDurable'
    BY <2>4 DEF Reply
  <2>5. ASSUME NEW d \in Deliveries,
               \/ IgnoreUnhandledType(d) \/ LoadCustomer(d) \/ LoadPlan(d)
               \/ LoadSubscription(d) \/ LoadOwner(d) \/ FlushTenant(d)
               \/ FlushSubscription(d) \/ Fail(d) \/ Redeliver(d)
        PROVE  AcknowledgedIsDurable'
    BY <2>5
       DEF IgnoreUnhandledType, LoadCustomer, LoadPlan, LoadSubscription, LoadOwner,
           FlushTenant, FlushSubscription, Fail, Redeliver, ReturnUnchanged
  <2> QED BY <2>1, <2>2, <2>3, <2>4, <2>5 DEF Next, Step, Quiescent
<1> QED BY <1>1, <1>2, SpecInv, PTL DEF Spec

LEMMA InsertedRow ==
    ASSUME NEW e, RowInserted(e)
    PROVE  \E new \in subscriptions' :
             new.id = e.subscription /\ new.tenant = e.customer /\ new.plan = "pro"
<1>1. PICK now \in 0 .. clock : subscriptions' = subscriptions \cup {Bought(e, now)}
  BY DEF RowInserted
<1>2. /\ Bought(e, now).id = e.subscription
      /\ Bought(e, now).tenant = e.customer
      /\ Bought(e, now).plan = "pro"
  BY DEF Bought
<1>3. Bought(e, now) \in subscriptions'
  BY <1>1
<1> QED BY <1>2, <1>3

LEMMA CheckoutCommit ==
    ASSUME TypeOK, WebhookInv, EveryCheckoutHasItsRow, NEW d \in Deliveries, Commit(d)
    PROVE  EveryCheckoutHasItsRow'
<1> DEFINE e == event[d]
<1>1. processed' = processed \cup {e.id}
  BY DEF Commit
<1>2. /\ \A row \in subscriptions : \E new \in subscriptions' :
            new.id = row.id /\ new.tenant = row.tenant
      /\ \A new \in subscriptions' :
            \/ \E row \in subscriptions : row.id = new.id
            \/ loaded[d] = {} /\ wanted[d] # {} /\ new.id = e.subscription
  BY CommitTables
<1>3. \A f \in Events : f.id \in processed' => f.id \in processed \/ f = e
  BY <1>1, EventsAssumption DEF TypeOK
<1>4. e \in Events
  BY DEF TypeOK
<1>5. Sells(e) => /\ \A row \in subscriptions : row.id # e.subscription
                  /\ \E new \in subscriptions' :
                       new.id = e.subscription /\ new.tenant = e.customer
  <2>1. Sells(e) => RowInserted(e)
    BY CommitEffect DEF RowUpdated, Sells, Checkout, Updated, Deleted
  <2>2. RowInserted(e) => \E new \in subscriptions' :
                             new.id = e.subscription /\ new.tenant = e.customer
    BY InsertedRow
  <2> QED BY <2>1, <2>2 DEF RowInserted
<1>6. loaded[d] = {} /\ wanted[d] # {} => Sells(e)
  BY DEF WebhookInv, SessionInv
<1>7. \A f \in Events : Sells(f) /\ f.id \in processed =>
        \E row \in subscriptions : row.id = f.subscription /\ row.tenant = f.customer
  BY DEF EveryCheckoutHasItsRow
<1>8. \A f \in Events : Sells(f)' = Sells(f)
  BY DEF Sells
<1>9. \A f \in Events : Sells(f) /\ f.id \in processed' =>
        \E row \in subscriptions' : row.id = f.subscription /\ row.tenant = f.customer
  BY <1>2, <1>3, <1>5, <1>7
<1>10. \A f, g \in Events :
         /\ Sells(f) /\ f.id \in processed'
         /\ Sells(g) /\ g.id \in processed'
         /\ f.subscription = g.subscription
         => f = g
  BY <1>3, <1>5, <1>7 DEF EveryCheckoutHasItsRow
<1>11. \A row \in subscriptions' :
         \/ \E first \in InitialRows : first.id = row.id
         \/ \E f \in Events : Sells(f) /\ f.id \in processed' /\ row.id = f.subscription
  BY <1>1, <1>2, <1>4, <1>6 DEF EveryCheckoutHasItsRow
<1> QED BY <1>8, <1>9, <1>10, <1>11 DEF EveryCheckoutHasItsRow

\* The ledger of processed events and the subscriptions agree: a processed
\* checkout has its own row, and no row comes from anything else.
THEOREM LedgerMatchesSales == Spec => []EveryCheckoutHasItsRow
<1>1. Init => EveryCheckoutHasItsRow
  BY DEF Init, EveryCheckoutHasItsRow
<1>2. TypeOK /\ WebhookInv /\ EveryCheckoutHasItsRow /\ [Next]_vars
        => EveryCheckoutHasItsRow'
  <2> SUFFICES ASSUME TypeOK, WebhookInv, EveryCheckoutHasItsRow, [Next]_vars
               PROVE  EveryCheckoutHasItsRow'
    OBVIOUS
  <2>1. CASE UNCHANGED tables
    BY <2>1 DEF tables, EveryCheckoutHasItsRow, Sells
  <2> QED BY <2>1, CheckoutCommit, OnlyCommitWrites
<1> QED BY <1>1, <1>2, SpecInv, PTL DEF Spec

LEMMA ProTenantCommit ==
    ASSUME TypeOK, WebhookInv, ProTenantHasProRow, NEW d \in Deliveries, Commit(d)
    PROVE  ProTenantHasProRow'
<1> DEFINE e == event[d]
<1>1. \A row \in subscriptions : \E new \in subscriptions' :
        new.tenant = row.tenant /\ new.plan = row.plan
  BY CommitTables
<1>2. ASSUME NEW t \in Tenants, plan_type[t] = "pro"
      PROVE  \E new \in subscriptions' : new.tenant = t /\ new.plan = "pro"
  BY <1>1, <1>2 DEF ProTenantHasProRow
<1>3. ASSUME NEW t \in Tenants, plan_type'[t] = "pro", plan_type[t] # "pro"
      PROVE  RowInserted(e) /\ t = e.customer
  <2>1. ~NothingWritten
    BY <1>3 DEF NothingWritten
  <2>2. ~RowUpdated(e)
    <3>1. ASSUME NEW u, SetsPlanType(u, e), e.type = Deleted
          PROVE  FALSE
      BY <1>3, <3>1 DEF SetsPlanType, PlanTypeAfter, Deleted, Checkout, TypeOK
    <3> QED BY <1>3, <3>1 DEF RowUpdated
  <2>3. RowInserted(e)
    BY <2>1, <2>2, CommitEffect
  <2> QED BY <1>3, <2>3 DEF RowInserted, SetsPlanType, TypeOK
<1>4. ASSUME NEW t \in Tenants, plan_type'[t] = "pro"
      PROVE  \E new \in subscriptions' : new.tenant = t /\ new.plan = "pro"
  <2>1. CASE plan_type[t] = "pro"
    BY <1>2, <2>1
  <2>2. CASE plan_type[t] # "pro"
    <3>1. RowInserted(e) /\ t = e.customer
      BY <1>3, <1>4, <2>2
    <3> QED BY <3>1, InsertedRow
  <2> QED BY <2>1, <2>2
<1> QED BY <1>4 DEF ProTenantHasProRow

\* A tenant shown as pro has a pro subscription row: the row and the column are
\* set in one transaction, and no handler removes the row or its plan.
THEOREM ProTenantsBought == Spec => []ProTenantHasProRow
<1>1. Init => ProTenantHasProRow
  BY WebhooksAssumption DEF Init, ProTenantHasProRow
<1>2. TypeOK /\ WebhookInv /\ ProTenantHasProRow /\ [Next]_vars
        => ProTenantHasProRow'
  <2> SUFFICES ASSUME TypeOK, WebhookInv, ProTenantHasProRow, [Next]_vars
               PROVE  ProTenantHasProRow'
    OBVIOUS
  <2>1. CASE UNCHANGED tables
    BY <2>1 DEF tables, ProTenantHasProRow
  <2> QED BY <2>1, ProTenantCommit, OnlyCommitWrites
<1> QED BY <1>1, <1>2, SpecInv, PTL DEF Spec

-----------------------------------------------------------------------------
(* Refinement: COMMIT is the abstract step, everything else a stutter.       *)

\* BillingFeed reads events with the same operators.
LEMMA SameVocabulary ==
    ASSUME NEW e
    PROVE  /\ Feed!Checkout = Checkout /\ Feed!Updated = Updated
           /\ Feed!Deleted = Deleted
           /\ Feed!PlanTypeAfter(e) = PlanTypeAfter(e)
           /\ \A now : Feed!Bought(e, now) = Bought(e, now)
           /\ \A row : Feed!Announced(e, row) = Announced(e, row)
<1>1. /\ Feed!Checkout = Checkout /\ Feed!Updated = Updated
      /\ Feed!Deleted = Deleted
  BY DEF Feed!Checkout, Checkout, Feed!Updated, Updated, Feed!Deleted, Deleted
<1>2. Feed!PlanTypeAfter(e) = PlanTypeAfter(e)
  BY <1>1 DEF Feed!PlanTypeAfter, PlanTypeAfter
<1>3. ASSUME NEW now PROVE Feed!Bought(e, now) = Bought(e, now)
  BY DEF Feed!Bought, Bought
<1>4. ASSUME NEW row PROVE Feed!Announced(e, row) = Announced(e, row)
  <2>1. ASSUME NEW s, NEW current
        PROVE  Feed!StatusFor(s, current) = StatusFor(s, current)
    BY DEF Feed!StatusFor, StatusFor, Feed!ACTIVE_STRIPE_STATUSES,
           ACTIVE_STRIPE_STATUSES, Feed!TERMINAL_STRIPE_STATUSES,
           TERMINAL_STRIPE_STATUSES
  <2>2. ASSUME NEW date, NEW current
        PROVE  Feed!DateFor(date, current) = DateFor(date, current)
    BY DEF Feed!DateFor, DateFor, Feed!Absent, Absent
  <2> QED BY <1>1, <2>1, <2>2 DEF Feed!Announced, Announced
<1> QED BY <1>1, <1>2, <1>3, <1>4

LEMMA UpdateIsChange ==
    ASSUME NEW e, RowUpdated(e)
    PROVE  Feed!Change(e)
<1> DEFINE Image(row, status, start, end) ==
               [row EXCEPT !.status = status, !.start = start, !.end = end]
<1>1. PICK row \in subscriptions :
        /\ row.id = e.subscription
        /\ \E status \in {row.status, Announced(e, row).status},
              start \in {row.start, Announced(e, row).start},
              end \in {row.end, Announced(e, row).end} :
             subscriptions' = (subscriptions \ {row}) \cup {Image(row, status, start, end)}
        /\ IF e.type = Deleted THEN SetsPlanType(row.tenant, e)
                               ELSE UNCHANGED plan_type
  BY DEF RowUpdated
<1>2. e.type \in {Feed!Updated, Feed!Deleted}
  BY SameVocabulary DEF RowUpdated
<1>3. \E status \in {row.status, Feed!Announced(e, row).status},
         start \in {row.start, Feed!Announced(e, row).start},
         end \in {row.end, Feed!Announced(e, row).end} :
        subscriptions' = (subscriptions \ {row}) \cup {Image(row, status, start, end)}
  <2> HIDE DEF Image
  <2> QED BY <1>1, SameVocabulary
<1>4. IF e.type = Feed!Deleted THEN Feed!MaySetPlanType(row.tenant, e)
                               ELSE UNCHANGED plan_type
  <2>1. SetsPlanType(row.tenant, e) => Feed!MaySetPlanType(row.tenant, e)
    BY SameVocabulary DEF SetsPlanType, Feed!MaySetPlanType
  <2> QED BY <1>1, <2>1, SameVocabulary
<1> QED BY <1>1, <1>2, <1>3, <1>4, Zenon DEF Feed!Change

LEMMA CommitProcesses ==
    ASSUME TypeOK, WebhookInv, NEW d \in Deliveries, Commit(d)
    PROVE  Feed!Process(event[d])
<1> DEFINE e == event[d]
<1>1. e.id \notin processed /\ processed' = processed \cup {e.id}
  BY DEF WebhookInv, MarkInv, Marked, Commit
<1>2. CASE NothingWritten
  BY <1>1, <1>2 DEF NothingWritten, Feed!Process, Feed!Acknowledge
<1>3. CASE RowInserted(e)
  <2>1. 0 .. clock \subseteq 0 .. MaxClock
    BY WebhooksAssumption DEF TypeOK
  <2>2. Feed!Open(e)
    BY <1>3, <2>1, SameVocabulary
       DEF RowInserted, Sells, SetsPlanType, Feed!Open, Feed!MaySetPlanType
  <2> QED BY <1>1, <2>2 DEF Feed!Process
<1>4. CASE RowUpdated(e)
  <2>1. Feed!Change(e)
    BY <1>4, UpdateIsChange
  <2> QED BY <1>1, <2>1 DEF Feed!Process
<1> QED BY <1>2, <1>3, <1>4, CommitEffect

\* The handler implements the abstract feed: every step is the one that spends
\* an event's id and applies the event, or leaves the tables alone.
THEOREM HandlerImplementsFeed == Spec => ImplementsFeed
<1>1. Init => Feed!Init
  BY DEF Init, Feed!Init
<1>2. TypeOK /\ WebhookInv /\ [Next]_vars => [Feed!Next]_(Feed!vars)
  <2> SUFFICES ASSUME TypeOK, WebhookInv, [Next]_vars
               PROVE  [Feed!Next]_(Feed!vars)
    OBVIOUS
  <2>1. CASE UNCHANGED tables
    BY <2>1 DEF tables, Feed!vars
  <2>2. ASSUME NEW d \in Deliveries, Commit(d)
        PROVE  Feed!Next
    BY <2>2, CommitProcesses DEF Feed!Next, TypeOK
  <2> QED BY <2>1, <2>2, OnlyCommitWrites
<1> QED BY <1>1, <1>2, SpecInv, PTL DEF Spec, ImplementsFeed, Feed!Spec
===============================================================================
