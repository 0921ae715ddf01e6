----------------------------- MODULE BillingProofs -----------------------------
(***************************************************************************)
(* The composed service behaves towards its calls as MeteringEngine says   *)
(* and towards Stripe as StripeWebhooks says, so what was proved of each    *)
(* alone holds of both together.                                           *)
(***************************************************************************)
EXTENDS Billing, FiniteSetTheorems, TLAPS

\* The components with the theorems about them.
Engine == INSTANCE MeteringQuotaProofs
    WITH Backend <- "postgresql",
         StripeStatuses <- SubscriptionStatus,
         Periods <- Starts \X Ends

Handler == INSTANCE StripeWebhooksProofs WITH pc <- delivery_pc

LEMMA EngineAssumption == Engine!ConstantsAssumption
  BY ComponentsAssumption
     DEF Metering!ConstantsAssumption, Metering!Call, Metering!EventTypes,
         Metering!SubscriptionRow, Metering!TenantStatus,
         Metering!SubscriptionStatus,
         Engine!ConstantsAssumption, Engine!Call, Engine!EventTypes,
         Engine!SubscriptionRow, Engine!TenantStatus, Engine!SubscriptionStatus

LEMMA HandlerAssumption == Handler!EventsAssumption /\ Handler!WebhooksAssumption
<1>1. Handler!WebhooksAssumption
  BY ComponentsAssumption
     DEF Hooks!WebhooksAssumption, Hooks!SubscriptionRow, Hooks!SubscriptionStatus, Hooks!PlanTypes,
         Handler!WebhooksAssumption, Handler!SubscriptionRow, Handler!SubscriptionStatus,
         Handler!PlanTypes
<1>2. Handler!EventsAssumption
  BY EventsAssumption
     DEF EventsAssumption, Event, StripeStatus, ACTIVE_STRIPE_STATUSES,
         TERMINAL_STRIPE_STATUSES, Absent, Checkout, Updated, Deleted,
         Handler!EventsAssumption, Handler!Event, Handler!StripeStatus,
         Handler!ACTIVE_STRIPE_STATUSES, Handler!TERMINAL_STRIPE_STATUSES,
         Handler!Absent, Handler!Checkout, Handler!Updated, Handler!Deleted
<1> QED BY <1>1, <1>2

LEMMA SameEngine == Metering!Spec => Engine!Spec
<1>1. Metering!Init <=> Engine!Init
  BY DEF Metering!Init, Engine!Init, Metering!NoAnswer, Engine!NoAnswer
<1>2. Metering!vars = Engine!vars
  BY DEF Metering!vars, Engine!vars
<1>3. Metering!Next <=> Engine!Next
  BY DEF Metering!Next, Metering!Step, Metering!Fail, Metering!Environment,
         Metering!Quiescent, Metering!LoadTenant, Metering!ReplayStored,
         Metering!CheckTenant, Metering!SelectSubscription,
         Metering!LockSubscription, Metering!SkipSubscription,
         Metering!LockRow, Metering!PassOver, Metering!NoSubscription,
         Metering!SumUsage, Metering!NewEvent, Metering!InsertEvent, Metering!Commit,
         Metering!ReplyCreated, Metering!ReadWinner, Metering!AbortDeadlocked,
         Metering!Deadlocked, Metering!WaitsFor, Metering!Tick,
         Metering!AddSubscription, Metering!ChangeSubscription,
         Metering!Respond, Metering!Refuse, Metering!Goto,
         Metering!EndTransaction, Metering!ConnectionAvailable,
         Metering!Connected, Metering!StoredResponse, Metering!ReplayCode,
         Metering!IsNextCandidate, Metering!LockedByOther,
         Metering!TakeRowLock, Metering!Exceeds, Metering!Used,
         Metering!PeriodEvents, Metering!TotalQuantity, Metering!Units,
         Metering!RequestedQuantity, Metering!InsertMustWait,
         Metering!KeyTaken, Metering!ResponseBody, Metering!tables,
         Metering!session, Metering!vars, Engine!Next, Engine!Step,
         Engine!Fail, Engine!Environment, Engine!Quiescent, Engine!LoadTenant,
         Engine!ReplayStored, Engine!CheckTenant, Engine!SelectSubscription,
         Engine!LockSubscription, Engine!SkipSubscription, Engine!LockRow,
         Engine!PassOver, Engine!NoSubscription, Engine!SumUsage, Engine!NewEvent,
         Engine!InsertEvent, Engine!Commit, Engine!ReplyCreated,
         Engine!ReadWinner, Engine!AbortDeadlocked, Engine!Deadlocked,
         Engine!WaitsFor, Engine!Tick, Engine!AddSubscription,
         Engine!ChangeSubscription, Engine!Respond, Engine!Refuse,
         Engine!Goto, Engine!EndTransaction, Engine!ConnectionAvailable,
         Engine!Connected, Engine!StoredResponse, Engine!ReplayCode,
         Engine!IsNextCandidate, Engine!LockedByOther, Engine!TakeRowLock,
         Engine!Exceeds, Engine!Used, Engine!PeriodEvents,
         Engine!TotalQuantity, Engine!Units, Engine!RequestedQuantity,
         Engine!InsertMustWait, Engine!KeyTaken, Engine!ResponseBody,
         Engine!tables, Engine!session, Engine!vars,
         Metering!Cardinality, Engine!Cardinality, Metering!IsFiniteSet, Engine!IsFiniteSet
<1> QED
  BY <1>1, <1>3, PTL
     DEF Metering!Spec, Engine!Spec, Metering!vars, Engine!vars

LEMMA SameHandler == Hooks!Spec => Handler!Spec
<1>1. Hooks!Init <=> Handler!Init
  BY DEF Hooks!Init, Handler!Init
<1>2. Hooks!Next <=> Handler!Next
  BY DEF Hooks!Next, Hooks!Step, Hooks!Fail, Hooks!Redeliver, Hooks!Tick,
         Hooks!Quiescent, Hooks!MarkProcessedOrSkip,
         Hooks!IgnoreUnhandledType, Hooks!LoadCustomer, Hooks!LoadPlan,
         Hooks!LoadSubscription, Hooks!LoadOwner, Hooks!FlushTenant,
         Hooks!FlushSubscription, Hooks!Commit, Hooks!Reply, Hooks!Goto,
         Hooks!Return, Hooks!ReturnUnchanged, Hooks!EndTransaction,
         Hooks!Marked, Hooks!MarkMustWait, Hooks!ChangesTenant,
         Hooks!ChangesSubscription, Hooks!TenantLocked,
         Hooks!SubscriptionLocked, Hooks!WriteChangedColumns,
         Hooks!AlreadyProcessed, Hooks!InsertConflict, Hooks!Target,
         Hooks!Written, Hooks!WrittenTenants, Hooks!StatusFor,
         Hooks!ACTIVE_STRIPE_STATUSES, Hooks!TERMINAL_STRIPE_STATUSES,
         Hooks!DateFor, Hooks!Absent, Hooks!Announced, Hooks!Bought,
         Hooks!PlanTypeAfter, Hooks!Checkout, Hooks!Updated, Hooks!Deleted,
         Hooks!tables, Hooks!session, Hooks!vars, Handler!Next, Handler!Step,
         Handler!Fail, Handler!Redeliver, Handler!Tick, Handler!Quiescent,
         Handler!MarkProcessedOrSkip, Handler!IgnoreUnhandledType,
         Handler!LoadCustomer, Handler!LoadPlan, Handler!LoadSubscription,
         Handler!LoadOwner, Handler!FlushTenant, Handler!FlushSubscription,
         Handler!Commit, Handler!Reply, Handler!Goto, Handler!Return,
         Handler!ReturnUnchanged, Handler!EndTransaction, Handler!Marked,
         Handler!MarkMustWait, Handler!ChangesTenant,
         Handler!ChangesSubscription, Handler!TenantLocked,
         Handler!SubscriptionLocked, Handler!WriteChangedColumns,
         Handler!AlreadyProcessed, Handler!InsertConflict, Handler!Target,
         Handler!Written, Handler!WrittenTenants, Handler!StatusFor,
         Handler!ACTIVE_STRIPE_STATUSES, Handler!TERMINAL_STRIPE_STATUSES,
         Handler!DateFor, Handler!Absent, Handler!Announced, Handler!Bought,
         Handler!PlanTypeAfter, Handler!Checkout, Handler!Updated,
         Handler!Deleted, Handler!tables, Handler!session, Handler!vars
<1> QED
  BY <1>1, <1>2, PTL
     DEF Hooks!Spec, Handler!Spec, Hooks!vars, Handler!vars, Hooks!tables,
         Handler!tables, Hooks!session, Handler!session

-----------------------------------------------------------------------------
(* Seen from Stripe, a call is no step at all.                              *)

LEMMA RequestChanges ==
    ASSUME NEW r \in Requests, Request(r) \/ FailRequest(r)
    PROVE  /\ Metering!Step(r) \/ Metering!Fail(r)
           /\ UNCHANGED <<clock, subscriptions, deliveryVars>>
<1>1. Metering!Step(r) \/ Metering!Fail(r)
  BY DEF Request, FailRequest, Metering!Step, Metering!LockSubscription,
         Metering!SkipSubscription
<1>2. UNCHANGED <<clock, subscriptions>>
  BY <1>1
     DEF Metering!Step, Metering!Fail, Metering!LoadTenant, Metering!ReplayStored,
         Metering!CheckTenant, Metering!SelectSubscription,
         Metering!LockSubscription, Metering!LockRow, Metering!SkipSubscription,
         Metering!PassOver, Metering!NoSubscription, Metering!SumUsage,
         Metering!InsertEvent, Metering!Commit, Metering!ReplyCreated,
         Metering!ReadWinner, Metering!AbortDeadlocked, Metering!Refuse,
         Metering!Respond, Metering!tables
<1> QED BY <1>1, <1>2 DEF Request, FailRequest

\* The webhook handler runs in the service as it does alone: the pool and the
\* row locks of calls only make it wait.
THEOREM ServiceImplementsWebhooks == Spec => Hooks!Spec
<1> USE DEF Hooks!vars, Hooks!tables, Hooks!session
<1>1. Init => Hooks!Init
  BY DEF Init
<1>2. [Next]_vars => [Hooks!Next]_(Hooks!vars)
  <2> SUFFICES ASSUME [Next]_vars
               PROVE  [Hooks!Next]_(Hooks!vars)
    OBVIOUS
  <2>1. CASE UNCHANGED vars
    BY <2>1 DEF vars, deliveryVars
  <2>2. ASSUME NEW r \in Requests, Request(r) \/ FailRequest(r)
        PROVE  UNCHANGED Hooks!vars
    BY <2>2, RequestChanges DEF deliveryVars
  <2>3. ASSUME NEW d \in Deliveries, Connect(d)
        PROVE  UNCHANGED Hooks!vars
    BY <2>3 DEF Connect
  <2>4. ASSUME NEW d \in Deliveries, Delivery(d) \/ FailDelivery(d) \/ Redeliver(d)
        PROVE  Hooks!Next
    BY <2>4 DEF Delivery, FailDelivery, Redeliver, Hooks!Next, Hooks!Step
  <2>5. CASE Tick
    BY <2>5 DEF Tick, deliveryVars, Hooks!Next, Hooks!Tick
  <2> QED BY <2>1, <2>2, <2>3, <2>4, <2>5 DEF Next, Quiescent
<1> QED BY <1>1, <1>2, PTL DEF Spec, Hooks!Spec

LEMMA SpecHandler == Spec => [](Handler!TypeOK /\ Handler!WebhookInv)
<1>1. Handler!Spec => [](Handler!TypeOK /\ Handler!WebhookInv)
  BY HandlerAssumption, Handler!SpecInv
<1> QED BY <1>1, ServiceImplementsWebhooks, SameHandler, PTL

-----------------------------------------------------------------------------
(* Seen from a call, a delivery is one step of the environment: its COMMIT.  *)

\* What a delivery does to the subscriptions table.
Sold(e) ==
    /\ e.type = Checkout /\ e.customer \in Tenants /\ "pro" \in Plans
    /\ \A row \in subscriptions : row.id # e.subscription
    /\ \E now \in 0 .. clock : subscriptions' = subscriptions \cup {Bought(e, now)}

Rewritten(e) ==
    \E row \in subscriptions :
      /\ row.id = e.subscription
      /\ \E status \in SubscriptionStatus,
            start \in {row.start, Announced(e, row).start},
            end \in {row.end, Announced(e, row).end} :
           subscriptions' = (subscriptions \ {row}) \cup
             {[row EXCEPT !.status = status, !.start = start, !.end = end]}

LEMMA SameCommit ==
    ASSUME NEW d \in Deliveries
    PROVE  Hooks!Commit(d) <=> Handler!Commit(d)
  BY DEF Hooks!Commit, Hooks!Target, Hooks!Written, Hooks!WrittenTenants,
         Hooks!WriteChangedColumns, Hooks!ChangesTenant, Hooks!PlanTypeAfter,
         Hooks!Goto, Hooks!EndTransaction, Hooks!Checkout,
         Handler!Commit, Handler!Target, Handler!Written, Handler!WrittenTenants,
         Handler!WriteChangedColumns, Handler!ChangesTenant, Handler!PlanTypeAfter,
         Handler!Goto, Handler!EndTransaction, Handler!Checkout

LEMMA DeliveryCommit ==
    ASSUME Handler!TypeOK, Handler!WebhookInv, NEW d \in Deliveries, Hooks!Commit(d)
    PROVE  \/ UNCHANGED subscriptions
           \/ Sold(event[d])
           \/ /\ loaded[d] # {} /\ wanted[d] # loaded[d]
              /\ event[d].type \in {Updated, Deleted}
              /\ Rewritten(event[d])
<1> DEFINE e == event[d]
<1> USE DEF Handler!Checkout, Handler!Updated, Handler!Deleted, Checkout, Updated,
            Deleted
<1>1. Handler!Commit(d)
  BY SameCommit
<1>2. CASE ~Handler!ChangesSubscription(d)
  BY <1>1, <1>2, HandlerAssumption, Handler!CommitWithoutChange
<1>3. CASE Handler!ChangesSubscription(d)
  <2>1. \/ Handler!NothingWritten
        \/ Handler!RowInserted(e)
        \/ Handler!RowUpdated(e)
    BY <1>1, HandlerAssumption, Handler!CommitEffect
  <2>2. CASE Handler!NothingWritten
    BY <2>2 DEF Handler!NothingWritten
  <2>3. CASE Handler!RowInserted(e)
    BY <2>3 DEF Handler!RowInserted, Handler!Sells, Handler!Bought, Sold, Bought
  <2>4. CASE Handler!RowUpdated(e)
    <3>1. loaded[d] # {}
      BY <1>3, <2>4
         DEF Handler!ChangesSubscription, Handler!RowUpdated, Handler!WebhookInv,
             Handler!SessionInv, Handler!Sells
    <3>2. \A row : Handler!Announced(e, row) = Announced(e, row)
      BY DEF Handler!Announced, Handler!StatusFor, Handler!DateFor, Handler!Absent,
             Handler!ACTIVE_STRIPE_STATUSES, Handler!TERMINAL_STRIPE_STATUSES,
             Announced, StatusFor, DateFor, Absent, ACTIVE_STRIPE_STATUSES,
             TERMINAL_STRIPE_STATUSES
    <3>3. Rewritten(e)
      <4>1. PICK row \in subscriptions :
              /\ row.id = e.subscription
              /\ \E status \in {row.status, Handler!Announced(e, row).status},
                    start \in {row.start, Handler!Announced(e, row).start},
                    end \in {row.end, Handler!Announced(e, row).end} :
                   /\ status \in Handler!SubscriptionStatus
                   /\ subscriptions' = (subscriptions \ {row}) \cup
                        {[row EXCEPT !.status = status, !.start = start, !.end = end]}
        BY <2>4 DEF Handler!RowUpdated
      <4>2. PICK status \in Handler!SubscriptionStatus,
                 start \in {row.start, Handler!Announced(e, row).start},
                 end \in {row.end, Handler!Announced(e, row).end} :
              subscriptions' = (subscriptions \ {row}) \cup
                {[row EXCEPT !.status = status, !.start = start, !.end = end]}
        BY <4>1
      <4>3. Handler!Announced(e, row) = Announced(e, row)
        BY <3>2
      <4>4. Handler!SubscriptionStatus = SubscriptionStatus
        BY DEF Handler!SubscriptionStatus, SubscriptionStatus
      <4> QED BY <4>1, <4>2, <4>3, <4>4 DEF Rewritten
    <3> QED BY <1>3, <2>4, <3>1, <3>3
            DEF Handler!ChangesSubscription, Handler!RowUpdated
  <2> QED BY <2>1, <2>2, <2>3, <2>4
<1> QED BY <1>2, <1>3

\* Rows have only dates that were there, were read off the clock or came with
\* an event.
DatesInv ==
    \A row \in subscriptions : row.start \in Starts /\ row.end \in Ends

\* An UPDATE that was flushed has the row's lock: no request has it.
WaitInv ==
    \A d \in Deliveries :
        delivery_pc[d] = "commit" /\ loaded[d] # {} /\ wanted[d] # loaded[d] =>
            \A r \in Requests : event[d].subscription \notin locked[r]

SharedInv ==
    /\ Handler!TypeOK
    /\ Handler!WebhookInv
    /\ DOMAIN locked = Requests
    /\ WaitInv
    /\ DatesInv

\* The dates an event announces are dates rows may have.
LEMMA AnnouncedDates ==
    ASSUME NEW e \in Events, NEW row \in Handler!SubscriptionRow,
           row.start \in Starts, row.end \in Ends
    PROVE  Announced(e, row).start \in Starts /\ Announced(e, row).end \in Ends
<1>1. Announced(e, row).start \in {row.start} \cup ({e.start} \ {Absent})
  BY DEF Announced, DateFor, Handler!SubscriptionRow
<1>2. Announced(e, row).end \in {row.end} \cup ({e.end} \ {Absent})
  BY DEF Announced, DateFor, Handler!SubscriptionRow
<1> QED BY <1>1, <1>2 DEF Starts, Ends

\* A statement of a call locks at most the row it waited for.
LEMMA RequestLocks ==
    ASSUME DOMAIN locked = Requests, NEW r \in Requests,
           Request(r) \/ FailRequest(r)
    PROVE  /\ DOMAIN locked' = Requests
           /\ \A q \in Requests : \A s \in locked'[q] \ locked[q] : ~BeingUpdated(s)
<1>1. CASE \E c \in candidates[r] :
            ~BeingUpdated(c.id) /\ (Metering!LockRow(r, c) \/ Metering!PassOver(r, c))
  <2>1. PICK c \in candidates[r] :
          ~BeingUpdated(c.id) /\ (Metering!LockRow(r, c) \/ Metering!PassOver(r, c))
    BY <1>1
  <2>2. \/ locked' = [locked EXCEPT ![r] = @ \cup {c.id}]
        \/ locked' = [locked EXCEPT ![r] = {}]
    BY <2>1
       DEF Metering!LockRow, Metering!PassOver, Metering!TakeRowLock,
           Metering!Refuse, Metering!Respond, Metering!EndTransaction
  <2> QED BY <2>1, <2>2
<1>2. CASE locked' = locked \/ locked' = [locked EXCEPT ![r] = {}]
  BY <1>2
<1> QED
  BY <1>1, <1>2
     DEF Request, FailRequest, Metering!LoadTenant, Metering!ReplayStored,
         Metering!CheckTenant, Metering!SelectSubscription,
         Metering!NoSubscription, Metering!SumUsage, Metering!InsertEvent,
         Metering!Commit, Metering!ReplyCreated, Metering!ReadWinner,
         Metering!AbortDeadlocked, Metering!Fail, Metering!Refuse,
         Metering!Respond, Metering!EndTransaction, Metering!session

\* What a delivery has done when its flush is over.
LEMMA FlushedUpdate ==
    ASSUME Handler!TypeOK, Handler!WebhookInv, NEW d \in Deliveries,
           Delivery(d) \/ FailDelivery(d) \/ Redeliver(d)
    PROVE  /\ \A other \in Deliveries \ {d} :
                  /\ delivery_pc'[other] = delivery_pc[other]
                  /\ loaded'[other] = loaded[other]
                  /\ wanted'[other] = wanted[other]
           /\ UNCHANGED event
           /\ delivery_pc'[d] = "commit" /\ loaded'[d] # {} =>
                  /\ UNCHANGED <<loaded, wanted>>
                  /\ ~HeldByRequest(d)
<1> USE DEF Hooks!Goto, Hooks!EndTransaction, Hooks!ReturnUnchanged, Hooks!session,
            Hooks!tables
<1>1. delivery_pc \in [Deliveries -> Handler!PC]
      /\ DOMAIN loaded = Deliveries /\ DOMAIN wanted = Deliveries
  BY DEF Handler!TypeOK
<1>2. delivery_pc[d] = "dispatch" => loaded[d] = {}
  BY DEF Handler!WebhookInv, Handler!SessionInv
<1>3. CASE ~HeldByRequest(d) /\ Hooks!FlushSubscription(d)
  BY <1>1, <1>3 DEF Hooks!FlushSubscription
<1>4. CASE Hooks!MarkProcessedOrSkip(d)
  BY <1>1, <1>4 DEF Hooks!MarkProcessedOrSkip
<1>5. CASE Hooks!IgnoreUnhandledType(d)
  BY <1>1, <1>2, <1>5 DEF Hooks!IgnoreUnhandledType
<1>6. CASE Hooks!LoadCustomer(d)
  BY <1>1, <1>2, <1>6 DEF Hooks!LoadCustomer
<1>7. CASE Hooks!LoadPlan(d)
  BY <1>1, <1>7 DEF Hooks!LoadPlan
<1>8. CASE Hooks!LoadSubscription(d)
  BY <1>1, <1>2, <1>8 DEF Hooks!LoadSubscription
<1>9. CASE Hooks!LoadOwner(d)
  BY <1>1, <1>9 DEF Hooks!LoadOwner
<1>10. CASE Hooks!FlushTenant(d)
  BY <1>1, <1>10 DEF Hooks!FlushTenant
<1>11. CASE Hooks!Commit(d)
  BY <1>1, <1>11 DEF Hooks!Commit
<1>12. CASE Hooks!Reply(d)
  BY <1>1, <1>12 DEF Hooks!Reply
<1>13. CASE Hooks!Fail(d)
  BY <1>1, <1>13 DEF Hooks!Fail
<1>14. CASE Hooks!Redeliver(d)
  BY <1>1, <1>14 DEF Hooks!Redeliver
<1> QED
  BY <1>3, <1>4, <1>5, <1>6, <1>7, <1>8, <1>9, <1>10, <1>11, <1>12, <1>13, <1>14
     DEF Delivery, FailDelivery, Redeliver

LEMMA RequestWaits ==
    ASSUME SharedInv, NEW r \in Requests, Request(r) \/ FailRequest(r)
    PROVE  WaitInv'
<1> SUFFICES ASSUME NEW d \in Deliveries,
                    delivery_pc[d] = "commit", loaded[d] # {}, wanted[d] # loaded[d]
             PROVE  BeingUpdated(event[d].subscription)
  BY RequestLocks, RequestChanges DEF SharedInv, WaitInv, deliveryVars
<1>1. PICK old : old \in loaded[d] /\ old.id = event[d].subscription
  BY DEF SharedInv, Handler!WebhookInv, Handler!SessionInv
<1>2. Handler!Announced(event[d], old) \in wanted[d]
  BY <1>1 DEF SharedInv, Handler!WebhookInv, Handler!SessionInv
<1>3. Handler!Announced(event[d], old).id = old.id
  BY <1>1, HandlerAssumption, Handler!AnnouncedType
     DEF SharedInv, Handler!TypeOK, Handler!EventsAssumption
<1> QED BY <1>1, <1>2, <1>3
        DEF BeingUpdated, Hooks!SubscriptionLocked, Hooks!ChangesSubscription

LEMMA DeliveryWaits ==
    ASSUME SharedInv, NEW d \in Deliveries,
           Delivery(d) \/ FailDelivery(d) \/ Redeliver(d)
    PROVE  WaitInv'
<1>1. UNCHANGED requestVars
  BY DEF Delivery, FailDelivery, Redeliver
<1> SUFFICES ASSUME delivery_pc'[d] = "commit", loaded'[d] # {}, wanted'[d] # loaded'[d],
                    NEW r \in Requests
             PROVE  event[d].subscription \notin locked[r]
  BY <1>1, FlushedUpdate DEF SharedInv, WaitInv, requestVars
<1>2. UNCHANGED <<loaded, wanted>> /\ ~HeldByRequest(d)
  BY FlushedUpdate DEF SharedInv
<1> QED BY <1>2 DEF HeldByRequest, Hooks!ChangesSubscription

\* Everything but the COMMIT of a delivery leaves the table alone.
LEMMA OnlyCommitWrites ==
    ASSUME NEW d \in Deliveries, Delivery(d) \/ FailDelivery(d) \/ Redeliver(d)
    PROVE  Hooks!Commit(d) \/ UNCHANGED subscriptions
  BY DEF Delivery, FailDelivery, Redeliver, Hooks!MarkProcessedOrSkip,
         Hooks!IgnoreUnhandledType, Hooks!LoadCustomer, Hooks!LoadPlan,
         Hooks!LoadSubscription, Hooks!LoadOwner, Hooks!FlushTenant,
         Hooks!FlushSubscription, Hooks!Reply, Hooks!Fail, Hooks!Redeliver,
         Hooks!tables

LEMMA CommitDates ==
    ASSUME SharedInv, NEW d \in Deliveries, Hooks!Commit(d)
    PROVE  DatesInv'
<1> DEFINE e == event[d]
<1>1. clock \in 0 .. MaxClock /\ e \in Events
  BY DEF SharedInv, Handler!TypeOK
<1>2. CASE UNCHANGED subscriptions
  BY <1>2 DEF SharedInv, DatesInv
<1>3. CASE Sold(e)
  <2>1. PICK now \in 0 .. clock : subscriptions' = subscriptions \cup {Bought(e, now)}
    BY <1>3 DEF Sold
  <2>2. now \in 0 .. MaxClock
    BY <1>1, <2>1, HandlerAssumption DEF Handler!WebhooksAssumption
  <2>3. Bought(e, now).start \in Starts /\ Bought(e, now).end \in Ends
    BY <2>2 DEF Bought, Starts, Ends
  <2> QED BY <2>1, <2>3 DEF SharedInv, DatesInv
<1>4. CASE Rewritten(e)
  <2>0. PICK row \in subscriptions :
          \E status \in SubscriptionStatus,
             start \in {row.start, Announced(e, row).start},
             end \in {row.end, Announced(e, row).end} :
          subscriptions' = (subscriptions \ {row}) \cup
            {[row EXCEPT !.status = status, !.start = start, !.end = end]}
    BY <1>4 DEF Rewritten
  <2>1. PICK status \in SubscriptionStatus,
             start \in {row.start, Announced(e, row).start},
             end \in {row.end, Announced(e, row).end} :
          subscriptions' = (subscriptions \ {row}) \cup
            {[row EXCEPT !.status = status, !.start = start, !.end = end]}
    BY <2>0
  <2>2. row \in Handler!SubscriptionRow /\ row.start \in Starts /\ row.end \in Ends
    BY <2>1 DEF SharedInv, DatesInv, Handler!TypeOK
  <2>3. start \in Starts /\ end \in Ends
    BY <1>1, <2>1, <2>2, AnnouncedDates
  <2>4. [row EXCEPT !.status = status, !.start = start, !.end = end].start = start
        /\ [row EXCEPT !.status = status, !.start = start, !.end = end].end = end
    BY <2>2 DEF Handler!SubscriptionRow
  <2> QED BY <2>1, <2>3, <2>4 DEF SharedInv, DatesInv
<1> QED BY <1>2, <1>3, <1>4, DeliveryCommit DEF SharedInv

LEMMA InitShared == Init => WaitInv /\ DatesInv /\ DOMAIN locked = Requests
<1> SUFFICES ASSUME Init
             PROVE  WaitInv /\ DatesInv /\ DOMAIN locked = Requests
  OBVIOUS
<1>1. WaitInv
  BY DEF Init, Hooks!Init, WaitInv
<1>2. DatesInv
  BY DEF Init, Hooks!Init, DatesInv, Starts, Ends
<1>3. DOMAIN locked = Requests
  BY DEF Init, Metering!Init
<1> QED BY <1>1, <1>2, <1>3

LEMMA NextShared ==
    ASSUME SharedInv, [Next]_vars
    PROVE  WaitInv' /\ DatesInv' /\ DOMAIN locked' = Requests
<1>1. ASSUME NEW r \in Requests, Request(r) \/ FailRequest(r)
      PROVE  WaitInv' /\ DatesInv' /\ DOMAIN locked' = Requests
  BY <1>1, RequestWaits, RequestLocks, RequestChanges DEF SharedInv, DatesInv
<1>2. ASSUME NEW d \in Deliveries, Delivery(d) \/ FailDelivery(d) \/ Redeliver(d)
      PROVE  WaitInv' /\ DatesInv' /\ DOMAIN locked' = Requests
  <2>1. DatesInv'
    BY <1>2, OnlyCommitWrites, CommitDates DEF SharedInv, DatesInv
  <2>2. UNCHANGED locked
    BY <1>2 DEF Delivery, FailDelivery, Redeliver, requestVars
  <2> QED BY <1>2, <2>1, <2>2, DeliveryWaits DEF SharedInv
<1>3. CASE UNCHANGED <<subscriptions, locked, delivery_pc, loaded, wanted, event>>
  BY <1>3 DEF SharedInv, WaitInv, DatesInv
<1> QED
  BY <1>1, <1>2, <1>3
     DEF Next, Connect, Tick, Quiescent, vars, requestVars, deliveryVars

LEMMA SpecShared == Spec => []SharedInv
<1>1. SharedInv <=> /\ Handler!TypeOK /\ Handler!WebhookInv
                    /\ WaitInv /\ DatesInv /\ DOMAIN locked = Requests
  BY DEF SharedInv
<1>2. SharedInv /\ [Next]_vars => WaitInv' /\ DatesInv' /\ (DOMAIN locked = Requests)'
  BY NextShared
<1> QED BY <1>1, <1>2, SpecHandler, InitShared, PTL DEF Spec

\* A COMMIT is one step of the environment that MeteringEngine allows for.
LEMMA CommitIsEnvironment ==
    ASSUME SharedInv, NEW d \in Deliveries, Delivery(d), Hooks!Commit(d)
    PROVE  Metering!Environment \/ UNCHANGED Metering!vars
<1> DEFINE e == event[d]
<1>1. UNCHANGED <<clock, events, records, pc, call, candidates, locked, held, draft,
                  answer>>
  BY DEF Delivery, Hooks!Commit, requestVars
<1>2. e \in Events /\ e.subscription \in Subscriptions
  BY EventsAssumption DEF SharedInv, Handler!TypeOK, Event
<1>3. CASE UNCHANGED subscriptions
  BY <1>1, <1>3 DEF Metering!vars
<1>4. CASE Sold(e)
  <2>1. Owner[e.subscription] = e.customer
    BY <1>2, <1>4, BillingAssumption DEF Sold
  <2>2. Metering!AddSubscription(e.subscription)
    BY <1>1, <1>4, <2>1 DEF Sold, Bought, Metering!AddSubscription, Metering!session
  <2> QED BY <1>2, <2>2 DEF Metering!Environment
<1>5. CASE /\ loaded[d] # {} /\ wanted[d] # loaded[d]
           /\ Rewritten(e)
  <2>1. \A r \in Requests : e.subscription \notin locked[r]
    BY <1>5 DEF SharedInv, WaitInv, Hooks!Commit
  <2>2. PICK row \in subscriptions :
          /\ row.id = e.subscription
          /\ \E status \in SubscriptionStatus,
                start \in {row.start, Announced(e, row).start},
                end \in {row.end, Announced(e, row).end} :
               subscriptions' = (subscriptions \ {row}) \cup
                 {[row EXCEPT !.status = status, !.start = start, !.end = end]}
    BY <1>5 DEF Rewritten
  <2>3. PICK status \in SubscriptionStatus,
             start \in {row.start, Announced(e, row).start},
             end \in {row.end, Announced(e, row).end} :
          subscriptions' = (subscriptions \ {row}) \cup
            {[row EXCEPT !.status = status, !.start = start, !.end = end]}
    BY <2>2
  <2>4. start \in Starts /\ end \in Ends
    BY <1>2, <2>3, AnnouncedDates DEF SharedInv, DatesInv, Handler!TypeOK
  <2>5. \E period \in (Starts \X Ends) \cup {<<row.start, row.end>>} :
          subscriptions' = (subscriptions \ {row}) \cup
            {[row EXCEPT !.status = status, !.start = period[1], !.end = period[2]]}
    <3> DEFINE period == <<start, end>>
    <3>1. period \in (Starts \X Ends) /\ period[1] = start /\ period[2] = end
      BY <2>4
    <3> HIDE DEF period
    <3> QED BY <2>3, <3>1
  <2>6. Metering!ChangeSubscription(e.subscription)
    BY <1>1, <2>1, <2>2, <2>3, <2>5 DEF Metering!ChangeSubscription, Metering!session
  <2> QED BY <1>2, <2>6 DEF Metering!Environment
<1> QED BY <1>3, <1>4, <1>5, DeliveryCommit DEF SharedInv

LEMMA StepIsMetering ==
    ASSUME SharedInv, [Next]_vars
    PROVE  [Metering!Next]_(Metering!vars)
<1>1. ASSUME NEW r \in Requests, Request(r) \/ FailRequest(r)
      PROVE  Metering!Next
  BY <1>1, RequestChanges DEF Metering!Next
<1>2. ASSUME NEW d \in Deliveries, Delivery(d) \/ FailDelivery(d) \/ Redeliver(d)
      PROVE  Metering!Next \/ UNCHANGED Metering!vars
  <2>1. UNCHANGED <<clock, requestVars>>
    BY <1>2
       DEF Delivery, FailDelivery, Redeliver, Hooks!MarkProcessedOrSkip,
           Hooks!IgnoreUnhandledType, Hooks!LoadCustomer, Hooks!LoadPlan,
           Hooks!LoadSubscription, Hooks!LoadOwner, Hooks!FlushTenant,
           Hooks!FlushSubscription, Hooks!Commit, Hooks!Reply, Hooks!Fail,
           Hooks!Redeliver
  <2>2. CASE UNCHANGED subscriptions
    BY <2>1, <2>2 DEF requestVars, Metering!vars
  <2>3. CASE ~UNCHANGED subscriptions
    <3>1. Delivery(d) /\ Hooks!Commit(d)
      BY <1>2, <2>3, OnlyCommitWrites
         DEF FailDelivery, Redeliver, Hooks!Fail, Hooks!Redeliver, Hooks!tables
    <3> QED BY <3>1, CommitIsEnvironment DEF Metering!Next
  <2> QED BY <2>2, <2>3
<1>3. CASE Tick
  BY <1>3
     DEF Tick, requestVars, Metering!Next, Metering!Environment, Metering!Tick,
         Metering!tables, Metering!session
<1>4. ASSUME NEW d \in Deliveries, Connect(d)
      PROVE  UNCHANGED Metering!vars
  BY <1>4 DEF Connect, requestVars, Metering!vars
<1>5. CASE UNCHANGED vars
  BY <1>5 DEF vars, requestVars, Metering!vars
<1> QED BY <1>1, <1>2, <1>3, <1>4, <1>5 DEF Next, Quiescent

\* What POST /v1/usage promises with webhooks that change a row in one atomic
\* step it promises in the service, where a delivery is many statements that
\* interleave with those of calls.
THEOREM ServiceImplementsMetering == Spec => ImplementsMetering
<1>1. Init => Metering!Init
  BY DEF Init
<1>2. SharedInv /\ [Next]_vars => [Metering!Next]_(Metering!vars)
  BY StepIsMetering
<1> QED BY <1>1, <1>2, SpecShared, PTL DEF Spec, ImplementsMetering, Metering!Spec

LEMMA SpecEngine == Spec => Engine!Spec
  BY ServiceImplementsMetering, SameEngine, PTL DEF ImplementsMetering

-----------------------------------------------------------------------------
(* The connection pool.                                                     *)

\* A connection belongs to a transaction that is open or about to open, and
\* there are no more of them than the pool has.
PoolInv ==
    /\ connections \subseteq Deliveries
    /\ \A d \in connections : delivery_pc[d] \notin {"reply", "done", "failed"}
    /\ IsFiniteSet(Metering!Connected) /\ IsFiniteSet(connections)
    /\ Cardinality(Metering!Connected) + Cardinality(connections) <= PoolSize

\* One more, at most.
LEMMA OneMore ==
    ASSUME NEW S, IsFiniteSet(S), NEW x, NEW T \in SUBSET (S \cup {x})
    PROVE  IsFiniteSet(T) /\ Cardinality(T) <= Cardinality(S) + 1
<1>1. IsFiniteSet(S \cup {x}) /\ Cardinality(S \cup {x}) <= Cardinality(S) + 1
  <2>1. /\ IsFiniteSet(S \cup {x})
        /\ Cardinality(S \cup {x}) =
             IF x \in S THEN Cardinality(S) ELSE Cardinality(S) + 1
    BY FS_AddElement
  <2> QED BY <2>1, FS_CardinalityType
<1>2. IsFiniteSet(T) /\ Cardinality(T) <= Cardinality(S \cup {x})
  BY <1>1, FS_Subset
<1> QED BY <1>1, <1>2, FS_CardinalityType

LEMMA RequestConnects ==
    ASSUME NEW r \in Requests, Request(r) \/ FailRequest(r),
           pc \in [Requests -> Metering!PC]
    PROVE  \/ Metering!Connected' \subseteq Metering!Connected
           \/ /\ ConnectionAvailable
              /\ Metering!Connected' \subseteq Metering!Connected \cup {r}
<1> USE DEF Metering!Connected, Metering!Goto
<1>1. CASE ConnectionAvailable /\ (Metering!LoadTenant(r) \/ Metering!ReadWinner(r))
  BY <1>1
     DEF Metering!LoadTenant, Metering!ReadWinner, Metering!Respond
<1>2. CASE ~(ConnectionAvailable /\ (Metering!LoadTenant(r) \/ Metering!ReadWinner(r)))
  <2>1. \A q \in Requests \ {r} : pc'[q] = pc[q]
    BY <1>2
       DEF Request, FailRequest, Metering!ReplayStored,
           Metering!CheckTenant, Metering!SelectSubscription, Metering!LockRow,
           Metering!PassOver, Metering!NoSubscription, Metering!SumUsage,
           Metering!InsertEvent, Metering!Commit, Metering!ReplyCreated,
           Metering!AbortDeadlocked, Metering!Fail, Metering!Refuse,
           Metering!Respond
  <2>2. r \in Metering!Connected' => r \in Metering!Connected
    BY <1>2
       DEF Request, FailRequest, Metering!ReplayStored,
           Metering!CheckTenant, Metering!SelectSubscription, Metering!LockRow,
           Metering!PassOver, Metering!NoSubscription, Metering!SumUsage,
           Metering!InsertEvent, Metering!Commit, Metering!ReplyCreated,
           Metering!AbortDeadlocked, Metering!Fail, Metering!Refuse,
           Metering!Respond
  <2> QED BY <2>1, <2>2
<1> QED BY <1>1, <1>2

LEMMA RequestPool ==
    ASSUME PoolInv, NEW r \in Requests, Request(r) \/ FailRequest(r),
           pc \in [Requests -> Metering!PC]
    PROVE  PoolInv'
<1> DEFINE now == Metering!Connected
           next == Metering!Connected'
<1>1. UNCHANGED <<connections, delivery_pc>>
  BY RequestChanges DEF deliveryVars
<1>2. PoolSize \in Nat
  BY ComponentsAssumption DEF Metering!ConstantsAssumption
<1>3. Cardinality(now) \in Nat /\ Cardinality(connections) \in Nat
  BY FS_CardinalityType DEF PoolInv
<1>4. IsFiniteSet(next) /\ Cardinality(next) + Cardinality(connections) <= PoolSize
  <2>1. CASE next \subseteq now
    <3>1. IsFiniteSet(next) /\ Cardinality(next) <= Cardinality(now)
      BY <2>1, FS_Subset DEF PoolInv
    <3> QED BY <1>2, <1>3, <3>1, FS_CardinalityType DEF PoolInv
  <2>2. CASE ConnectionAvailable /\ next \subseteq now \cup {r}
    <3>1. IsFiniteSet(next) /\ Cardinality(next) <= Cardinality(now) + 1
      BY <2>2, OneMore DEF PoolInv
    <3> QED BY <1>2, <1>3, <2>2, <3>1, FS_CardinalityType
            DEF PoolInv, ConnectionAvailable
  <2> QED BY <2>1, <2>2, RequestConnects
<1> QED BY <1>1, <1>4 DEF PoolInv

LEMMA ConnectPool ==
    ASSUME PoolInv, NEW d \in Deliveries, Connect(d)
    PROVE  PoolInv'
<1>1. connections' = connections \cup {d} /\ UNCHANGED <<delivery_pc, pc>>
  BY DEF Connect, requestVars
<1>2. Metering!Connected' = Metering!Connected
  BY <1>1 DEF Metering!Connected
<1>3. PoolSize \in Nat /\ Cardinality(Metering!Connected) \in Nat
      /\ Cardinality(connections) \in Nat
  BY ComponentsAssumption, FS_CardinalityType DEF Metering!ConstantsAssumption, PoolInv
<1>4. IsFiniteSet(connections') /\ Cardinality(connections') <= Cardinality(connections) + 1
  BY <1>1, OneMore DEF PoolInv
<1>5. Cardinality(Metering!Connected) + Cardinality(connections) < PoolSize
  BY DEF Connect, ConnectionAvailable
<1>6. Cardinality(connections') \in Nat
  BY <1>4, FS_CardinalityType
<1>7. delivery_pc[d] = "start"
  BY DEF Connect
<1> QED BY <1>1, <1>2, <1>3, <1>4, <1>5, <1>6, <1>7 DEF PoolInv

LEMMA DeliveryPool ==
    ASSUME PoolInv, NEW d \in Deliveries, Delivery(d) \/ FailDelivery(d) \/ Redeliver(d),
           delivery_pc \in [Deliveries -> Handler!PC]
    PROVE  PoolInv'
<1>1. \A other \in Deliveries \ {d} : delivery_pc'[other] = delivery_pc[other]
  BY DEF Delivery, FailDelivery, Redeliver, Hooks!MarkProcessedOrSkip,
         Hooks!IgnoreUnhandledType, Hooks!LoadCustomer, Hooks!LoadPlan,
         Hooks!LoadSubscription, Hooks!LoadOwner, Hooks!FlushTenant,
         Hooks!FlushSubscription, Hooks!Commit, Hooks!Reply, Hooks!Fail,
         Hooks!Redeliver, Hooks!Goto, Hooks!ReturnUnchanged
<1>2. connections' \subseteq connections
  BY DEF Delivery, FailDelivery, Redeliver, ReturnConnection
<1>3. d \in connections' => delivery_pc'[d] \notin {"reply", "done", "failed"}
  <2> SUFFICES ASSUME d \in connections'
               PROVE  delivery_pc'[d] \notin {"reply", "done", "failed"}
    OBVIOUS
  <2>1. d \in connections /\ delivery_pc[d] \notin {"reply", "done", "failed"}
    BY <1>2 DEF PoolInv
  <2>2. ~Redeliver(d) /\ delivery_pc'[d] \notin {"reply", "failed"}
    BY <2>1 DEF Delivery, FailDelivery, Redeliver, ReturnConnection, Hooks!Redeliver
  <2>3. delivery_pc'[d] # "done"
    BY <2>1, <2>2
       DEF Delivery, FailDelivery, Hooks!MarkProcessedOrSkip,
           Hooks!IgnoreUnhandledType, Hooks!LoadCustomer, Hooks!LoadPlan,
           Hooks!LoadSubscription, Hooks!LoadOwner, Hooks!FlushTenant,
           Hooks!FlushSubscription, Hooks!Commit, Hooks!Reply, Hooks!Fail,
           Hooks!Goto, Hooks!ReturnUnchanged
  <2> QED BY <2>2, <2>3
<1>4. Metering!Connected' = Metering!Connected
  BY DEF Delivery, FailDelivery, Redeliver, requestVars, Metering!Connected
<1>5. PoolSize \in Nat /\ Cardinality(Metering!Connected) \in Nat
      /\ Cardinality(connections) \in Nat
  BY ComponentsAssumption, FS_CardinalityType DEF Metering!ConstantsAssumption, PoolInv
<1>6. /\ IsFiniteSet(connections') /\ Cardinality(connections') \in Nat
      /\ Cardinality(connections') <= Cardinality(connections)
  BY <1>2, FS_Subset, FS_CardinalityType DEF PoolInv
<1> QED BY <1>1, <1>2, <1>3, <1>4, <1>5, <1>6 DEF PoolInv

LEMMA InitPool == Init => PoolInv
<1> SUFFICES ASSUME Init
             PROVE  PoolInv
  OBVIOUS
<1>1. Metering!Connected = {} /\ connections = {}
  BY DEF Init, Metering!Init, Metering!Connected
<1> QED BY <1>1, FS_EmptySet, ComponentsAssumption
        DEF PoolInv, Metering!ConstantsAssumption

LEMMA NextPool ==
    ASSUME PoolInv, pc \in [Requests -> Metering!PC],
           delivery_pc \in [Deliveries -> Handler!PC], [Next]_vars
    PROVE  PoolInv'
<1>1. CASE UNCHANGED <<pc, delivery_pc, connections>>
  BY <1>1 DEF PoolInv, Metering!Connected
<1> QED
  BY <1>1, RequestPool, ConnectPool, DeliveryPool
     DEF Next, Tick, Quiescent, vars, requestVars, deliveryVars

\* The components keep their types next to each other, and the pool is never
\* overdrawn nor a connection leaked, however calls and deliveries fail.
THEOREM ServiceTypeCorrect == Spec => []TypeOK
<1>1. Engine!Spec => []Engine!TypeOK
  BY EngineAssumption, Engine!TypeCorrect
<1>2. Engine!TypeOK => pc \in [Requests -> Metering!PC]
  BY DEF Engine!TypeOK, Engine!PC, Metering!PC
<1>3. Handler!TypeOK => delivery_pc \in [Deliveries -> Handler!PC]
  BY DEF Handler!TypeOK
<1>4. /\ PoolInv /\ pc \in [Requests -> Metering!PC]
      /\ delivery_pc \in [Deliveries -> Handler!PC] /\ [Next]_vars
      => PoolInv'
  BY NextPool
<1>5. Spec => []PoolInv
  BY <1>1, <1>2, <1>3, <1>4, SpecEngine, SpecHandler, InitPool, PTL DEF Spec
<1>6. Engine!TypeOK => Metering!TypeOK
  BY DEF Engine!TypeOK, Engine!PC, Engine!SubscriptionRow, Engine!SubscriptionStatus,
         Engine!UsageEvent, Engine!EventTypes, Engine!IdempotencyRecord, Engine!Body,
         Engine!Answer,
         Metering!TypeOK, Metering!PC, Metering!SubscriptionRow,
         Metering!SubscriptionStatus, Metering!UsageEvent, Metering!EventTypes,
         Metering!IdempotencyRecord, Metering!Body, Metering!Answer
<1>7. Handler!TypeOK => Hooks!TypeOK
  BY DEF Handler!TypeOK, Handler!PC, Handler!SubscriptionRow, Handler!TenantImage,
         Handler!SubscriptionStatus, Handler!PlanTypes, Handler!Result,
         Hooks!TypeOK, Hooks!PC, Hooks!SubscriptionRow, Hooks!TenantImage,
         Hooks!SubscriptionStatus, Hooks!PlanTypes, Hooks!Result
<1>8. Metering!TypeOK /\ Hooks!TypeOK /\ PoolInv => TypeOK
  BY DEF PoolInv, TypeOK
<1> QED BY <1>1, <1>5, <1>6, <1>7, <1>8, SpecEngine, SpecHandler, PTL

-----------------------------------------------------------------------------
(* What the row lock buys, with deliveries writing rows statement by         *)
(* statement.                                                               *)

\* Every tenant has one subscription at most.  A tenant made by POST /v1/tenants
\* has one from the start, so its first checkout already makes a second.
OneRowPerTenant ==
    \A s, t \in Subscriptions : Owner[s] = Owner[t] => s = t

LEMMA SpecEngineInv ==
    Spec => [](Engine!TypeOK /\ Engine!LockInv /\ Engine!ExactlyOnceInv)
<1>1. Engine!Spec => [](Engine!TypeOK /\ Engine!LockInv)
  BY EngineAssumption, Engine!SpecLock
<1>2. Engine!Spec => [](Engine!TypeOK /\ Engine!ExactlyOnceInv)
  BY EngineAssumption, Engine!SpecExactlyOnce
<1> QED BY <1>1, <1>2, SpecEngine, PTL

\* The row a quota check works on is what the table holds until the request is
\* over: no delivery's UPDATE gets past the lock.
THEOREM ServiceLockedRowIsCurrent == Spec => []LockedRowIsCurrent
<1>1. Engine!LockInv => LockedRowIsCurrent
  BY DEF Engine!LockInv, Engine!HeldInv, Engine!Reserving,
         LockedRowIsCurrent, Metering!LockedRowIsCurrent
<1> QED BY <1>1, SpecEngineInv, PTL

\* Two calls of a tenant with one row are never both between check and COMMIT.
THEOREM ServiceTenantSerialised ==
    ASSUME OneRowPerTenant
    PROVE  Spec => []TenantSerialised
<1>1. Engine!OneRowPerTenant
  BY DEF OneRowPerTenant, Engine!OneRowPerTenant
<1>2. Engine!Spec => []Engine!TenantSerialised
  BY <1>1, EngineAssumption, Engine!TenantsAreSerialised
<1>3. Engine!TenantSerialised => TenantSerialised
  BY DEF Engine!TenantSerialised, TenantSerialised, Metering!TenantSerialised
<1> QED BY <1>2, <1>3, SpecEngine, PTL

\* A call that passed the quota check still fits when it commits, whatever the
\* deliveries do meanwhile.
THEOREM ServiceAdmissionSound ==
    ASSUME OneRowPerTenant
    PROVE  Spec => []AdmissionSound
<1>1. Engine!OneRowPerTenant
  BY DEF OneRowPerTenant, Engine!OneRowPerTenant
<1>2. Engine!Spec => []Engine!AdmissionSound
  BY <1>1, EngineAssumption, Engine!AdmissionStaysSound
<1>3. Engine!AdmissionSound => AdmissionSound
  BY DEF Engine!AdmissionSound, Engine!Admitted, Engine!Exceeds, Engine!Used,
         Engine!PeriodEvents, Engine!TotalQuantity, Engine!Units,
         Engine!Cardinality, Engine!IsFiniteSet,
         AdmissionSound, Metering!AdmissionSound, Metering!Admitted,
         Metering!Exceeds, Metering!Used, Metering!PeriodEvents,
         Metering!TotalQuantity, Metering!Units, Metering!Cardinality,
         Metering!IsFiniteSet
<1> QED BY <1>2, <1>3, SpecEngine, PTL

\* Only the COMMIT of a call adds events.
LEMMA OnlyMeteringCommits ==
    ASSUME [Next]_vars
    PROVE  \/ UNCHANGED <<events, records>>
           \/ \E r \in Requests : Metering!Commit(r)
  BY DEF Next, Request, FailRequest, Delivery, FailDelivery, Redeliver, Connect,
         Tick, Quiescent, vars, requestVars, Metering!LoadTenant,
         Metering!ReplayStored, Metering!CheckTenant,
         Metering!SelectSubscription, Metering!LockRow, Metering!PassOver,
         Metering!NoSubscription, Metering!SumUsage, Metering!InsertEvent,
         Metering!ReplyCreated, Metering!ReadWinner, Metering!AbortDeadlocked,
         Metering!Fail, Metering!Refuse, Metering!Respond, Metering!tables

\* Every event is billed under a subscription that is ACTIVE in the table when
\* it commits, although the status was checked several statements before.
THEOREM ServiceBilledAsSubscribed == Spec => BilledAsSubscribed
<1> DEFINE Step == \A e \in events' \ events :
                     \E row \in subscriptions, rec \in records' :
                       /\ row.tenant = e.tenant /\ row.status = "active"
                       /\ rec.key = e.key /\ rec.body.plan = row.plan
<1>1. Engine!LockInv /\ Engine!ExactlyOnceInv /\ [Next]_vars => [Step]_vars
  <2> SUFFICES ASSUME Engine!LockInv, Engine!ExactlyOnceInv, [Next]_vars
               PROVE  Step
    OBVIOUS
  <2>1. CASE UNCHANGED <<events, records>>
    BY <2>1
  <2>2. ASSUME NEW r \in Requests, Metering!Commit(r)
        PROVE  Step
    <3>1. PICK f \in draft[r], row \in held[r] :
            /\ events' = events \cup {f}
            /\ records' = records \cup
                 {[ key |-> call[r].key, status_code |-> 201,
                    body |-> Metering!ResponseBody(f, row.plan) ]}
      BY <2>2 DEF Metering!Commit
    <3>2. /\ row \in subscriptions /\ row.status = "active"
          /\ row.tenant = call[r].tenant
      BY <2>2 DEF Metering!Commit, Engine!LockInv, Engine!HeldInv, Engine!OwnRowsInv,
             Engine!Reserving
    <3>3. f.tenant = call[r].tenant /\ f.key = call[r].key
      BY DEF Engine!ExactlyOnceInv, Engine!DraftInv, Engine!Describes, Engine!Asked
    <3> DEFINE rec == [ key |-> call[r].key, status_code |-> 201,
                        body |-> Metering!ResponseBody(f, row.plan) ]
    <3>4. rec \in records' /\ rec.key = call[r].key /\ rec.body.plan = row.plan
      BY <3>1 DEF Metering!ResponseBody
    <3> HIDE DEF rec
    <3> QED BY <3>1, <3>2, <3>3, <3>4
  <2> QED BY <2>1, <2>2, OnlyMeteringCommits
<1>2. Engine!TypeOK /\ Engine!LockInv /\ Engine!ExactlyOnceInv /\ [Next]_vars => [Step]_vars
  BY <1>1
<1> QED BY <1>2, SpecEngineInv, PTL DEF Spec, BilledAsSubscribed

================================================================================
