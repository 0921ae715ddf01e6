-------------------------- MODULE BillingPeriodsProofs --------------------------
(***************************************************************************)
(* No billing period is oversold although deliveries announce periods late, *)
(* twice or out of order while calls are metered.                          *)
(***************************************************************************)
EXTENDS BillingProofs

-----------------------------------------------------------------------------
(* What is assumed of Stripe and of the rows there are at the start.       *)

\* Nothing was used before the rows present at the start began, and no period
\* of a subscription begins inside another one.  Periods may have any length
\* and an update may carry one date only.
PeriodsDoNotOverlap ==
    /\ \A row \in InitialRows : row.start = 0
    /\ \A s \in Subscriptions :
         \A start \in BilledStarts(s), period \in BilledPeriods(s) :
             ~(period[1] < start /\ start < period[2])

LEMMA BilledDates ==
    ASSUME NEW s, NEW period \in BilledPeriods(s)
    PROVE  period[1] \in Nat /\ period[2] \in Nat
<1>1. \/ \E row \in InitialRows : period = <<row.start, row.end>>
      \/ \E e \in Events : /\ Absent \notin {e.start, e.end}
                           /\ period = <<e.start, e.end>>
  BY DEF BilledPeriods
<1> QED
  BY <1>1, HandlerAssumption
     DEF Handler!WebhooksAssumption, Handler!EventsAssumption, Handler!Event,
         Handler!Absent, Absent, Handler!SubscriptionRow

-----------------------------------------------------------------------------
(* The inductive invariant.                                                *)

\* What holds of calls and deliveries without any assumption on periods.
ServiceInv ==
    /\ SharedInv
    /\ Engine!TypeOK /\ Engine!LockInv /\ Engine!ExactlyOnceInv
    /\ Engine!UsageInv

\* A delivery under way carries an event whose period has begun.
DueInv ==
    \A d \in Deliveries :
        \/ d \in connections
        \/ delivery_pc[d] \notin {"start", "reply", "done", "failed"}
        => event[d].start <= clock

\* Every row's period has begun, and no event is stamped before the start of the
\* period it was checked in.
BegunInv ==
    /\ \A row \in subscriptions : row.start <= clock
    /\ \A r \in Requests : pc[r] \in {"insert", "inserted"} =>
           \A row \in held[r], e \in draft[r] : row.start <= e.timestamp

\* A tenant with one row, still in the period guessed at checkout, has all its
\* events in it or after it.
GuessInv ==
    \A row \in subscriptions : row.tenant \in Engine!SoleTenants =>
        \/ row.start \in BilledStarts(row.id)
        \/ \A e \in events : e.tenant = row.tenant => row.start <= e.timestamp

LEMMA SpecService == Spec => []ServiceInv
<1>1. Engine!Spec => []Engine!UsageInv
  BY EngineAssumption, Engine!SpecUsage
<1>2. SharedInv /\ Engine!TypeOK /\ Engine!LockInv /\ Engine!ExactlyOnceInv
        /\ Engine!UsageInv => ServiceInv
  BY DEF ServiceInv
<1> QED BY <1>1, <1>2, SpecShared, SpecEngine, SpecEngineInv, PTL

-----------------------------------------------------------------------------
(* Deliveries.                                                             *)

\* What a delivery under way leaves behind, as far as periods go.
LEMMA DeliverySteps ==
    ASSUME SharedInv, DueInv, NEW d \in Deliveries,
           Delivery(d) \/ FailDelivery(d) \/ Redeliver(d)
    PROVE  /\ UNCHANGED <<clock, event, requestVars>>
           /\ \A other \in Deliveries \ {d} :
                  /\ delivery_pc'[other] = delivery_pc[other]
                  /\ loaded'[other] = loaded[other]
           /\ connections' \subseteq connections
           /\ \/ d \in connections'
              \/ delivery_pc'[d] \notin {"start", "reply", "done", "failed"}
              => event[d].start <= clock
           /\ loaded'[d] \subseteq loaded[d] \cup subscriptions
<1> USE DEF Hooks!Goto, Hooks!EndTransaction, Hooks!ReturnUnchanged, Hooks!session,
            Hooks!tables, Delivery, FailDelivery, Redeliver
<1>1. DOMAIN delivery_pc = Deliveries /\ DOMAIN loaded = Deliveries
  BY DEF SharedInv, Handler!TypeOK
<1>2. UNCHANGED <<clock, event, requestVars>>
  BY DEF Hooks!MarkProcessedOrSkip,
         Hooks!IgnoreUnhandledType, Hooks!LoadCustomer, Hooks!LoadPlan,
         Hooks!LoadSubscription, Hooks!LoadOwner, Hooks!FlushTenant,
         Hooks!FlushSubscription, Hooks!Commit, Hooks!Reply, Hooks!Fail,
         Hooks!Redeliver
<1>3. \A other \in Deliveries \ {d} : delivery_pc'[other] = delivery_pc[other]
                                      /\ loaded'[other] = loaded[other]
  BY FlushedUpdate DEF SharedInv
<1>4. connections' \subseteq connections
  BY DEF ReturnConnection
<1>5. loaded'[d] \subseteq loaded[d] \cup subscriptions
  BY <1>1
     DEF Hooks!MarkProcessedOrSkip,
         Hooks!IgnoreUnhandledType, Hooks!LoadCustomer, Hooks!LoadPlan,
         Hooks!LoadSubscription, Hooks!LoadOwner, Hooks!FlushTenant,
         Hooks!FlushSubscription, Hooks!Commit, Hooks!Reply, Hooks!Fail,
         Hooks!Redeliver
<1>6. \/ d \in connections'
      \/ delivery_pc'[d] \notin {"start", "reply", "done", "failed"}
      => \/ d \in connections
         \/ delivery_pc[d] \notin {"start", "reply", "done", "failed"}
  BY <1>1, <1>4
     DEF Hooks!MarkProcessedOrSkip,
         Hooks!IgnoreUnhandledType, Hooks!LoadCustomer, Hooks!LoadPlan,
         Hooks!LoadSubscription, Hooks!LoadOwner, Hooks!FlushTenant,
         Hooks!FlushSubscription, Hooks!Commit, Hooks!Reply, Hooks!Fail,
         Hooks!Redeliver
<1> QED BY <1>2, <1>3, <1>4, <1>5, <1>6 DEF DueInv

LEMMA NextDue ==
    ASSUME Skew = 0, SharedInv, DueInv, [Next]_vars
    PROVE  DueInv'
<1>1. clock \in Nat /\ \A d \in Deliveries : event[d].start \in Int
  BY EventsAssumption, HandlerAssumption
     DEF SharedInv, Handler!TypeOK, Handler!WebhooksAssumption, Event, Absent
<1>2. CASE UNCHANGED <<connections, delivery_pc, event>> /\ clock <= clock'
           /\ clock' \in Nat
  BY <1>1, <1>2 DEF DueInv
<1>3. ASSUME NEW d \in Deliveries, Connect(d)
      PROVE  DueInv'
  BY <1>1, <1>3 DEF Connect, Due, DueInv
<1>4. ASSUME NEW d \in Deliveries, Delivery(d) \/ FailDelivery(d) \/ Redeliver(d)
      PROVE  DueInv'
  BY <1>4, DeliverySteps DEF DueInv
<1>5. ASSUME NEW r \in Requests, Request(r) \/ FailRequest(r)
      PROVE  DueInv'
  BY <1>1, <1>2, <1>5, RequestChanges DEF deliveryVars
<1>6. CASE Tick \/ UNCHANGED vars
  BY <1>1, <1>2, <1>6 DEF Tick, vars, deliveryVars
<1> QED BY <1>3, <1>4, <1>5, <1>6 DEF Next, Quiescent

\* What an UPDATE leaves of a row; a start it writes is one Stripe announced.
Updates(e) ==
    \E row, new :
        /\ row \in subscriptions
        /\ subscriptions' = (subscriptions \ {row}) \cup {new}
        /\ new.id = row.id /\ new.tenant = row.tenant /\ new.plan = row.plan
        /\ \/ new.start = row.start
           \/ new.start = e.start /\ e.start \in BilledStarts(row.id)

LEMMA AnnouncedStart ==
    ASSUME NEW e \in Events, e.type \in {Updated, Deleted},
           NEW row \in Handler!SubscriptionRow, row.id = e.subscription
    PROVE  \/ Announced(e, row).start = row.start
           \/ Announced(e, row).start = e.start /\ e.start \in BilledStarts(row.id)
<1>1. CASE e.type = Updated /\ e.start # Absent
  <2>1. Announced(e, row).start = e.start
    BY <1>1 DEF Announced, DateFor, Updated, Deleted, Handler!SubscriptionRow
  <2> QED BY <1>1, <2>1 DEF BilledStarts
<1>2. CASE e.type = Deleted \/ e.start = Absent
  BY <1>2 DEF Announced, DateFor, Handler!SubscriptionRow
<1> QED BY <1>1, <1>2

LEMMA CommitUpdates ==
    ASSUME SharedInv, NEW d \in Deliveries, Hooks!Commit(d)
    PROVE  \/ UNCHANGED subscriptions
           \/ Sold(event[d])
           \/ Updates(event[d])
<1> DEFINE e == event[d]
<1> SUFFICES ASSUME e.type \in {Updated, Deleted}, Rewritten(e)
             PROVE  Updates(e)
  BY DeliveryCommit DEF SharedInv
<1>1. PICK row \in subscriptions :
        /\ row.id = e.subscription
        /\ \E status \in SubscriptionStatus,
              start \in {row.start, Announced(e, row).start},
              end \in {row.end, Announced(e, row).end} :
             subscriptions' = (subscriptions \ {row}) \cup
               {[row EXCEPT !.status = status, !.start = start, !.end = end]}
  BY DEF Rewritten
<1>2. row \in Handler!SubscriptionRow /\ e \in Events
  BY DEF SharedInv, Handler!TypeOK
<1> DEFINE announced == Announced(e, row)
<1>3. \/ announced.start = row.start
      \/ announced.start = e.start /\ e.start \in BilledStarts(row.id)
  BY <1>1, <1>2, AnnouncedStart
<1> HIDE DEF announced
<1>4. PICK status \in SubscriptionStatus,
           from \in {row.start, announced.start}, until \in {row.end, announced.end} :
        subscriptions' = (subscriptions \ {row}) \cup
          {[row EXCEPT !.status = status, !.start = from, !.end = until]}
  BY <1>1 DEF announced
<1> DEFINE new == [row EXCEPT !.status = status, !.start = from, !.end = until]
<1>5. /\ new.id = row.id /\ new.tenant = row.tenant /\ new.plan = row.plan
      /\ new.start \in {row.start, announced.start}
  BY <1>2 DEF Handler!SubscriptionRow
<1>6. subscriptions' = (subscriptions \ {row}) \cup {new}
  BY <1>4
<1> HIDE DEF new
<1> QED BY <1>3, <1>5, <1>6 DEF Updates

\* Who buys a first and only subscription has no events yet.
LEMMA SoldFirst ==
    ASSUME ServiceInv, NEW e \in Events, Sold(e), e.customer \in Engine!SoleTenants
    PROVE  \A f \in events : f.tenant # e.customer
<1> SUFFICES ASSUME NEW f \in events, f.tenant = e.customer
             PROVE  FALSE
  OBVIOUS
<1>1. PICK row \in subscriptions : row.tenant = e.customer
  BY DEF ServiceInv, Engine!UsageInv
<1>2. Owner[e.subscription] = e.customer /\ e.subscription \in Subscriptions
  BY BillingAssumption, EventsAssumption DEF Sold, Event
<1>3. row.id \in Subscriptions /\ Owner[row.id] = e.customer
  BY <1>1 DEF ServiceInv, Engine!TypeOK, Engine!SubscriptionRow
<1>4. row.id = e.subscription
  BY <1>2, <1>3 DEF Engine!SoleTenants
<1> QED BY <1>4 DEF Sold

\* Rows stay begun when a delivery commits.
LEMMA CommitBegun ==
    ASSUME ServiceInv, DueInv, BegunInv, NEW d \in Deliveries, Delivery(d),
           Hooks!Commit(d)
    PROVE  BegunInv'
<1> DEFINE e == event[d]
<1>1. UNCHANGED <<clock, pc, held, draft>>
  BY DEF Delivery, Hooks!Commit, requestVars
<1>2. clock \in Nat /\ e.start <= clock
  BY HandlerAssumption
     DEF ServiceInv, SharedInv, Handler!TypeOK, Handler!WebhooksAssumption, DueInv,
         Hooks!Commit
<1>3. CASE UNCHANGED subscriptions
  BY <1>1, <1>3 DEF BegunInv
<1>4. CASE Sold(e)
  <2>1. PICK now \in 0 .. clock : subscriptions' = subscriptions \cup {Bought(e, now)}
    BY <1>4 DEF Sold
  <2>2. Bought(e, now).start <= clock
    BY <1>2, <2>1 DEF Bought
  <2> QED BY <1>1, <2>1, <2>2 DEF BegunInv
<1>5. CASE Updates(e)
  BY <1>1, <1>2, <1>5 DEF Updates, BegunInv
<1> QED BY <1>3, <1>4, <1>5, CommitUpdates DEF ServiceInv

\* A checkout opens the guessed period for a tenant without events, and an
\* update leaves it only for one that Stripe bills.
LEMMA CommitGuess ==
    ASSUME ServiceInv, GuessInv, NEW d \in Deliveries, Delivery(d), Hooks!Commit(d)
    PROVE  GuessInv'
<1> DEFINE e == event[d]
<1>1. UNCHANGED events /\ e \in Events
  BY DEF Delivery, requestVars, ServiceInv, SharedInv, Handler!TypeOK
<1>2. CASE UNCHANGED subscriptions
  BY <1>1, <1>2 DEF GuessInv
<1>3. CASE Sold(e)
  <2>1. PICK now \in 0 .. clock : subscriptions' = subscriptions \cup {Bought(e, now)}
    BY <1>3 DEF Sold
  <2> DEFINE new == Bought(e, now)
  <2>2. new.tenant = e.customer
    BY DEF Bought
  <2>3. new.tenant \in Engine!SoleTenants => \A f \in events : f.tenant # new.tenant
    BY <1>1, <1>3, <2>2, SoldFirst
  <2> HIDE DEF new
  <2> QED BY <1>1, <2>1, <2>3 DEF GuessInv, new
<1>4. CASE Updates(e)
  BY <1>1, <1>4 DEF Updates, GuessInv
<1> QED BY <1>2, <1>3, <1>4, CommitUpdates DEF ServiceInv

-----------------------------------------------------------------------------
(* Calls.                                                                  *)

\* The event a call is about to write was stamped when its row was current.
LEMMA RequestDrafts ==
    ASSUME Engine!TypeOK, Engine!LockInv, NEW q \in Requests,
           Request(q) \/ FailRequest(q), NEW r \in Requests,
           pc'[r] \in {"insert", "inserted"},
           NEW row \in held'[r], NEW e \in draft'[r]
    PROVE  \/ /\ pc[r] \in {"insert", "inserted"}
              /\ row \in held[r] /\ e \in draft[r]
           \/ e.timestamp = clock /\ row \in subscriptions
<1> USE DEF Metering!Goto, Metering!EndTransaction, Metering!Respond, Metering!Refuse,
            Metering!session
<1>0. /\ DOMAIN pc = Requests /\ DOMAIN held = Requests /\ DOMAIN draft = Requests
  BY DEF Engine!TypeOK
<1>1. CASE Metering!SumUsage(q) /\ r = q
  <2>1. held'[r] \subseteq held[r] /\ pc[r] = "sum"
    BY <1>0, <1>1 DEF Metering!SumUsage
  <2>2. row \in subscriptions
    BY <2>1 DEF Engine!LockInv, Engine!HeldInv, Engine!Reserving
  <2>3. e.timestamp = clock
    BY <1>0, <1>1 DEF Metering!SumUsage, Metering!NewEvent
  <2> QED BY <2>2, <2>3
<1>2. CASE ~(Metering!SumUsage(q) /\ r = q)
  <2>1. /\ pc[r] \in {"insert", "inserted"}
        /\ held'[r] = held[r] /\ draft'[r] = draft[r]
    BY <1>0, <1>2, RequestChanges
       DEF Metering!Step, Metering!LoadTenant, Metering!ReplayStored,
           Metering!CheckTenant, Metering!SelectSubscription,
           Metering!LockSubscription, Metering!LockRow, Metering!SkipSubscription,
           Metering!PassOver, Metering!NoSubscription, Metering!SumUsage,
           Metering!InsertEvent, Metering!Commit, Metering!ReplyCreated,
           Metering!ReadWinner, Metering!AbortDeadlocked, Metering!Fail
  <2> QED BY <2>1
<1> QED BY <1>1, <1>2

LEMMA SameMeteringCommit ==
    ASSUME NEW r \in Requests
    PROVE  Metering!Commit(r) <=> Engine!Commit(r)
  BY DEF Metering!Commit, Metering!Goto, Metering!ResponseBody,
         Engine!Commit, Engine!Goto, Engine!ResponseBody

LEMMA OtherRequestStep ==
    ASSUME NEW r \in Requests, Request(r) \/ FailRequest(r), ~Metering!Commit(r)
    PROVE  UNCHANGED events
  BY RequestChanges
     DEF Metering!Step, Metering!LoadTenant, Metering!ReplayStored,
         Metering!CheckTenant, Metering!SelectSubscription,
         Metering!LockSubscription, Metering!LockRow, Metering!SkipSubscription,
         Metering!PassOver, Metering!NoSubscription, Metering!SumUsage,
         Metering!InsertEvent, Metering!ReplyCreated, Metering!ReadWinner,
         Metering!AbortDeadlocked, Metering!Fail, Metering!Refuse,
         Metering!Respond, Metering!tables

\* A call that goes from the INSERT to the answer commits.
LEMMA RepliesCommit ==
    ASSUME ServiceInv, [Next]_vars, NEW r \in Requests,
           pc[r] = "inserted", pc'[r] = "reply"
    PROVE  Metering!Commit(r)
<1>1. pc \in [Requests -> Engine!PC]
  BY DEF ServiceInv, Engine!TypeOK
<1>2. PICK q \in Requests : Request(q) \/ FailRequest(q)
  BY DEF Next, Delivery, FailDelivery, Redeliver, Connect, Tick, Quiescent, vars,
         requestVars
<1>3. Metering!Step(q) \/ Metering!Fail(q)
  BY <1>2, RequestChanges
<1> QED
  BY <1>1, <1>3
     DEF Metering!Step, Metering!LoadTenant, Metering!ReplayStored,
         Metering!CheckTenant, Metering!SelectSubscription,
         Metering!LockSubscription, Metering!LockRow, Metering!SkipSubscription,
         Metering!PassOver, Metering!NoSubscription, Metering!SumUsage,
         Metering!InsertEvent, Metering!Commit, Metering!ReplyCreated,
         Metering!ReadWinner, Metering!AbortDeadlocked, Metering!Fail,
         Metering!Refuse, Metering!Respond, Metering!Goto

\* What a call commits is stamped after the start of its row's period.
LEMMA NextBegun ==
    ASSUME ServiceInv, DueInv, BegunInv, [Next]_vars
    PROVE  BegunInv'
<1>1. CASE UNCHANGED <<clock, subscriptions, requestVars>>
  BY <1>1 DEF BegunInv, requestVars
<1>2. ASSUME NEW d \in Deliveries, Delivery(d) \/ FailDelivery(d) \/ Redeliver(d)
      PROVE  BegunInv'
  <2>1. UNCHANGED <<clock, requestVars>>
    BY <1>2, DeliverySteps DEF ServiceInv
  <2>2. CASE ~UNCHANGED subscriptions
    <3>1. Delivery(d) /\ Hooks!Commit(d)
      BY <1>2, <2>2, OnlyCommitWrites
         DEF FailDelivery, Redeliver, Hooks!Fail, Hooks!Redeliver, Hooks!tables
    <3> QED BY <3>1, CommitBegun
  <2> QED BY <1>1, <2>1, <2>2
<1>3. CASE Tick
  <2>1. clock \in Nat /\ \A row \in subscriptions : row.start \in Nat
    BY DEF ServiceInv, Engine!TypeOK, Engine!SubscriptionRow
  <2>2. \A row \in subscriptions : row.start <= clock + 1
    BY <2>1 DEF BegunInv
  <2> QED BY <1>3, <2>2 DEF Tick, BegunInv, requestVars
<1>4. ASSUME NEW q \in Requests, Request(q) \/ FailRequest(q)
      PROVE  BegunInv'
  <2>1. UNCHANGED <<clock, subscriptions>>
    BY <1>4, RequestChanges
  <2>2. ASSUME NEW r \in Requests, pc'[r] \in {"insert", "inserted"},
               NEW row \in held'[r], NEW e \in draft'[r]
        PROVE  row.start <= e.timestamp
    BY <1>4, <2>2, RequestDrafts DEF ServiceInv, BegunInv
  <2> QED BY <2>1, <2>2 DEF BegunInv
<1> QED BY <1>1, <1>2, <1>3, <1>4 DEF Next, Connect, Quiescent, vars

-----------------------------------------------------------------------------
(* What a call commits fits into the billed period it falls into.          *)

\* Both instances of the metering module sum alike, before and after a step.
LEMMA SameUsed ==
    ASSUME NEW row, NEW type
    PROVE  /\ Metering!Used(row, type) = Engine!Used(row, type)
           /\ Metering!Used(row, type)' = Engine!Used(row, type)'
  BY DEF Metering!Used, Metering!PeriodEvents, Metering!TotalQuantity,
         Metering!Units, Metering!Cardinality, Metering!IsFiniteSet,
         Engine!Used, Engine!PeriodEvents, Engine!TotalQuantity, Engine!Units,
         Engine!Cardinality, Engine!IsFiniteSet

\* The event and the row of a call that commits.
LEMMA CallCommit ==
    ASSUME ServiceInv, NEW r \in Requests, Metering!Commit(r),
           NEW e \in draft[r], NEW mine \in held[r]
    PROVE  /\ Engine!Reserving(r) /\ Engine!Admitted(r) /\ pc[r] = "inserted"
           /\ events' = events \cup {e} /\ UNCHANGED subscriptions
           /\ mine \in subscriptions /\ mine \in Engine!SubscriptionRow
           /\ e \in Engine!UsageEvent
           /\ call[r].tenant \in Tenants
           /\ mine.tenant = call[r].tenant /\ e.tenant = call[r].tenant
<1>1. PICK f \in draft[r], own \in held[r] :
        /\ events' = events \cup {f}
        /\ UNCHANGED subscriptions
        /\ own \in subscriptions
        /\ f.tenant = call[r].tenant /\ own.tenant = call[r].tenant
        /\ f \in Engine!UsageEvent
  BY SameMeteringCommit, EngineAssumption, Engine!CommitFacts DEF ServiceInv
<1>2. pc[r] = "inserted"
  BY DEF Metering!Commit
<1>3. f = e /\ own = mine
  BY <1>2 DEF ServiceInv, Engine!ExactlyOnceInv, Engine!DraftInv
<1>4. mine \in Engine!SubscriptionRow
  BY <1>1, <1>3 DEF ServiceInv, Engine!TypeOK
<1>5. call[r].tenant \in Tenants
  BY EngineAssumption, Engine!CallTenant DEF ServiceInv
<1> QED BY <1>1, <1>2, <1>3, <1>4, <1>5 DEF Engine!Reserving, Engine!Admitted

\* A billed period that holds an event stamped after the row's own start does
\* not begin before it, unless that start is the handler's guess.
LEMMA StartsLater ==
    ASSUME PeriodsDoNotOverlap, NEW row \in Engine!SubscriptionRow,
           row.start \in BilledStarts(row.id), NEW period \in BilledPeriods(row.id),
           NEW now \in Nat, row.start <= now, now < period[2]
    PROVE  row.start <= period[1]
<1>1. ~(period[1] < row.start /\ row.start < period[2])
  BY DEF PeriodsDoNotOverlap, Engine!SubscriptionRow
<1>2. period[1] \in Nat /\ period[2] \in Nat
  BY BilledDates
<1>3. row.start \in Nat
  BY DEF Engine!SubscriptionRow
<1> QED BY <1>1, <1>2, <1>3

\* What the call's own row does not count, that period does not hold either.
LEMMA CoveredPeriod ==
    ASSUME NEW mine, \A f \in events : ~Engine!Late(f, mine),
           mine.start \in Nat, mine.end \in Nat,
           \A f \in events : f.timestamp \in Nat,
           NEW row, row.tenant = mine.tenant, NEW type,
           \A f \in Engine!PeriodEvents(row, type) : mine.start <= f.timestamp
    PROVE  Engine!PeriodEvents(row, type) \subseteq Engine!PeriodEvents(mine, type)
  BY DEF Engine!PeriodEvents, Engine!Late

\* So the event fits there too.
LEMMA FitsAfterCommit ==
    ASSUME Engine!UsageInv, NEW e \in Engine!UsageEvent, events' = events \cup {e},
           NEW mine \in Engine!SubscriptionRow,
           ~Engine!Exceeds(mine, e.event_type, e.quantity), NEW row,
           Engine!PeriodEvents(row, e.event_type)
             \subseteq Engine!PeriodEvents(mine, e.event_type)
    PROVE  Engine!Used(row, e.event_type)' <= Limit[mine.plan][e.event_type]
<1> DEFINE type == e.event_type
<1>1. e.quantity \in Nat /\ Limit[mine.plan][type] \in Nat
  BY EngineAssumption
     DEF Engine!UsageEvent, Engine!ConstantsAssumption, Engine!SubscriptionRow
<1>2. /\ Engine!Used(mine, type) \in Nat /\ Engine!Used(row, type)' \in Nat
      /\ Engine!Used(row, type)' <= Engine!Used(mine, type) + e.quantity
  BY <1>1, EngineAssumption, Engine!AddedUsage DEF Engine!UsageInv
<1>3. Engine!Used(mine, type) + e.quantity <= Limit[mine.plan][type]
  BY <1>1, <1>2 DEF Engine!Exceeds
<1> QED BY <1>1, <1>2, <1>3

\* The row's own start is where counting begins at the earliest.
LEMMA CountedLater ==
    ASSUME PeriodsDoNotOverlap, NEW row \in Engine!SubscriptionRow,
           NEW period \in BilledPeriods(row.id),
           NEW now \in Nat, row.start <= now, now < period[2]
    PROVE  row.start <= CountedFrom(row, period[1]) /\ CountedFrom(row, period[1]) \in Nat
<1>1. row.start \in Nat /\ period[1] \in Nat
  BY BilledDates DEF Engine!SubscriptionRow
<1> QED BY <1>1, StartsLater DEF CountedFrom

LEMMA CommitFits ==
    ASSUME PeriodsDoNotOverlap, ServiceInv, BegunInv, Engine!AdmissionSound,
           Engine!StampIn(Tenants), NEW r \in Requests, Metering!Commit(r),
           NEW row \in held[r], NEW e \in draft[r], NEW period \in BilledPeriods(row.id),
           period[1] <= e.timestamp, e.timestamp < period[2]
    PROVE  UsedBetween(row, CountedFrom(row, period[1]), period[2], e.event_type)'
             <= Limit[row.plan][e.event_type]
<1> DEFINE x == [row EXCEPT !.start = CountedFrom(row, period[1]), !.end = period[2]]
<1>1. /\ Engine!Reserving(r) /\ Engine!Admitted(r) /\ pc[r] = "inserted"
      /\ events' = events \cup {e}
      /\ row \in Engine!SubscriptionRow /\ e \in Engine!UsageEvent
      /\ call[r].tenant \in Tenants
  BY CallCommit
<1>2. /\ row.start <= e.timestamp /\ e.timestamp \in Nat
      /\ row.start \in Nat /\ row.end \in Nat
      /\ \A f \in events : f.timestamp \in Nat
  BY <1>1 DEF BegunInv, ServiceInv, Engine!TypeOK, Engine!UsageEvent, Engine!SubscriptionRow
<1>3. row.start <= CountedFrom(row, period[1]) /\ CountedFrom(row, period[1]) \in Nat
  BY <1>1, <1>2, CountedLater
<1>4. x.tenant = row.tenant /\ x.start = CountedFrom(row, period[1])
  BY <1>1 DEF Engine!SubscriptionRow
<1>5. ~Engine!Exceeds(row, e.event_type, e.quantity)
  BY <1>1 DEF Engine!AdmissionSound
<1>6. \A f \in events : ~Engine!Late(f, row)
  BY <1>1 DEF Engine!StampIn
<1>7. UsedBetween(row, CountedFrom(row, period[1]), period[2], e.event_type)'
        = Engine!Used(x, e.event_type)'
  BY SameUsed DEF UsedBetween
<1> HIDE DEF x
<1>8. \A f \in Engine!PeriodEvents(x, e.event_type) : row.start <= f.timestamp
  BY <1>2, <1>3, <1>4 DEF Engine!PeriodEvents
<1>9. Engine!PeriodEvents(x, e.event_type) \subseteq Engine!PeriodEvents(row, e.event_type)
  BY <1>2, <1>4, <1>6, <1>8, CoveredPeriod
<1> QED BY <1>1, <1>5, <1>7, <1>9, FitsAfterCommit DEF ServiceInv

LEMMA InitBegun ==
    ASSUME PeriodsDoNotOverlap, Init
    PROVE  DueInv /\ BegunInv /\ GuessInv
<1>1. DueInv
  BY DEF Init, Hooks!Init, DueInv
<1>2. BegunInv /\ GuessInv
  BY DEF Init, Metering!Init, BegunInv, GuessInv, PeriodsDoNotOverlap
<1> QED BY <1>1, <1>2

\* As long as no two calls of a tenant are between check and COMMIT together
\* (with one subscription they never are, ServiceTenantSerialised), whatever
\* rows the tenant has and however late, repeated or out of order Stripe's
\* announcements arrive, a call that commits leaves the period Stripe bills for
\* its usage within the plan's limit.
THEOREM CommitsFitBilledPeriods ==
    ASSUME Skew = 0, PeriodsDoNotOverlap
    PROVE  Spec /\ []TenantSerialised => CommitsStayWithinLimit
<1> DEFINE Inv == DueInv /\ BegunInv
           Step == \A r \in Requests : \A row \in held[r], e \in draft[r] :
              pc[r] = "inserted" /\ pc'[r] = "reply" =>
                \A period \in BilledPeriods(row.id) :
                  period[1] <= e.timestamp /\ e.timestamp < period[2] =>
                    UsedBetween(row, CountedFrom(row, period[1]), period[2],
                                e.event_type)'
                      <= Limit[row.plan][e.event_type]
<1>1. Init => Inv
  BY InitBegun
<1>2. ServiceInv /\ Inv /\ [Next]_vars => Inv'
  BY NextDue, NextBegun DEF ServiceInv
<1>3. ServiceInv /\ Inv /\ Engine!AdmissionSound /\ Engine!StampIn(Tenants)
        /\ [Next]_vars => [Step]_vars
  BY CommitFits, RepliesCommit
<1>4. TenantSerialised => Engine!TenantSerialised
  BY DEF TenantSerialised, Metering!TenantSerialised, Engine!TenantSerialised
<1>5. Engine!Spec /\ []Engine!TenantSerialised => []Engine!AdmissionSound
  BY EngineAssumption, Engine!SerialisedAdmission
<1>6. Engine!Spec /\ []Engine!TenantSerialised => []Engine!StampIn(Tenants)
  BY EngineAssumption, Engine!SerialisedStamp
<1> HIDE DEF Inv, Step
<1>7. Spec => []Inv
  BY <1>1, <1>2, SpecService, PTL DEF Spec
<1>8. Spec /\ []TenantSerialised => [][Step]_vars
  BY <1>3, <1>4, <1>5, <1>6, <1>7, SpecService, SpecEngine, PTL DEF Spec
<1> QED BY <1>8 DEF Step, CommitsStayWithinLimit

-----------------------------------------------------------------------------
(* No billed period of a tenant's only subscription is oversold.           *)

\* A tenant with one subscription has one row.
LEMMA SoleRow ==
    ASSUME Engine!TypeOK, NEW row \in subscriptions
    PROVE  /\ OnlySubscription(row.id) => row.tenant \in Engine!SoleTenants
           /\ row.tenant \in Engine!SoleTenants =>
                \A other \in subscriptions : other.tenant = row.tenant => other = row
<1>1. /\ row.tenant = Owner[row.id] /\ row.id \in Subscriptions
      /\ row.tenant \in Tenants
  BY DEF Engine!TypeOK, Engine!SubscriptionRow
<1>2. \A other \in subscriptions : other.tenant = Owner[other.id]
                                   /\ other.id \in Subscriptions
  BY DEF Engine!TypeOK, Engine!SubscriptionRow
<1>3. OnlySubscription(row.id) => row.tenant \in Engine!SoleTenants
  BY <1>1 DEF OnlySubscription, Engine!SoleTenants
<1>4. ASSUME row.tenant \in Engine!SoleTenants, NEW other \in subscriptions,
             other.tenant = row.tenant
      PROVE  other = row
  <2>1. other.id = row.id
    BY <1>1, <1>2, <1>4 DEF Engine!SoleTenants
  <2> QED BY <2>1 DEF Engine!TypeOK
<1> QED BY <1>3, <1>4

LEMMA NextGuess ==
    ASSUME ServiceInv, BegunInv, GuessInv, [Next]_vars
    PROVE  GuessInv'
<1>1. CASE UNCHANGED <<subscriptions, events>>
  BY <1>1 DEF GuessInv
<1>2. ASSUME NEW d \in Deliveries, Delivery(d) \/ FailDelivery(d) \/ Redeliver(d)
      PROVE  GuessInv'
  <2>1. UNCHANGED events
    BY <1>2 DEF Delivery, FailDelivery, Redeliver, requestVars
  <2>2. CASE ~UNCHANGED subscriptions
    <3>1. Delivery(d) /\ Hooks!Commit(d)
      BY <1>2, <2>2, OnlyCommitWrites
         DEF FailDelivery, Redeliver, Hooks!Fail, Hooks!Redeliver, Hooks!tables
    <3> QED BY <3>1, CommitGuess
  <2> QED BY <1>1, <2>1, <2>2
<1>3. ASSUME NEW r \in Requests, Request(r) \/ FailRequest(r)
      PROVE  GuessInv'
  <2>1. CASE ~Metering!Commit(r)
    BY <1>1, <1>3, <2>1, OtherRequestStep, RequestChanges
  <2>2. CASE Metering!Commit(r)
    <3>1. PICK e \in draft[r], mine \in held[r] : TRUE
      BY <2>2 DEF Metering!Commit
    <3>2. /\ pc[r] = "inserted" /\ mine \in subscriptions
          /\ events' = events \cup {e} /\ UNCHANGED subscriptions
          /\ mine.tenant = e.tenant
      BY <2>2, CallCommit
    <3>3. mine.start <= e.timestamp
      BY <3>2 DEF BegunInv
    <3>4. \A row \in subscriptions :
            row.tenant \in Engine!SoleTenants /\ e.tenant = row.tenant => row = mine
      BY <3>2, SoleRow DEF ServiceInv
    <3> QED BY <3>2, <3>3, <3>4 DEF GuessInv
  <2> QED BY <2>1, <2>2
<1> QED BY <1>1, <1>2, <1>3 DEF Next, Connect, Tick, Quiescent, vars, requestVars

QuotaInv ==
    \A row \in subscriptions, type \in Engine!EventTypes :
        OnlySubscription(row.id) =>
            \A period \in BilledPeriods(row.id) :
                Engine!Used([row EXCEPT !.start = period[1], !.end = period[2]], type)
                    <= Limit[row.plan][type]

\* Whatever other billed period the event of a call falls into has no usage that
\* the period the call was checked in does not have.
LEMMA SolePeriod ==
    ASSUME PeriodsDoNotOverlap, ServiceInv, BegunInv, GuessInv,
           Engine!StampIn(Engine!SoleTenants), NEW r \in Requests, Metering!Commit(r),
           NEW e \in draft[r], NEW mine \in held[r],
           mine.tenant \in Engine!SoleTenants, NEW period \in BilledPeriods(mine.id),
           period[1] <= e.timestamp, e.timestamp < period[2],
           NEW row, row.tenant = mine.tenant, row.start = period[1], NEW type
    PROVE  Engine!PeriodEvents(row, type) \subseteq Engine!PeriodEvents(mine, type)
<1>1. /\ Engine!Reserving(r) /\ pc[r] = "inserted"
      /\ mine \in subscriptions /\ mine \in Engine!SubscriptionRow
      /\ e \in Engine!UsageEvent
      /\ mine.tenant = call[r].tenant
  BY CallCommit
<1>2. /\ mine.start <= e.timestamp /\ e.timestamp \in Nat
      /\ mine.start \in Nat /\ mine.end \in Nat /\ period[1] \in Nat
      /\ \A f \in events : f.timestamp \in Nat
  BY <1>1, BilledDates
     DEF BegunInv, ServiceInv, Engine!TypeOK, Engine!UsageEvent, Engine!SubscriptionRow
<1>3. \A f \in events : ~Engine!Late(f, mine)
  BY <1>1 DEF Engine!StampIn
<1>4. \A f \in Engine!PeriodEvents(row, type) : mine.start <= f.timestamp
  <2>1. CASE mine.start \in BilledStarts(mine.id)
    <3>1. mine.start <= period[1]
      BY <1>1, <1>2, <2>1, StartsLater
    <3> QED BY <1>2, <3>1 DEF Engine!PeriodEvents
  <2>2. CASE mine.start \notin BilledStarts(mine.id)
    BY <1>1, <2>2 DEF GuessInv, Engine!PeriodEvents
  <2> QED BY <2>1, <2>2
<1> QED BY <1>2, <1>3, <1>4, CoveredPeriod

LEMMA RequestQuota ==
    ASSUME PeriodsDoNotOverlap, ServiceInv, BegunInv, GuessInv, QuotaInv,
           Engine!AdmissionIn(Engine!SoleTenants), Engine!StampIn(Engine!SoleTenants),
           NEW r \in Requests, Metering!Commit(r)
    PROVE  QuotaInv'
<1>1. PICK e \in draft[r], mine \in held[r] : TRUE
  BY DEF Metering!Commit
<1>2. /\ Engine!Admitted(r) /\ events' = events \cup {e} /\ UNCHANGED subscriptions
      /\ mine \in subscriptions /\ mine \in Engine!SubscriptionRow
      /\ e \in Engine!UsageEvent
      /\ mine.tenant = call[r].tenant /\ e.tenant = call[r].tenant
  BY CallCommit
<1> SUFFICES ASSUME NEW row \in subscriptions, NEW type \in Engine!EventTypes,
                    OnlySubscription(row.id), NEW period \in BilledPeriods(row.id)
             PROVE  Engine!Used([row EXCEPT !.start = period[1],
                                            !.end = period[2]], type)'
                      <= Limit[row.plan][type]
  BY <1>2 DEF QuotaInv
<1> DEFINE x == [row EXCEPT !.start = period[1], !.end = period[2]]
<1>3. x.tenant = row.tenant /\ x.start = period[1] /\ x.end = period[2]
  BY DEF ServiceInv, Engine!TypeOK, Engine!SubscriptionRow
<1>4. Engine!Used(x, type) <= Limit[row.plan][type]
  BY DEF QuotaInv
<1> HIDE DEF x
<1>5. CASE \/ e.tenant # row.tenant \/ e.event_type # type
           \/ ~(period[1] <= e.timestamp /\ e.timestamp < period[2])
  <2>1. Engine!PeriodEvents(x, type)' = Engine!PeriodEvents(x, type)
    BY <1>2, <1>3, <1>5 DEF Engine!PeriodEvents
  <2>2. Engine!Used(x, type)' = Engine!Used(x, type)
    BY <2>1 DEF Engine!Used, Engine!TotalQuantity
  <2> QED BY <1>4, <2>2 DEF x
<1>6. CASE /\ e.tenant = row.tenant /\ e.event_type = type
           /\ period[1] <= e.timestamp /\ e.timestamp < period[2]
  <2>1. row = mine /\ mine.tenant \in Engine!SoleTenants
    BY <1>2, <1>6, SoleRow DEF ServiceInv
  <2>2. Engine!PeriodEvents(x, type) \subseteq Engine!PeriodEvents(mine, type)
    BY <1>3, <1>6, <2>1, SolePeriod
  <2>3. ~Engine!Exceeds(mine, e.event_type, e.quantity)
    BY <1>2, <2>1 DEF Engine!AdmissionIn
  <2>4. Engine!Used(x, type)' <= Limit[row.plan][type]
    BY <1>2, <1>6, <2>1, <2>2, <2>3, FitsAfterCommit DEF ServiceInv
  <2> QED BY <2>4 DEF x
<1> QED BY <1>5, <1>6

LEMMA DeliveryQuota ==
    ASSUME ServiceInv, ServiceInv', QuotaInv, NEW d \in Deliveries, Delivery(d),
           Hooks!Commit(d)
    PROVE  QuotaInv'
<1> DEFINE e == event[d]
<1>1. UNCHANGED events /\ e \in Events
  BY DEF Delivery, requestVars, ServiceInv, SharedInv, Handler!TypeOK
<1>2. \A x, type : Engine!Used(x, type)' = Engine!Used(x, type)
  BY <1>1 DEF Engine!Used, Engine!PeriodEvents
<1>3. subscriptions' \subseteq Engine!SubscriptionRow
      /\ subscriptions \subseteq Engine!SubscriptionRow
  BY DEF ServiceInv, Engine!TypeOK, Engine!SubscriptionRow, Engine!SubscriptionStatus
<1>4. CASE UNCHANGED subscriptions
  BY <1>2, <1>4 DEF QuotaInv
<1>5. CASE Sold(e)
  <2>1. PICK now \in 0 .. clock : subscriptions' = subscriptions \cup {Bought(e, now)}
    BY <1>5 DEF Sold
  <2> DEFINE new == Bought(e, now)
  <2>2. /\ new.tenant = e.customer /\ new.plan \in Plans
        /\ new \in Engine!SubscriptionRow /\ Owner[new.id] = e.customer
    BY <1>1, <1>3, <1>5, <2>1, BillingAssumption DEF Sold, Bought
  <2>3. OnlySubscription(new.id) => \A f \in events : f.tenant # new.tenant
    <3>1. OnlySubscription(new.id) => e.customer \in Engine!SoleTenants
      BY <1>5, <2>2 DEF Sold, OnlySubscription, Engine!SoleTenants
    <3> QED BY <1>1, <1>5, <2>2, <3>1, SoldFirst
  <2> HIDE DEF new
  <2>4. ASSUME OnlySubscription(new.id), NEW type \in Engine!EventTypes, NEW period
        PROVE  Engine!Used([new EXCEPT !.start = period[1], !.end = period[2]], type)
                 <= Limit[new.plan][type]
    <3> DEFINE x == [new EXCEPT !.start = period[1], !.end = period[2]]
    <3>1. x.tenant = new.tenant
      BY <2>2 DEF Engine!SubscriptionRow
    <3> HIDE DEF x
    <3>2. Engine!Used(x, type) = 0
      BY <2>3, <2>4, <3>1, EngineAssumption, Engine!UnusedRow
    <3>3. Limit[new.plan][type] \in Nat
      BY <2>2, EngineAssumption DEF Engine!ConstantsAssumption
    <3> QED BY <3>2, <3>3 DEF x
  <2> QED BY <1>2, <2>1, <2>4 DEF QuotaInv, new
<1>6. CASE Updates(e)
  <2>1. PICK row, new :
          /\ row \in subscriptions
          /\ subscriptions' = (subscriptions \ {row}) \cup {new}
          /\ new.id = row.id /\ new.tenant = row.tenant /\ new.plan = row.plan
    BY <1>6 DEF Updates
  <2>2. ASSUME NEW type, NEW period
        PROVE  Engine!Used([new EXCEPT !.start = period[1], !.end = period[2]], type)
                 = Engine!Used([row EXCEPT !.start = period[1], !.end = period[2]], type)
    <3> DEFINE x == [new EXCEPT !.start = period[1], !.end = period[2]]
               y == [row EXCEPT !.start = period[1], !.end = period[2]]
    <3>1. x.tenant = y.tenant /\ x.start = y.start /\ x.end = y.end
      BY <1>3, <2>1 DEF Engine!SubscriptionRow
    <3> HIDE DEF x, y
    <3>2. Engine!PeriodEvents(x, type) = Engine!PeriodEvents(y, type)
      BY <3>1 DEF Engine!PeriodEvents
    <3>3. Engine!Used(x, type) = Engine!Used(y, type)
      BY <3>2 DEF Engine!Used
    <3> QED BY <3>3 DEF x, y
  <2>3. ASSUME OnlySubscription(new.id), NEW type \in Engine!EventTypes,
               NEW period \in BilledPeriods(new.id)
        PROVE  Engine!Used([new EXCEPT !.start = period[1], !.end = period[2]], type)
                 <= Limit[new.plan][type]
    <3>1. Engine!Used([row EXCEPT !.start = period[1], !.end = period[2]], type)
            <= Limit[row.plan][type]
      BY <2>1, <2>3 DEF QuotaInv
    <3> QED BY <2>1, <2>2, <3>1
  <2> QED BY <1>2, <2>1, <2>3 DEF QuotaInv
<1> QED BY <1>4, <1>5, <1>6, CommitUpdates DEF ServiceInv

LEMMA NextQuota ==
    ASSUME PeriodsDoNotOverlap, ServiceInv, ServiceInv', BegunInv, GuessInv, QuotaInv,
           Engine!AdmissionIn(Engine!SoleTenants), Engine!StampIn(Engine!SoleTenants),
           [Next]_vars
    PROVE  QuotaInv'
<1>1. CASE UNCHANGED <<subscriptions, events>>
  BY <1>1 DEF QuotaInv, Engine!Used, Engine!PeriodEvents
<1>2. ASSUME NEW d \in Deliveries, Delivery(d) \/ FailDelivery(d) \/ Redeliver(d)
      PROVE  QuotaInv'
  <2>1. UNCHANGED events
    BY <1>2 DEF Delivery, FailDelivery, Redeliver, requestVars
  <2>2. CASE ~UNCHANGED subscriptions
    <3>1. Delivery(d) /\ Hooks!Commit(d)
      BY <1>2, <2>2, OnlyCommitWrites
         DEF FailDelivery, Redeliver, Hooks!Fail, Hooks!Redeliver, Hooks!tables
    <3> QED BY <3>1, DeliveryQuota
  <2> QED BY <1>1, <2>1, <2>2
<1>3. ASSUME NEW r \in Requests, Request(r) \/ FailRequest(r)
      PROVE  QuotaInv'
  <2>1. CASE Metering!Commit(r)
    BY <2>1, RequestQuota
  <2>2. CASE ~Metering!Commit(r)
    BY <1>1, <1>3, <2>2, OtherRequestStep, RequestChanges
  <2> QED BY <2>1, <2>2
<1> QED BY <1>1, <1>2, <1>3 DEF Next, Connect, Tick, Quiescent, vars, requestVars

LEMMA InitQuota ==
    ASSUME Init
    PROVE  QuotaInv
<1>1. subscriptions = InitialRows /\ events = {}
  BY DEF Init, Metering!Init
<1>2. \A x, type : Engine!Used(x, type) = 0
  BY <1>1, EngineAssumption, Engine!UnusedRow
<1>3. \A row \in InitialRows, type \in Engine!EventTypes : Limit[row.plan][type] \in Nat
  BY EngineAssumption DEF Engine!ConstantsAssumption, Engine!SubscriptionRow
<1> QED BY <1>1, <1>2, <1>3 DEF QuotaInv

\* However late, repeated or out of order Stripe's announcements arrive, however
\* long its periods are, and however calls race for the last unit, no period
\* Stripe bills for a tenant's only subscription gets more usage than the plan
\* allows; the run ClockSkew shows that this needs a Stripe clock that is not
\* ahead.
THEOREM BilledPeriodsNeverOversold ==
    ASSUME Skew = 0, PeriodsDoNotOverlap
    PROVE  Spec => []NoPeriodOversold
<1> DEFINE Inv == DueInv /\ BegunInv /\ GuessInv /\ QuotaInv
<1>1. Init => Inv
  BY InitBegun, InitQuota
<1>2. /\ ServiceInv /\ ServiceInv' /\ Inv
      /\ Engine!AdmissionIn(Engine!SoleTenants) /\ Engine!StampIn(Engine!SoleTenants)
      /\ [Next]_vars
      => Inv'
  BY NextDue, NextBegun, NextGuess, NextQuota DEF ServiceInv
<1>3. QuotaInv => NoPeriodOversold
  <2> SUFFICES ASSUME QuotaInv,
                      NEW row \in subscriptions, NEW type \in Metering!EventTypes,
                      OnlySubscription(row.id), NEW period \in BilledPeriods(row.id)
               PROVE  Metering!Used([row EXCEPT !.start = period[1],
                                                !.end = period[2]], type)
                        <= Limit[row.plan][type]
    BY DEF NoPeriodOversold, UsedBetween
  <2>1. type \in Engine!EventTypes
    BY DEF Engine!EventTypes, Metering!EventTypes
  <2> QED BY <2>1, SameUsed DEF QuotaInv
<1>4. Engine!Spec => []Engine!AdmissionIn(Engine!SoleTenants)
  BY EngineAssumption, Engine!SoleAdmission
<1>5. Engine!Spec => []Engine!StampIn(Engine!SoleTenants)
  BY EngineAssumption, Engine!SoleStamp
<1>6. Inv => QuotaInv
  OBVIOUS
<1> HIDE DEF Inv
<1>7. Spec => []Inv
  BY <1>1, <1>2, <1>4, <1>5, SpecService, SpecEngine, PTL DEF Spec
<1> QED BY <1>3, <1>6, <1>7, PTL

================================================================================
