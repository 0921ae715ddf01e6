---------------------------- MODULE MeteringEngine ----------------------------
(***************************************************************************)
(* POST /v1/usage from the router to COMMIT: routers/usage.py,             *)
(* MeteringEngine.record_usage and QuotaEnforcer.check_and_reserve, run by *)
(* concurrent requests against PostgreSQL under READ COMMITTED.            *)
(*                                                                         *)
(* One action is one statement sent to the database together with the      *)
(* Python that runs before the next await.  A statement that can wait      *)
(* (SELECT ... FOR UPDATE on a subscription, INSERT on the unique          *)
(* idempotency_key) is enabled when the wait is over.  Tables are sets of  *)
(* rows and hold committed rows only; what a transaction has written and   *)
(* not committed is in its request's own state, so a rollback is the loss  *)
(* of that state.                                                          *)
(***************************************************************************)
EXTENDS UsageUnits

CONSTANTS
    Requests,        \* one identity per HTTP call; also the id of its event
    Tenants,
    Keys,            \* values of the Idempotency-Key header
    Subscriptions,   \* primary keys of the subscriptions table
    Plans,
    Calls,           \* the validated calls clients may make
    Owner,           \* [Subscriptions -> Tenants]
    Limit,           \* [Plans -> [EventTypes -> Nat]]
    TenantTable,     \* [Tenants -> TenantStatus \cup {"absent"}]
    InitialRows,     \* subscriptions present at the start
    StripeStatuses,  \* statuses Stripe may announce for a subscription
    Periods,         \* billing periods Stripe may announce, as <<start, end>>
    PeriodLength,    \* timedelta(days=30)
    PoolSize,        \* DB_POOL_SIZE + DB_MAX_OVERFLOW
    Backend,         \* "postgresql", or "sqlite", which ignores FOR UPDATE
    MaxClock         \* bound on the clock

TenantStatus == {"active", "suspended", "canceled"}
SubscriptionStatus == {"active", "past_due", "canceled", "incomplete"}

Call == [tenant : Tenants, key : Keys, event_type : EventTypes, tokens : Nat]

SubscriptionRow ==
    [ id : Subscriptions, tenant : Tenants, plan : Plans,
      status : SubscriptionStatus, start : Nat, end : Nat ]

\* A usage_events row.  The token columns and the cost are in PricingCalculator.
UsageEvent ==
    [ id : Requests, key : Keys, tenant : Tenants, event_type : EventTypes,
      quantity : Nat, timestamp : Nat ]

\* The response body, stored verbatim in idempotency_records.
Body ==
    [ id : Requests, key : Keys, tenant : Tenants, event_type : EventTypes,
      quantity : Nat, plan : Plans ]

IdempotencyRecord == [key : Keys, status_code : {201}, body : Body]

Answer == [code : {0, 200, 201, 402, 404, 409, 429}, body : SUBSET Body]

NoAnswer == [code |-> 0, body |-> {}]

PC == { "start", "lookup", "select", "lock", "sum", "insert", "inserted",
        "reply", "reread", "done", "failed" }

ASSUME ConstantsAssumption ==
    /\ Calls \subseteq Call
    /\ Owner \in [Subscriptions -> Tenants]
    /\ Limit \in [Plans -> [EventTypes -> Nat]]
    /\ TenantTable \in [Tenants -> TenantStatus \cup {"absent"}]
    /\ InitialRows \subseteq SubscriptionRow
    /\ \A row \in InitialRows : row.tenant = Owner[row.id]
    /\ \A a, b \in InitialRows : a.id = b.id => a = b
    /\ StripeStatuses \subseteq SubscriptionStatus
    /\ Periods \subseteq Nat \X Nat
    /\ PeriodLength \in Nat \ {0}
    /\ PoolSize \in Nat \ {0}
    /\ Backend \in {"postgresql", "sqlite"}
    /\ MaxClock \in Nat

VARIABLES
    clock,          \* datetime.now(timezone.utc)
    subscriptions,  \* table subscriptions
    events,         \* table usage_events
    records,        \* table idempotency_records
    pc,             \* where each request is
    call,           \* what each request asks for
    candidates,     \* rows the SELECT ... FOR UPDATE snapshot still has to try
    locked,         \* subscription ids a request's transaction has locked
    held,           \* {} or {the subscription row the quota check works on}
    draft,          \* {} or {the usage event added to the session}
    answer          \* the HTTP response

tables == <<subscriptions, events, records>>
session == <<candidates, locked, held, draft>>
vars == <<clock, subscriptions, events, records, pc, call, candidates, locked,
          held, draft, answer>>

-----------------------------------------------------------------------------
(* Reading the tables.                                                     *)

\* requested_quantity of record_usage.
RequestedQuantity(c) == IF c.event_type = "api_call" THEN 1 ELSE c.tokens

PeriodEvents(row, type) ==
    { e \in events : /\ e.tenant = row.tenant
                     /\ e.event_type = type
                     /\ e.timestamp >= row.start
                     /\ e.timestamp < row.end }

Used(row, type) == TotalQuantity(PeriodEvents(row, type))

\* Mutant: asks whether the quota is used up, not whether the request fits.
ExceedsWhenFull(row, type, quantity) ==
    Used(row, type) >= Limit[row.plan][type]

Exceeds(row, type, quantity) ==
    Used(row, type) + quantity > Limit[row.plan][type]

StoredResponse(key) == {rec \in records : rec.key = key}

\* Mutant: the router returns the stored status verbatim.
ReplayCodeVerbatim(rec) == rec.status_code

\* routers/usage.py turns the replay of a 201 into a 200.
ReplayCode(rec) == IF rec.status_code = 201 THEN 200 ELSE rec.status_code

ResponseBody(e, plan) ==
    [ id |-> e.id, key |-> e.key, tenant |-> e.tenant,
      event_type |-> e.event_type, quantity |-> e.quantity, plan |-> plan ]

-----------------------------------------------------------------------------
(* Connections and transactions.                                           *)

\* Requests whose session has a pooled connection checked out.
Connected ==
    {r \in Requests :
        pc[r] \in {"lookup", "select", "lock", "sum", "insert", "inserted"}}

ConnectionAvailable == Cardinality(Connected) < PoolSize

Goto(r, label) == pc' = [pc EXCEPT ![r] = label]

\* COMMIT or ROLLBACK: the row locks go, and with them the session's state.
EndTransaction(r) ==
    /\ candidates' = [candidates EXCEPT ![r] = {}]
    /\ locked' = [locked EXCEPT ![r] = {}]
    /\ held' = [held EXCEPT ![r] = {}]
    /\ draft' = [draft EXCEPT ![r] = {}]

Respond(r, code, body) ==
    /\ Goto(r, "done")
    /\ answer' = [answer EXCEPT ![r] = [code |-> code, body |-> body]]
    /\ EndTransaction(r)
    /\ UNCHANGED <<clock, tables, call>>

\* QuotaExceededError and PaymentRequiredError: roll back, then 429 or 402.
Refuse(r, code) == Respond(r, code, {})

\* Mutant: FOR SHARE instead of FOR UPDATE.
SharedLockedByOther(r, id) == FALSE

LockedByOther(r, id) == \E q \in Requests \ {r} : id \in locked[q]

-----------------------------------------------------------------------------
(* The request, statement by statement.                                    *)

Init ==
    /\ clock = 0
    /\ subscriptions = InitialRows
    /\ events = {}
    /\ records = {}
    /\ pc = [r \in Requests |-> "start"]
    /\ call \in [Requests -> Calls]
    /\ candidates = [r \in Requests |-> {}]
    /\ locked = [r \in Requests |-> {}]
    /\ held = [r \in Requests |-> {}]
    /\ draft = [r \in Requests |-> {}]
    /\ answer = [r \in Requests |-> NoAnswer]

\* db.get(Tenant): the first statement, so it also takes a connection.
LoadTenant(r) ==
    /\ pc[r] = "start"
    /\ ConnectionAvailable
    /\ IF TenantTable[call[r].tenant] = "absent"
         THEN Respond(r, 404, {})
         ELSE /\ Goto(r, "lookup")
              /\ UNCHANGED <<clock, tables, call, session, answer>>

\* Step 1 of record_usage, the fast path: the key has a stored response.
ReplayStored(r) ==
    /\ pc[r] = "lookup"
    /\ \E rec \in StoredResponse(call[r].key) :
           Respond(r, ReplayCode(rec), {rec.body})

\* Step 1 misses; check_and_reserve starts with the tenant loaded before.
CheckTenant(r) ==
    /\ pc[r] = "lookup"
    /\ StoredResponse(call[r].key) = {}
    /\ IF TenantTable[call[r].tenant] # "active"
         THEN Refuse(r, 402)
         ELSE /\ Goto(r, "select")
              /\ UNCHANGED <<clock, tables, call, session, answer>>

\* The snapshot of SELECT ... WHERE status = ACTIVE ORDER BY ... FOR UPDATE.
SelectSubscription(r) ==
    /\ pc[r] = "select"
    /\ candidates' = [candidates EXCEPT ![r] =
           {row \in subscriptions : /\ row.tenant = call[r].tenant
                                    /\ row.status = "active"}]
    /\ Goto(r, "lock")
    /\ UNCHANGED <<clock, tables, call, locked, held, draft, answer>>

\* The row to try next: ORDER BY current_period_end DESC, as of the snapshot.
IsNextCandidate(r, c) ==
    /\ c \in candidates[r]
    /\ \A d \in candidates[r] : d.end <= c.end

\* Mutant: with_for_update() is forgotten.
TakeNoRowLock(r, id) == locked' = locked

TakeRowLock(r, id) ==
    locked' = IF Backend = "postgresql"
                THEN [locked EXCEPT ![r] = @ \cup {id}]
                ELSE locked

\* Mutant: a lapsed period is not refused.
LockRowOfAnyPeriod(r, c) ==
    /\ pc[r] = "lock"
    /\ IsNextCandidate(r, c)
    /\ ~LockedByOther(r, c.id)
    /\ \E row \in subscriptions :
           /\ row.id = c.id
           /\ row.status = "active"
           /\ held' = [held EXCEPT ![r] = {row}]
    /\ TakeRowLock(r, c.id)
    /\ candidates' = [candidates EXCEPT ![r] = {}]
    /\ Goto(r, "sum")
    /\ UNCHANGED <<clock, tables, call, draft, answer>>

\* LIMIT 1 is met by the first row that is still ACTIVE once it is locked;
\* the period check follows at once, on that locked version of the row.
LockRow(r, c) ==
    /\ pc[r] = "lock"
    /\ IsNextCandidate(r, c)
    /\ ~LockedByOther(r, c.id)
    /\ \E row \in subscriptions :
           /\ row.id = c.id
           /\ row.status = "active"
           /\ IF clock >= row.end
                THEN Refuse(r, 402)
                ELSE /\ TakeRowLock(r, c.id)
                     /\ held' = [held EXCEPT ![r] = {row}]
                     /\ candidates' = [candidates EXCEPT ![r] = {}]
                     /\ Goto(r, "sum")
                     /\ UNCHANGED <<clock, tables, call, draft, answer>>

\* A row that stopped being ACTIVE after the snapshot is passed over, but the
\* lock that found it out stays with the transaction.
PassOver(r, c) ==
    /\ pc[r] = "lock"
    /\ IsNextCandidate(r, c)
    /\ ~LockedByOther(r, c.id)
    /\ \E row \in subscriptions : row.id = c.id /\ row.status # "active"
    /\ TakeRowLock(r, c.id)
    /\ candidates' = [candidates EXCEPT ![r] = @ \ {c}]
    /\ UNCHANGED <<clock, tables, call, pc, held, draft, answer>>

LockSubscription(r) == \E c \in candidates[r] : LockRow(r, c)

SkipSubscription(r) == \E c \in candidates[r] : PassOver(r, c)

NoSubscription(r) ==
    /\ pc[r] = "lock"
    /\ candidates[r] = {}
    /\ Refuse(r, 402)

\* The UsageEvent that record_usage adds to the session once there is room.
NewEvent(r) ==
    [ id |-> r, key |-> call[r].key, tenant |-> call[r].tenant,
      event_type |-> call[r].event_type,
      quantity |-> RequestedQuantity(call[r]), timestamp |-> clock ]

\* _sum_period_usage and the comparison with the limit.  If there is room the
\* event is built and stamped before the next await.
SumUsage(r) ==
    /\ pc[r] = "sum"
    /\ \E row \in held[r] :
         IF Exceeds(row, call[r].event_type, RequestedQuantity(call[r]))
           THEN Refuse(r, 429)
           ELSE /\ draft' = [draft EXCEPT ![r] = {NewEvent(r)}]
                /\ Goto(r, "insert")
                /\ UNCHANGED <<clock, tables, call, candidates, locked, held,
                               answer>>

\* An INSERT waits for a transaction that has inserted the same key (for any
\* writer at all on SQLite) to end one way or the other.
InsertMustWait(r) ==
    \E q \in Requests \ {r} :
        /\ pc[q] = "inserted"
        /\ Backend = "postgresql" => call[q].key = call[r].key

\* Mutant: uq_usage_events_idempotency_key is missing from the schema.
KeyNeverTaken(r) == FALSE

KeyTaken(r) == \E e \in events : e.key = call[r].key

\* flush(): the INSERT either holds the key or fails on the UNIQUE constraint,
\* and the except IntegrityError branch rolls back.
InsertEvent(r) ==
    /\ pc[r] = "insert"
    /\ ~InsertMustWait(r)
    /\ IF KeyTaken(r)
         THEN Goto(r, "reread") /\ EndTransaction(r)
         ELSE Goto(r, "inserted") /\ UNCHANGED session
    /\ UNCHANGED <<clock, tables, call, answer>>

\* Mutant: the event is committed before the IdempotencyRecord is added.
CommitEventOnly(r) ==
    /\ pc[r] = "inserted"
    /\ events' = events \cup draft[r]
    /\ locked' = [locked EXCEPT ![r] = {}]
    /\ Goto(r, "reply")
    /\ UNCHANGED <<clock, subscriptions, records, call, candidates, held, draft,
                   answer>>

\* The IdempotencyRecord joins the transaction and COMMIT publishes both rows.
\* The session keeps its objects (expire_on_commit=False).
Commit(r) ==
    /\ pc[r] = "inserted"
    /\ \E e \in draft[r], row \in held[r] :
         /\ events' = events \cup {e}
         /\ records' = records \cup
              {[ key |-> call[r].key, status_code |-> 201,
                 body |-> ResponseBody(e, row.plan) ]}
    /\ locked' = [locked EXCEPT ![r] = {}]
    /\ Goto(r, "reply")
    /\ UNCHANGED <<clock, subscriptions, call, candidates, held, draft, answer>>

ReplyCreated(r) ==
    /\ pc[r] = "reply"
    /\ \E e \in draft[r], row \in held[r] :
           Respond(r, 201, {ResponseBody(e, row.plan)})

\* After the unique violation: the winner's response, or 409 if there is none.
ReadWinner(r) ==
    /\ pc[r] = "reread"
    /\ ConnectionAvailable
    /\ LET winner == StoredResponse(call[r].key)
       IN  IF winner = {}
             THEN Respond(r, 409, {})
             ELSE \E rec \in winner : Respond(r, ReplayCode(rec), {rec.body})

\* The process, the connection or the client goes away, the pool times out, or
\* get_db sees an exception nobody maps: the transaction is rolled back and the
\* client learns nothing about it.
Fail(r) ==
    /\ pc[r] \notin {"done", "failed"}
    /\ Goto(r, "failed")
    /\ EndTransaction(r)
    /\ UNCHANGED <<clock, tables, call, answer>>

-----------------------------------------------------------------------------
(* PostgreSQL's deadlock detector: two requests that were each passed over  *)
(* by rows the other wants next can wait for each other.                   *)

WaitsFor(r, q) ==
    \/ /\ pc[r] = "lock"
       /\ \E c \in candidates[r] : IsNextCandidate(r, c) /\ c.id \in locked[q]
    \/ /\ pc[r] = "insert" /\ pc[q] = "inserted"
       /\ call[q].key = call[r].key

\* Mutant: nobody breaks deadlocks.
NeverDeadlocked(r) == FALSE

Deadlocked(r) ==
    \E C \in SUBSET Requests :
        /\ r \in C
        /\ \A p \in C : \E q \in C \ {p} : WaitsFor(p, q)

AbortDeadlocked(r) == Deadlocked(r) /\ Fail(r)

-----------------------------------------------------------------------------
(* The rest of the system, as far as this pipeline can see it.             *)

Tick ==
    /\ clock < MaxClock
    /\ clock' = clock + 1
    /\ UNCHANGED <<tables, pc, call, session, answer>>

\* Mutant: stripe_subscription_id is not UNIQUE.
AddSubscriptionAgain(s) ==
    /\ \E plan \in Plans :
         subscriptions' = subscriptions \cup
           {[ id |-> s, tenant |-> Owner[s], plan |-> plan, status |-> "active",
              start |-> clock, end |-> clock + PeriodLength ]}
    /\ UNCHANGED <<clock, events, records, pc, call, session, answer>>

\* checkout.session.completed, or POST /v1/tenants, adds an ACTIVE row.  Its
\* period starts when the handler read the clock, some time before its COMMIT.
AddSubscription(s) ==
    /\ \A row \in subscriptions : row.id # s
    /\ \E plan \in Plans, now \in 0 .. clock :
         subscriptions' = subscriptions \cup
           {[ id |-> s, tenant |-> Owner[s], plan |-> plan, status |-> "active",
              start |-> now, end |-> now + PeriodLength ]}
    /\ UNCHANGED <<clock, events, records, pc, call, session, answer>>

\* customer.subscription.updated and .deleted.  The UPDATE waits for FOR UPDATE.
ChangeSubscription(s) ==
    /\ \A r \in Requests : s \notin locked[r]
    /\ \E row \in subscriptions, status \in StripeStatuses :
         /\ row.id = s
         /\ \E period \in Periods \cup {<<row.start, row.end>>} :
              subscriptions' = (subscriptions \ {row}) \cup
                {[row EXCEPT !.status = status, !.start = period[1],
                             !.end = period[2]]}
    /\ UNCHANGED <<clock, events, records, pc, call, session, answer>>

Step(r) ==
    \/ LoadTenant(r) \/ ReplayStored(r) \/ CheckTenant(r)
    \/ SelectSubscription(r) \/ LockSubscription(r) \/ SkipSubscription(r)
    \/ NoSubscription(r) \/ SumUsage(r) \/ InsertEvent(r) \/ Commit(r)
    \/ ReplyCreated(r) \/ ReadWinner(r) \/ AbortDeadlocked(r)

Environment ==
    \/ Tick
    \/ \E s \in Subscriptions : AddSubscription(s) \/ ChangeSubscription(s)

\* Every call was answered or lost, and no more are coming.
Quiescent ==
    /\ \A r \in Requests : pc[r] \in {"done", "failed"}
    /\ UNCHANGED vars

Next ==
    \/ \E r \in Requests : Step(r) \/ Fail(r)
    \/ Environment
    \/ Quiescent

Spec == Init /\ [][Next]_vars

\* The event loop runs every ready request, PostgreSQL grants a row lock to a
\* waiter once it is free, and breaks deadlocks.  Nothing else need happen.
FairSpec == Spec /\ \A r \in Requests : WF_vars(Step(r))

-----------------------------------------------------------------------------
(* Properties.                                                             *)

\* Every variable holds a value of its type; rows keep their primary key and
\* their tenant.
TypeOK ==
    /\ clock \in Nat
    /\ subscriptions \subseteq SubscriptionRow
    /\ \A row \in subscriptions : row.tenant = Owner[row.id]
    /\ \A a, b \in subscriptions : a.id = b.id => a = b
    /\ events \subseteq UsageEvent
    /\ records \subseteq IdempotencyRecord
    /\ pc \in [Requests -> PC]
    /\ call \in [Requests -> Calls]
    /\ candidates \in [Requests -> SUBSET SubscriptionRow]
    /\ locked \in [Requests -> SUBSET Subscriptions]
    /\ held \in [Requests -> SUBSET SubscriptionRow]
    /\ draft \in [Requests -> SUBSET UsageEvent]
    /\ answer \in [Requests -> Answer]

\* Exactly-once metering: however calls with one key race, retry or die, the
\* key has at most one usage event and at most one stored response, it has
\* both or neither, and the response describes the event.
LedgerMatchesRecords ==
    /\ \A a, b \in events : a.key = b.key => a = b
    /\ \A a, b \in records : a.key = b.key => a = b
    /\ \A e \in events : \E rec \in records : rec.key = e.key
    /\ \A rec \in records : \E e \in events :
           /\ rec.key = e.key
           /\ rec.body = ResponseBody(e, rec.body.plan)

Succeeded(r) == answer[r].code \in {200, 201}

\* All callers that succeed with one key are shown the same response, and only
\* one of them is told it created the event.
OneAnswerPerKey ==
    \A r, q \in Requests :
        Succeeded(r) /\ Succeeded(q) /\ call[r].key = call[q].key =>
            /\ answer[r].body = answer[q].body
            /\ answer[r].code = 201 /\ answer[q].code = 201 => r = q

\* The 409 branch of the IntegrityError handler ("the other transaction's
\* idempotency_records insert hasn't landed yet") is dead code: the two rows
\* land in one COMMIT, so whoever lost the race finds the stored response.
ConflictNeverAnswered == \A r \in Requests : answer[r].code # 409

Admitted(r) == pc[r] \in {"insert", "inserted"}

\* The quota check has not gone stale when its event is written: from the
\* check until COMMIT the period still has room for the request.
AdmissionSound ==
    \A r \in Requests : Admitted(r) =>
        \A row \in held[r], e \in draft[r] :
            ~Exceeds(row, e.event_type, e.quantity)

\* quota.py: "two concurrent requests for the same tenant are serialized at
\* the database level" between the quota check and the end of the transaction.
TenantSerialised ==
    \A r, q \in Requests :
        /\ pc[r] \in {"sum", "insert", "inserted"}
        /\ pc[q] \in {"sum", "insert", "inserted"}
        /\ call[r].tenant = call[q].tenant
        => r = q

\* The ORM row the check works on is the row the table holds: no webhook can
\* change status, plan or period under a request that holds the lock.
LockedRowIsCurrent ==
    \A r \in Requests :
        pc[r] \in {"sum", "insert", "inserted"} => held[r] \subseteq subscriptions

\* The committed usage of a billing period never exceeds the plan's limit.
NeverOversold ==
    \A row \in subscriptions, type \in EventTypes :
        Used(row, type) <= Limit[row.plan][type]

\* quota.py: a lapsed period is refused "rather than silently metering into a
\* stale period", so no event is stamped at or after the end of its period.
LapsedPeriodNeverMetered ==
    \A r \in Requests : \A row \in held[r], e \in draft[r] :
        e.timestamp < row.end

\* The period check and the stamp are not one step, but the row lock lets a
\* subscription whose row does not change slip past its end only once.
AtMostOneLateEvent ==
    \A row \in subscriptions :
        Cardinality({e \in events : /\ e.tenant = row.tenant
                                    /\ e.timestamp >= row.end}) <= 1

\* metering.py: a request that lost the race returns the winner's response
\* "instead of double-charging or erroring", so no call is refused for want of
\* quota or period once its key has been billed.
DuplicateNeverRefused ==
    [][\A r \in Requests :
          answer'[r].code = 429 /\ answer[r].code = 0
              => StoredResponse(call[r].key) = {}]_vars

\* Every call is eventually answered or lost, whatever it has to wait for: a
\* connection of the pool, a row lock, another transaction's key.
EveryCallEnds ==
    \A r \in Requests : <>(pc[r] \in {"done", "failed"})

-----------------------------------------------------------------------------
(* The promise to clients, read off the usage_events table.                *)

Entry(x) ==
    [ id |-> x.id, key |-> x.key, tenant |-> x.tenant,
      event_type |-> x.event_type, quantity |-> x.quantity ]

Billed == {Entry(e) : e \in events}

Shown(a) == [code |-> a.code, event |-> {Entry(b) : b \in a.body}]

Told == [r \in Requests |-> Shown(answer[r])]

Ledger == INSTANCE UsageLedger WITH billed <- Billed, told <- Told

\* The pipeline implements the abstract ledger: keys are spent once, billed
\* events never change, and answers show what is billed.
ImplementsLedger == Ledger!Spec
===============================================================================
