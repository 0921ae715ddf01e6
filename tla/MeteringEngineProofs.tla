------------------------- MODULE MeteringEngineProofs -------------------------
(***************************************************************************)
(* What MeteringEngine guarantees for every number of requests, tenants,   *)
(* keys, plans and subscriptions, checked by TLAPS.                        *)
(***************************************************************************)
EXTENDS MeteringEngine, FiniteSetTheorems, TLAPS

-----------------------------------------------------------------------------
(* Type correctness.                                                       *)

LEMMA EventBodyType ==
    ASSUME NEW e \in UsageEvent, NEW plan \in Plans
    PROVE  ResponseBody(e, plan) \in Body
  BY DEF ResponseBody, UsageEvent, Body

LEMMA ReplayCodeType ==
    ASSUME NEW rec \in IdempotencyRecord
    PROVE  ReplayCode(rec) = 200
  BY DEF ReplayCode, IdempotencyRecord

LEMMA RequestedQuantityType ==
    ASSUME NEW c \in Call
    PROVE  RequestedQuantity(c) \in Nat
  BY DEF RequestedQuantity, Call

\* Answering keeps the types, whoever answers.
LEMMA RespondType ==
    ASSUME TypeOK, NEW r \in Requests,
           NEW code \in {200, 201, 402, 404, 409, 429}, NEW body \in SUBSET Body,
           Respond(r, code, body)
    PROVE  TypeOK'
  BY DEF TypeOK, Respond, Goto, EndTransaction, tables, Answer, PC

\* Every step of a request, whatever it is, keeps the types.
LEMMA StepType ==
    ASSUME TypeOK, NEW r \in Requests, Step(r) \/ Fail(r)
    PROVE  TypeOK'
<1> USE ConstantsAssumption
<1> call[r] \in Call
  BY DEF TypeOK
<1>1. CASE LoadTenant(r)
  <2>1. CASE Respond(r, 404, {})
    BY <2>1, RespondType
  <2>2. CASE UNCHANGED <<clock, tables, call, session, answer>> /\ Goto(r, "lookup")
    BY <2>2 DEF TypeOK, Goto, tables, session, PC
  <2> QED BY <1>1, <2>1, <2>2 DEF LoadTenant
<1>2. CASE ReplayStored(r)
  <2>1. PICK rec \in StoredResponse(call[r].key) :
            Respond(r, ReplayCode(rec), {rec.body})
    BY <1>2 DEF ReplayStored
  <2>2. rec \in IdempotencyRecord
    BY DEF StoredResponse, TypeOK
  <2> QED BY <2>1, <2>2, ReplayCodeType, RespondType DEF IdempotencyRecord
<1>3. CASE CheckTenant(r)
  <2>1. CASE Respond(r, 402, {})
    BY <2>1, RespondType
  <2>2. CASE UNCHANGED <<clock, tables, call, session, answer>> /\ Goto(r, "select")
    BY <2>2 DEF TypeOK, Goto, tables, session, PC
  <2> QED BY <1>3, <2>1, <2>2 DEF CheckTenant, Refuse
<1>4. CASE SelectSubscription(r)
  BY <1>4 DEF SelectSubscription, TypeOK, Goto, tables, PC
<1>5. CASE LockSubscription(r)
  <2>1. PICK c \in candidates[r], row \in subscriptions :
          IF clock >= row.end
            THEN Refuse(r, 402)
            ELSE /\ TakeRowLock(r, c.id)
                 /\ held' = [held EXCEPT ![r] = {row}]
                 /\ candidates' = [candidates EXCEPT ![r] = {}]
                 /\ Goto(r, "sum")
                 /\ UNCHANGED <<clock, tables, call, draft, answer>>
    BY <1>5 DEF LockSubscription, LockRow
  <2>2. c.id \in Subscriptions
    BY DEF TypeOK, SubscriptionRow
  <2>3. CASE Refuse(r, 402)
    BY <2>3, RespondType DEF Refuse
  <2>4. CASE ~ (clock >= row.end)
    BY <2>1, <2>2, <2>4 DEF TypeOK, TakeRowLock, Goto, tables, PC
  <2> QED BY <2>1, <2>3, <2>4
<1>6. CASE SkipSubscription(r)
  <2>1. PICK c \in candidates[r] :
          /\ TakeRowLock(r, c.id)
          /\ candidates' = [candidates EXCEPT ![r] = @ \ {c}]
    BY <1>6 DEF SkipSubscription, PassOver
  <2>2. c.id \in Subscriptions
    BY DEF TypeOK, SubscriptionRow
  <2> QED
    BY <1>6, <2>1, <2>2 DEF SkipSubscription, PassOver, TypeOK, TakeRowLock, tables
<1>7. CASE NoSubscription(r)
  BY <1>7, RespondType DEF NoSubscription, Refuse
<1>8. CASE SumUsage(r)
  <2> DEFINE e == [ id |-> r, key |-> call[r].key, tenant |-> call[r].tenant,
                    event_type |-> call[r].event_type,
                    quantity |-> RequestedQuantity(call[r]),
                    timestamp |-> clock ]
  <2>1. e \in UsageEvent
    BY RequestedQuantityType DEF TypeOK, Call, UsageEvent
  <2>2. CASE Refuse(r, 429)
    BY <2>2, RespondType DEF Refuse
  <2>3. CASE /\ draft' = [draft EXCEPT ![r] = {e}]
             /\ Goto(r, "insert")
             /\ UNCHANGED <<clock, tables, call, candidates, locked, held, answer>>
    <3> HIDE DEF e
    <3> QED BY <2>1, <2>3 DEF TypeOK, Goto, tables, PC
  <2> QED BY <1>8, <2>2, <2>3 DEF SumUsage, NewEvent
<1>9. CASE InsertEvent(r)
  <2>1. CASE Goto(r, "reread") /\ EndTransaction(r)
    BY <1>9, <2>1 DEF InsertEvent, TypeOK, Goto, EndTransaction, tables, PC
  <2>2. CASE Goto(r, "inserted") /\ UNCHANGED session
    BY <1>9, <2>2 DEF InsertEvent, TypeOK, Goto, session, tables, PC
  <2> QED BY <1>9, <2>1, <2>2 DEF InsertEvent
<1>10. CASE Commit(r)
  <2>1. PICK e \in draft[r], row \in held[r] :
          /\ events' = events \cup {e}
          /\ records' = records \cup
               {[ key |-> call[r].key, status_code |-> 201,
                  body |-> ResponseBody(e, row.plan) ]}
    BY <1>10 DEF Commit
  <2>2. e \in UsageEvent /\ row.plan \in Plans
    BY DEF TypeOK, SubscriptionRow
  <2>3. [ key |-> call[r].key, status_code |-> 201,
          body |-> ResponseBody(e, row.plan) ] \in IdempotencyRecord
    BY <2>2, EventBodyType DEF IdempotencyRecord, Call
  <2>4. events' \subseteq UsageEvent /\ records' \subseteq IdempotencyRecord
    BY <2>1, <2>2, <2>3 DEF TypeOK
  <2> QED BY <1>10, <2>4 DEF Commit, TypeOK, Goto, PC
<1>11. CASE ReplyCreated(r)
  <2>1. PICK e \in draft[r], row \in held[r] :
            Respond(r, 201, {ResponseBody(e, row.plan)})
    BY <1>11 DEF ReplyCreated
  <2>2. e \in UsageEvent /\ row.plan \in Plans
    BY DEF TypeOK, SubscriptionRow
  <2> QED BY <2>1, <2>2, EventBodyType, RespondType
<1>12. CASE ReadWinner(r)
  <2>1. CASE Respond(r, 409, {})
    BY <2>1, RespondType
  <2>2. CASE \E rec \in StoredResponse(call[r].key) :
               Respond(r, ReplayCode(rec), {rec.body})
    <3>1. PICK rec \in StoredResponse(call[r].key) :
              Respond(r, ReplayCode(rec), {rec.body})
      BY <2>2
    <3>2. rec \in IdempotencyRecord
      BY DEF StoredResponse, TypeOK
    <3> QED BY <3>1, <3>2, ReplayCodeType, RespondType DEF IdempotencyRecord
  <2> QED BY <1>12, <2>1, <2>2 DEF ReadWinner
<1>13. CASE Fail(r)
  BY <1>13 DEF Fail, TypeOK, Goto, EndTransaction, tables, PC
<1> QED
  BY <1>1, <1>2, <1>3, <1>4, <1>5, <1>6, <1>7, <1>8, <1>9, <1>10, <1>11, <1>12,
     <1>13 DEF Step, AbortDeadlocked

\* Webhooks keep the primary key and the tenant of a row.
LEMMA EnvironmentType ==
    ASSUME TypeOK, Environment
    PROVE  TypeOK'
<1> USE ConstantsAssumption
<1>1. CASE Tick
  BY <1>1 DEF Tick, TypeOK, tables, session
<1>2. ASSUME NEW s \in Subscriptions, AddSubscription(s)
      PROVE  TypeOK'
  <2>1. PICK plan \in Plans, now \in 0 .. clock :
          subscriptions' = subscriptions \cup
            {[ id |-> s, tenant |-> Owner[s], plan |-> plan, status |-> "active",
               start |-> now, end |-> now + PeriodLength ]}
    BY <1>2 DEF AddSubscription
  <2>2. [ id |-> s, tenant |-> Owner[s], plan |-> plan, status |-> "active",
          start |-> now, end |-> now + PeriodLength ] \in SubscriptionRow
    BY DEF TypeOK, SubscriptionRow, SubscriptionStatus
  <2>3. \A row \in subscriptions : row.id # s
    BY <1>2 DEF AddSubscription
  <2>4. /\ subscriptions' \subseteq SubscriptionRow
        /\ \A row \in subscriptions' : row.tenant = Owner[row.id]
        /\ \A a, b \in subscriptions' : a.id = b.id => a = b
    BY <2>1, <2>2, <2>3 DEF TypeOK
  <2> QED BY <1>2, <2>4 DEF AddSubscription, TypeOK, session
<1>3. ASSUME NEW s \in Subscriptions, ChangeSubscription(s)
      PROVE  TypeOK'
  <2>1. PICK row \in subscriptions, status \in StripeStatuses :
          /\ row.id = s
          /\ \E period \in Periods \cup {<<row.start, row.end>>} :
               subscriptions' = (subscriptions \ {row}) \cup
                 {[row EXCEPT !.status = status, !.start = period[1],
                              !.end = period[2]]}
    BY <1>3 DEF ChangeSubscription
  <2>2. PICK period \in Periods \cup {<<row.start, row.end>>} :
          subscriptions' = (subscriptions \ {row}) \cup
            {[row EXCEPT !.status = status, !.start = period[1], !.end = period[2]]}
    BY <2>1
  <2>3. row \in SubscriptionRow /\ period[1] \in Nat /\ period[2] \in Nat
    BY DEF TypeOK, SubscriptionRow
  <2> DEFINE new == [row EXCEPT !.status = status, !.start = period[1],
                                !.end = period[2]]
  <2>4. /\ new \in SubscriptionRow
        /\ new.id = row.id
        /\ new.tenant = row.tenant
    BY <2>3 DEF SubscriptionRow
  <2>5. subscriptions' = (subscriptions \ {row}) \cup {new}
    BY <2>2
  <2> HIDE DEF new
  <2>6. /\ subscriptions' \subseteq SubscriptionRow
        /\ \A x \in subscriptions' : x.tenant = Owner[x.id]
        /\ \A a, b \in subscriptions' : a.id = b.id => a = b
    BY <2>4, <2>5 DEF TypeOK
  <2> QED BY <1>3, <2>6 DEF ChangeSubscription, TypeOK, session
<1> QED BY <1>1, <1>2, <1>3 DEF Environment

LEMMA InitType == Init => TypeOK
  BY ConstantsAssumption DEF Init, TypeOK, PC, Answer, NoAnswer

LEMMA NextType == TypeOK /\ [Next]_vars => TypeOK'
<1> SUFFICES ASSUME TypeOK, [Next]_vars
             PROVE  TypeOK'
  OBVIOUS
<1>1. CASE UNCHANGED vars
  BY <1>1 DEF vars, TypeOK
<1> QED
  BY <1>1, StepType, EnvironmentType DEF Next, Quiescent

\* The tables, the sessions and the answers always have the types of
\* app/models/models.py, and rows keep their primary key and tenant.
THEOREM TypeCorrect == Spec => []TypeOK
  BY InitType, NextType, PTL DEF Spec


-----------------------------------------------------------------------------
(* Exactly-once metering.  The strengthening says what a request knows at   *)
(* each point of its way: whose event it drafted, that nobody else holds    *)
(* its key while it does, that its event is in the table before it replies. *)

Asked(c) == [ key |-> c.key, tenant |-> c.tenant, event_type |-> c.event_type,
              quantity |-> RequestedQuantity(c) ]

Describes(e, c) ==
    Asked(c) = [ key |-> e.key, tenant |-> e.tenant,
                 event_type |-> e.event_type, quantity |-> e.quantity ]

\* The session holds the request's own event from the quota check on, and the
\* one row that was locked for it.
DraftInv ==
    \A r \in Requests :
        /\ \A e \in draft[r] : e.id = r /\ Describes(e, call[r])
        /\ pc[r] \in {"insert", "inserted", "reply"} =>
               draft[r] # {} /\ \A e, f \in draft[r] : e = f
        /\ pc[r] \in {"sum", "insert", "inserted", "reply"} =>
               held[r] # {} /\ \A a, b \in held[r] : a = b

\* An uncommitted INSERT is the only holder of its key.
KeyInv ==
    \A r \in Requests : pc[r] = "inserted" =>
        /\ \A e \in events : e.key # call[r].key
        /\ \A q \in Requests :
               pc[q] = "inserted" /\ call[q].key = call[r].key => q = r

\* A committed event was drafted by a call that is past its COMMIT.
BilledInv ==
    \A e \in events :
        /\ Describes(e, call[e.id])
        /\ pc[e.id] \in {"reply", "done", "failed"}
        /\ pc[e.id] = "done" => answer[e.id].code = 201

\* What the request is about to answer is stored.
StoredInv ==
    \A r \in Requests :
        /\ pc[r] = "reread" => \E rec \in records : rec.key = call[r].key
        /\ pc[r] = "reply" => \A e \in draft[r], row \in held[r] :
               /\ e \in events
               /\ \E rec \in records : /\ rec.key = call[r].key
                                       /\ rec.body = ResponseBody(e, row.plan)

\* A successful answer is the stored response; 201 goes to its creator only.
AnswerInv ==
    \A r \in Requests :
        /\ pc[r] # "done" => answer[r] = NoAnswer
        /\ pc[r] = "done" => answer[r].code \in {200, 201, 402, 404, 429}
        /\ answer[r].code \notin {200, 201} => answer[r].body = {}
        /\ Succeeded(r) => \E rec \in records :
               /\ rec.key = call[r].key
               /\ answer[r].body = {rec.body}
               /\ answer[r].code = 201 <=> rec.body.id = r

ExactlyOnceInv ==
    /\ LedgerMatchesRecords
    /\ DraftInv
    /\ KeyInv
    /\ BilledInv
    /\ StoredInv
    /\ AnswerInv


\* The stored response of a key was written by a call that is past its COMMIT.
LEMMA StoredByOther ==
    ASSUME TypeOK, ExactlyOnceInv, NEW r \in Requests,
           pc[r] \notin {"reply", "done", "failed"},
           NEW rec \in StoredResponse(call[r].key)
    PROVE  /\ rec \in records /\ rec.key = call[r].key
           /\ rec.body.id # r
<1>1. PICK e \in events : rec.body = ResponseBody(e, rec.body.plan)
  BY DEF StoredResponse, ExactlyOnceInv, LedgerMatchesRecords
<1>2. rec.body.id = e.id
  BY <1>1 DEF ResponseBody
<1> QED
  BY <1>2 DEF StoredResponse, ExactlyOnceInv, BilledInv

\* Answering keeps the invariant, provided the answer is a refusal of a call
\* that billed nothing or the stored response.
LEMMA RespondExactlyOnce ==
    ASSUME TypeOK, ExactlyOnceInv, NEW r \in Requests,
           NEW code \in {200, 201, 402, 404, 429}, NEW body \in SUBSET Body,
           Respond(r, code, body),
           pc[r] \notin {"done", "failed"},
           code # 201 => pc[r] # "reply",
           code \in {402, 404, 429} => body = {},
           code \in {200, 201} => \E rec \in records :
               /\ rec.key = call[r].key
               /\ body = {rec.body}
               /\ code = 201 <=> rec.body.id = r
    PROVE  ExactlyOnceInv'
<1> USE DEF ExactlyOnceInv, Respond, Goto, EndTransaction, tables
<1>1. LedgerMatchesRecords'
  BY DEF LedgerMatchesRecords
<1>2. DraftInv'
  BY DEF DraftInv, TypeOK
<1>3. KeyInv'
  BY DEF KeyInv, TypeOK
<1>4. BilledInv'
  BY DEF BilledInv, TypeOK, UsageEvent
<1>5. StoredInv'
  BY DEF StoredInv, TypeOK
<1>6. AnswerInv'
  <2>1. /\ answer'[r].code = code /\ answer'[r].body = body /\ pc'[r] = "done"
        /\ \A q \in Requests \ {r} : answer'[q] = answer[q] /\ pc'[q] = pc[q]
        /\ UNCHANGED <<records, call>>
    BY DEF TypeOK
  <2>2. code \notin {200, 201} => body = {}
    OBVIOUS
  <2> SUFFICES ASSUME NEW q \in Requests
               PROVE  /\ pc'[q] # "done" => answer'[q] = NoAnswer
                      /\ pc'[q] = "done" =>
                             answer'[q].code \in {200, 201, 402, 404, 429}
                      /\ answer'[q].code \notin {200, 201} => answer'[q].body = {}
                      /\ answer'[q].code \in {200, 201} => \E rec \in records :
                             /\ rec.key = call[q].key
                             /\ answer'[q].body = {rec.body}
                             /\ answer'[q].code = 201 <=> rec.body.id = q
    BY <2>1 DEF AnswerInv, Succeeded
  <2>3. CASE q = r
    BY <2>1, <2>2, <2>3
  <2>4. CASE q # r
    BY <2>1, <2>4 DEF AnswerInv, Succeeded
  <2> QED BY <2>3, <2>4
<1> QED BY <1>1, <1>2, <1>3, <1>4, <1>5, <1>6

\* A step before the quota check is over leaves what the invariant is about.
LEMMA EarlyStepExactlyOnce ==
    ASSUME TypeOK, ExactlyOnceInv, NEW r \in Requests,
           UNCHANGED <<tables, call, draft, answer>>,
           NEW label \in {"lookup", "select", "lock", "sum"}, Goto(r, label),
           pc[r] \in {"start", "lookup", "select", "lock"},
           \A q \in Requests \ {r} : held'[q] = held[q],
           label = "sum" => held'[r] # {} /\ \A a, b \in held'[r] : a = b
    PROVE  ExactlyOnceInv'
<1> USE DEF ExactlyOnceInv, Goto, tables
<1>1. LedgerMatchesRecords'
  BY DEF LedgerMatchesRecords
<1>2. DraftInv'
  BY DEF DraftInv, TypeOK
<1>3. KeyInv'
  BY DEF KeyInv, TypeOK
<1>4. BilledInv'
  BY DEF BilledInv, TypeOK, UsageEvent
<1>5. StoredInv'
  BY DEF StoredInv, TypeOK
<1>6. AnswerInv'
  BY DEF AnswerInv, TypeOK, Succeeded
<1> QED BY <1>1, <1>2, <1>3, <1>4, <1>5, <1>6

LEMMA SumExactlyOnce ==
    ASSUME TypeOK, ExactlyOnceInv, NEW r \in Requests, SumUsage(r)
    PROVE  ExactlyOnceInv'
<1>1. CASE Refuse(r, 429)
  BY <1>1, RespondExactlyOnce DEF Refuse, SumUsage
<1>2. CASE ~Refuse(r, 429)
  <2> DEFINE e == [ id |-> r, key |-> call[r].key, tenant |-> call[r].tenant,
                    event_type |-> call[r].event_type,
                    quantity |-> RequestedQuantity(call[r]),
                    timestamp |-> clock ]
  <2>1. /\ pc[r] = "sum"
        /\ draft' = [draft EXCEPT ![r] = {e}]
        /\ Goto(r, "insert")
        /\ UNCHANGED <<clock, tables, call, candidates, locked, held, answer>>
    BY <1>2 DEF SumUsage, NewEvent
  <2>2. e.id = r /\ Describes(e, call[r])
    BY DEF Describes, Asked
  <2> HIDE DEF e
  <2> USE DEF ExactlyOnceInv, Goto, tables
  <2>3. LedgerMatchesRecords'
    BY <2>1 DEF LedgerMatchesRecords
  <2>4. DraftInv'
    BY <2>1, <2>2 DEF DraftInv, TypeOK
  <2>5. KeyInv'
    BY <2>1 DEF KeyInv, TypeOK
  <2>6. BilledInv'
    BY <2>1 DEF BilledInv, TypeOK, UsageEvent
  <2>7. StoredInv'
    BY <2>1 DEF StoredInv, TypeOK
  <2>8. AnswerInv'
    BY <2>1 DEF AnswerInv, TypeOK, Succeeded
  <2> QED BY <2>3, <2>4, <2>5, <2>6, <2>7, <2>8
<1> QED BY <1>1, <1>2

\* The unique index lets one INSERT of a key through, and none once the key is
\* in the table.
LEMMA InsertExactlyOnce ==
    ASSUME TypeOK, ExactlyOnceInv, NEW r \in Requests, InsertEvent(r)
    PROVE  ExactlyOnceInv'
<1> USE DEF ExactlyOnceInv, Goto, tables
<1>1. /\ pc[r] = "insert"
      /\ UNCHANGED <<subscriptions, events, records, call, answer>>
  BY DEF InsertEvent
<1>2. LedgerMatchesRecords'
  BY <1>1 DEF LedgerMatchesRecords
<1>3. CASE KeyTaken(r)
  <2>1. Goto(r, "reread") /\ EndTransaction(r)
    BY <1>3 DEF InsertEvent
  <2>2. \E rec \in records : rec.key = call[r].key
    BY <1>3 DEF KeyTaken, LedgerMatchesRecords
  <2>3. DraftInv'
    BY <1>1, <2>1 DEF DraftInv, TypeOK, EndTransaction
  <2>4. KeyInv'
    BY <1>1, <2>1 DEF KeyInv, TypeOK
  <2>5. BilledInv'
    BY <1>1, <2>1 DEF BilledInv, TypeOK, UsageEvent
  <2>6. StoredInv'
    BY <1>1, <2>1, <2>2 DEF StoredInv, TypeOK, EndTransaction
  <2>7. AnswerInv'
    BY <1>1, <2>1 DEF AnswerInv, TypeOK, Succeeded
  <2> QED BY <1>2, <2>3, <2>4, <2>5, <2>6, <2>7
<1>4. CASE ~KeyTaken(r)
  <2>1. Goto(r, "inserted") /\ UNCHANGED session
    BY <1>4 DEF InsertEvent
  <2>2. \A q \in Requests \ {r} :
            ~(pc[q] = "inserted" /\ call[q].key = call[r].key)
    BY DEF InsertEvent, InsertMustWait
  <2>3. DraftInv'
    BY <1>1, <2>1 DEF DraftInv, TypeOK, session
  <2>4. KeyInv'
    BY <1>1, <1>4, <2>1, <2>2 DEF KeyInv, KeyTaken, TypeOK
  <2>5. BilledInv'
    BY <1>1, <2>1 DEF BilledInv, TypeOK, UsageEvent
  <2>6. StoredInv'
    BY <1>1, <2>1 DEF StoredInv, TypeOK, session
  <2>7. AnswerInv'
    BY <1>1, <2>1 DEF AnswerInv, TypeOK, Succeeded
  <2> QED BY <1>2, <2>3, <2>4, <2>5, <2>6, <2>7
<1> QED BY <1>3, <1>4

\* COMMIT publishes the event and the response together, and the key is new.
LEMMA CommitExactlyOnce ==
    ASSUME TypeOK, ExactlyOnceInv, NEW r \in Requests, Commit(r)
    PROVE  ExactlyOnceInv'
<1>1. PICK e \in draft[r], row \in held[r] :
        /\ events' = events \cup {e}
        /\ records' = records \cup
             {[ key |-> call[r].key, status_code |-> 201,
                body |-> ResponseBody(e, row.plan) ]}
  BY DEF Commit
<1> DEFINE new == [ key |-> call[r].key, status_code |-> 201,
                    body |-> ResponseBody(e, row.plan) ]
<1>2. /\ pc[r] = "inserted"
      /\ Goto(r, "reply")
      /\ UNCHANGED <<call, held, draft, answer>>
      /\ events' = events \cup {e}
      /\ records' = records \cup {new}
  BY <1>1 DEF Commit
<1>3. /\ e.id = r /\ e.key = call[r].key /\ Describes(e, call[r])
      /\ \A f \in draft[r] : f = e
      /\ \A b \in held[r] : b = row
  BY <1>2 DEF ExactlyOnceInv, DraftInv, Describes, Asked
<1>4. /\ \A f \in events : f.key # e.key
      /\ \A rec \in records : rec.key # e.key
  BY <1>2, <1>3 DEF ExactlyOnceInv, KeyInv, LedgerMatchesRecords
<1>5. /\ new.key = e.key /\ new.body = ResponseBody(e, row.plan)
      /\ new.body = ResponseBody(e, new.body.plan)
  BY <1>3 DEF ResponseBody
<1> HIDE DEF new
<1> USE DEF ExactlyOnceInv, Goto
<1>6. LedgerMatchesRecords'
  BY <1>2, <1>4, <1>5 DEF LedgerMatchesRecords
<1>7. DraftInv'
  BY <1>2 DEF DraftInv, TypeOK
<1>8. KeyInv'
  BY <1>2, <1>3 DEF KeyInv, TypeOK
<1>9. BilledInv'
  BY <1>2, <1>3 DEF BilledInv, TypeOK, UsageEvent
<1>10. StoredInv'
  BY <1>2, <1>3, <1>5 DEF StoredInv, TypeOK
<1>11. AnswerInv'
  BY <1>2 DEF AnswerInv, TypeOK, Succeeded
<1> QED BY <1>6, <1>7, <1>8, <1>9, <1>10, <1>11

LEMMA FailExactlyOnce ==
    ASSUME TypeOK, ExactlyOnceInv, NEW r \in Requests, Fail(r)
    PROVE  ExactlyOnceInv'
<1> USE DEF ExactlyOnceInv, Fail, Goto, EndTransaction, tables
<1>1. LedgerMatchesRecords'
  BY DEF LedgerMatchesRecords
<1>2. DraftInv'
  BY DEF DraftInv, TypeOK
<1>3. KeyInv'
  BY DEF KeyInv, TypeOK
<1>4. BilledInv'
  BY DEF BilledInv, TypeOK, UsageEvent
<1>5. StoredInv'
  BY DEF StoredInv, TypeOK
<1>6. AnswerInv'
  BY DEF AnswerInv, TypeOK, Succeeded
<1> QED BY <1>1, <1>2, <1>3, <1>4, <1>5, <1>6

LEMMA StepExactlyOnce ==
    ASSUME TypeOK, ExactlyOnceInv, NEW r \in Requests, Step(r) \/ Fail(r)
    PROVE  ExactlyOnceInv'
<1>1. CASE LoadTenant(r)
  <2>1. CASE Respond(r, 404, {})
    BY <1>1, <2>1, RespondExactlyOnce DEF LoadTenant
  <2>2. CASE UNCHANGED <<clock, tables, call, session, answer>> /\ Goto(r, "lookup")
    BY <1>1, <2>2, EarlyStepExactlyOnce DEF LoadTenant, session
  <2> QED BY <1>1, <2>1, <2>2 DEF LoadTenant
<1>2. CASE ReplayStored(r)
  <2>1. PICK rec \in StoredResponse(call[r].key) :
            Respond(r, ReplayCode(rec), {rec.body})
    BY <1>2 DEF ReplayStored
  <2>2. rec \in IdempotencyRecord /\ rec.body \in Body /\ ReplayCode(rec) = 200
    BY ReplayCodeType DEF StoredResponse, TypeOK, IdempotencyRecord
  <2>3. rec \in records /\ rec.key = call[r].key /\ rec.body.id # r
    BY <1>2, StoredByOther DEF ReplayStored
  <2> QED BY <1>2, <2>1, <2>2, <2>3, RespondExactlyOnce DEF ReplayStored
<1>3. CASE CheckTenant(r)
  <2>1. CASE Respond(r, 402, {})
    BY <1>3, <2>1, RespondExactlyOnce DEF CheckTenant
  <2>2. CASE UNCHANGED <<clock, tables, call, session, answer>> /\ Goto(r, "select")
    BY <1>3, <2>2, EarlyStepExactlyOnce DEF CheckTenant, session
  <2> QED BY <1>3, <2>1, <2>2 DEF CheckTenant, Refuse
<1>4. CASE SelectSubscription(r)
  BY <1>4, EarlyStepExactlyOnce DEF SelectSubscription
<1>5. CASE LockSubscription(r)
  <2>1. CASE Refuse(r, 402)
    BY <1>5, <2>1, RespondExactlyOnce DEF LockSubscription, LockRow, Refuse
  <2>2. CASE ~Refuse(r, 402)
    <3>1. PICK row \in subscriptions :
            /\ held' = [held EXCEPT ![r] = {row}]
            /\ Goto(r, "sum")
            /\ UNCHANGED <<clock, tables, call, draft, answer>>
      BY <1>5, <2>2 DEF LockSubscription, LockRow
    <3>2. held'[r] = {row} /\ \A q \in Requests \ {r} : held'[q] = held[q]
      BY <3>1 DEF TypeOK
    <3> QED BY <1>5, <3>1, <3>2, EarlyStepExactlyOnce DEF LockSubscription, LockRow
  <2> QED BY <2>1, <2>2
<1>6. CASE SkipSubscription(r)
  <2>1. pc[r] = "lock" /\ UNCHANGED <<tables, call, pc, held, draft, answer>>
    BY <1>6 DEF SkipSubscription, PassOver
  <2>2. Goto(r, "lock")
    BY <2>1 DEF Goto, TypeOK
  <2> QED BY <2>1, <2>2, EarlyStepExactlyOnce
<1>7. CASE NoSubscription(r)
  BY <1>7, RespondExactlyOnce DEF NoSubscription, Refuse
<1>8. CASE SumUsage(r)
  BY <1>8, SumExactlyOnce
<1>9. CASE InsertEvent(r)
  BY <1>9, InsertExactlyOnce
<1>10. CASE Commit(r)
  BY <1>10, CommitExactlyOnce
<1>11. CASE ReplyCreated(r)
  <2>1. PICK e \in draft[r], row \in held[r] :
            Respond(r, 201, {ResponseBody(e, row.plan)})
    BY <1>11 DEF ReplyCreated
  <2>2. pc[r] = "reply"
    BY <1>11 DEF ReplyCreated
  <2>3. e \in UsageEvent /\ row.plan \in Plans /\ e.id = r
    BY DEF TypeOK, SubscriptionRow, ExactlyOnceInv, DraftInv
  <2>4. PICK rec \in records : /\ rec.key = call[r].key
                               /\ rec.body = ResponseBody(e, row.plan)
    BY <2>2 DEF ExactlyOnceInv, StoredInv
  <2>5. rec.body.id = r
    BY <2>3, <2>4 DEF ResponseBody
  <2>6. {ResponseBody(e, row.plan)} \in SUBSET Body
    BY <2>3, EventBodyType
  <2> QED BY <2>1, <2>2, <2>4, <2>5, <2>6, RespondExactlyOnce
<1>12. CASE ReadWinner(r)
  <2>1. pc[r] = "reread"
    BY <1>12 DEF ReadWinner
  <2>2. StoredResponse(call[r].key) # {}
    BY <2>1 DEF ExactlyOnceInv, StoredInv, StoredResponse
  <2>3. PICK rec \in StoredResponse(call[r].key) :
            Respond(r, ReplayCode(rec), {rec.body})
    BY <1>12, <2>2 DEF ReadWinner
  <2>4. rec \in IdempotencyRecord /\ rec.body \in Body /\ ReplayCode(rec) = 200
    BY ReplayCodeType DEF StoredResponse, TypeOK, IdempotencyRecord
  <2>5. rec \in records /\ rec.key = call[r].key /\ rec.body.id # r
    BY <2>1, StoredByOther
  <2> QED BY <2>1, <2>3, <2>4, <2>5, RespondExactlyOnce
<1>13. CASE Fail(r)
  BY <1>13, FailExactlyOnce
<1> QED
  BY <1>1, <1>2, <1>3, <1>4, <1>5, <1>6, <1>7, <1>8, <1>9, <1>10, <1>11, <1>12,
     <1>13 DEF Step, AbortDeadlocked

\* Nothing outside a request touches its event, its key or its answer.
LEMMA UntouchedExactlyOnce ==
    ASSUME ExactlyOnceInv,
           UNCHANGED <<events, records, pc, call, held, draft, answer>>
    PROVE  ExactlyOnceInv'
  BY DEF ExactlyOnceInv, LedgerMatchesRecords, DraftInv, KeyInv, BilledInv,
         StoredInv, AnswerInv, Succeeded

LEMMA InitExactlyOnce == Init => ExactlyOnceInv
  BY DEF Init, ExactlyOnceInv, LedgerMatchesRecords, DraftInv, KeyInv, BilledInv,
         StoredInv, AnswerInv, Succeeded, NoAnswer

LEMMA NextExactlyOnce == TypeOK /\ ExactlyOnceInv /\ [Next]_vars => ExactlyOnceInv'
<1> SUFFICES ASSUME TypeOK, ExactlyOnceInv, [Next]_vars
             PROVE  ExactlyOnceInv'
  OBVIOUS
<1>1. CASE UNCHANGED vars
  BY <1>1, UntouchedExactlyOnce DEF vars
<1>2. CASE Environment
  BY <1>2, UntouchedExactlyOnce
     DEF Environment, Tick, AddSubscription, ChangeSubscription, tables, session
<1> QED
  BY <1>1, <1>2, StepExactlyOnce DEF Next, Quiescent

LEMMA SpecExactlyOnce == Spec => [](TypeOK /\ ExactlyOnceInv)
  BY InitType, NextType, InitExactlyOnce, NextExactlyOnce, PTL DEF Spec

\* Exactly-once metering: whatever calls race, retry or die, a key has one
\* usage event and one stored response, both or neither, and they agree.
THEOREM ExactlyOnceMetering == Spec => []LedgerMatchesRecords
<1>1. ExactlyOnceInv => LedgerMatchesRecords
  BY DEF ExactlyOnceInv
<1> QED BY <1>1, SpecExactlyOnce, PTL

\* The 409 branch of the IntegrityError handler is dead code.
THEOREM ConflictIsDeadCode == Spec => []ConflictNeverAnswered
<1>1. TypeOK /\ ExactlyOnceInv => ConflictNeverAnswered
  BY DEF ExactlyOnceInv, AnswerInv, ConflictNeverAnswered, NoAnswer
<1> QED BY <1>1, SpecExactlyOnce, PTL

\* All callers that succeed with one key see one response; one created it.
THEOREM SameAnswerForOneKey == Spec => []OneAnswerPerKey
<1>1. ASSUME ExactlyOnceInv
      PROVE  OneAnswerPerKey
  <2> SUFFICES ASSUME NEW r \in Requests, NEW q \in Requests,
                      Succeeded(r), Succeeded(q), call[r].key = call[q].key
               PROVE  /\ answer[r].body = answer[q].body
                      /\ answer[r].code = 201 /\ answer[q].code = 201 => r = q
    BY DEF OneAnswerPerKey
  <2>1. PICK a \in records : /\ a.key = call[r].key
                             /\ answer[r].body = {a.body}
                             /\ answer[r].code = 201 <=> a.body.id = r
    BY <1>1 DEF ExactlyOnceInv, AnswerInv
  <2>2. PICK b \in records : /\ b.key = call[q].key
                             /\ answer[q].body = {b.body}
                             /\ answer[q].code = 201 <=> b.body.id = q
    BY <1>1 DEF ExactlyOnceInv, AnswerInv
  <2>3. a = b
    BY <1>1, <2>1, <2>2 DEF ExactlyOnceInv, LedgerMatchesRecords
  <2> QED BY <2>1, <2>2, <2>3
<1> QED BY <1>1, SpecExactlyOnce, PTL


-----------------------------------------------------------------------------
(* The pipeline implements UsageLedger: COMMIT is the abstract Bill, and    *)
(* each way of answering is one of Confirm, Replay and Refuse.              *)

LEMMA SilentUntilDone ==
    ASSUME ExactlyOnceInv, NEW r \in Requests, pc[r] # "done"
    PROVE  Told[r] = Ledger!Silence
<1>1. answer[r] = NoAnswer
  BY DEF ExactlyOnceInv, AnswerInv
<1> QED BY <1>1 DEF Told, Shown, NoAnswer, Ledger!Silence

\* What Tell needs from the answer that is sent.
LEMMA RespondTells ==
    ASSUME TypeOK, ExactlyOnceInv, NEW r \in Requests, NEW code, NEW body,
           Respond(r, code, body), pc[r] # "done"
    PROVE  Ledger!Tell(r, code, {Entry(b) : b \in body})
<1>2. Told[r] = Ledger!Silence
  BY SilentUntilDone
<1>3. UNCHANGED <<call, Billed>>
  BY DEF Respond, tables, Billed
<1>4. answer' = [answer EXCEPT ![r] = [code |-> code, body |-> body]]
  BY DEF Respond
<1>5. Told' = [Told EXCEPT ![r] = Shown([code |-> code, body |-> body])]
  BY <1>4 DEF Told, TypeOK
<1>6. Shown([code |-> code, body |-> body]) =
          [code |-> code, event |-> {Entry(b) : b \in body}]
  BY DEF Shown
<1> QED
  BY <1>2, <1>3, <1>5, <1>6 DEF Ledger!Tell

\* A refusal: the caller has billed nothing.
LEMMA RefusalRefines ==
    ASSUME TypeOK, ExactlyOnceInv, NEW r \in Requests,
           NEW code \in {402, 404, 429}, Respond(r, code, {}),
           pc[r] \notin {"reply", "done", "failed"}
    PROVE  Ledger!Refuse(r)
<1>1. \A e \in Billed : e.id # r
  BY DEF Billed, Entry, ExactlyOnceInv, BilledInv
<1>2. Ledger!Tell(r, code, {})
  <2>1. Ledger!Tell(r, code, {Entry(b) : b \in {}})
    BY RespondTells
  <2>2. {Entry(b) : b \in {}} = {}
    OBVIOUS
  <2> QED BY <2>1, <2>2
<1> QED BY <1>1, <1>2 DEF Ledger!Refuse, Ledger!Refusals

\* A replay shows the event another call billed.
LEMMA ReplayRefines ==
    ASSUME TypeOK, ExactlyOnceInv, NEW r \in Requests,
           NEW rec \in StoredResponse(call[r].key),
           Respond(r, ReplayCode(rec), {rec.body}),
           pc[r] \notin {"reply", "done", "failed"}
    PROVE  Ledger!Replay(r)
<1>1. rec \in records /\ rec.key = call[r].key /\ rec.body.id # r
  BY StoredByOther
<1>2. ReplayCode(rec) = 200
  BY <1>1, ReplayCodeType DEF TypeOK
<1>3. PICK e \in events : e.key = rec.key /\ rec.body = ResponseBody(e, rec.body.plan)
  BY <1>1 DEF ExactlyOnceInv, LedgerMatchesRecords
<1>4. Entry(rec.body) = Entry(e)
  BY <1>3 DEF Entry, ResponseBody
<1>5. Entry(e) \in Billed /\ Entry(e).id # r /\ Entry(e).key = call[r].key
  BY <1>1, <1>3, <1>4 DEF Billed, Entry
<1>6. Ledger!Tell(r, 200, {Entry(b) : b \in {rec.body}})
  BY <1>2, RespondTells
<1>7. {Entry(b) : b \in {rec.body}} = {Entry(e)}
  BY <1>4
<1> QED BY <1>5, <1>6, <1>7 DEF Ledger!Replay

LEMMA ConfirmRefines ==
    ASSUME TypeOK, ExactlyOnceInv, NEW r \in Requests, ReplyCreated(r)
    PROVE  Ledger!Confirm(r)
<1>1. PICK e \in draft[r], row \in held[r] :
          Respond(r, 201, {ResponseBody(e, row.plan)})
  BY DEF ReplyCreated
<1>2. pc[r] = "reply" /\ e \in events /\ e.id = r
  BY DEF ReplyCreated, ExactlyOnceInv, StoredInv, DraftInv
<1>3. Ledger!Tell(r, 201, {Entry(b) : b \in {ResponseBody(e, row.plan)}})
  BY <1>1, <1>2, RespondTells
<1>4. {Entry(b) : b \in {ResponseBody(e, row.plan)}} = {Entry(e)}
  BY DEF Entry, ResponseBody
<1>5. Entry(e) \in Billed /\ Entry(e).id = r
  BY <1>2 DEF Billed, Entry
<1> QED BY <1>3, <1>4, <1>5 DEF Ledger!Confirm

LEMMA CommitRefines ==
    ASSUME TypeOK, ExactlyOnceInv, NEW r \in Requests, Commit(r)
    PROVE  Ledger!Bill(r)
<1>1. PICK e \in draft[r] : events' = events \cup {e}
  BY DEF Commit
<1>2. /\ pc[r] = "inserted"
      /\ UNCHANGED <<call, answer>>
      /\ e.id = r /\ Describes(e, call[r])
  BY DEF Commit, ExactlyOnceInv, DraftInv
<1>3. Entry(e) = Ledger!EventOf(r)
  <2>1. /\ e.key = call[r].key /\ e.tenant = call[r].tenant
        /\ e.event_type = call[r].event_type
        /\ e.quantity = RequestedQuantity(call[r])
    BY <1>2 DEF Describes, Asked
  <2> QED BY <1>2, <2>1 DEF Entry, Ledger!EventOf, RequestedQuantity
<1>4. Billed' = Billed \cup {Ledger!EventOf(r)}
  BY <1>1, <1>3 DEF Billed
<1>5. \A f \in Billed : f.key # call[r].key
  BY <1>2 DEF Billed, Entry, ExactlyOnceInv, KeyInv
<1>6. Told[r] = Ledger!Silence
  BY <1>2, SilentUntilDone
<1>7. UNCHANGED <<call, Told>>
  BY <1>2 DEF Told
<1> QED BY <1>4, <1>5, <1>6, <1>7 DEF Ledger!Bill

\* Steps that neither COMMIT nor answer are invisible to clients.
LEMMA HiddenRefines ==
    ASSUME UNCHANGED <<events, call, answer>>
    PROVE  UNCHANGED Ledger!vars
  BY DEF Ledger!vars, Billed, Told

LEMMA StepRefines ==
    ASSUME TypeOK, ExactlyOnceInv, NEW r \in Requests, Step(r) \/ Fail(r)
    PROVE  [Ledger!Next]_(Ledger!vars)
<1>1. CASE LoadTenant(r)
  BY <1>1, RefusalRefines, HiddenRefines DEF LoadTenant, tables, Ledger!Next
<1>2. CASE ReplayStored(r)
  BY <1>2, ReplayRefines DEF ReplayStored, Ledger!Next
<1>3. CASE CheckTenant(r)
  BY <1>3, RefusalRefines, HiddenRefines DEF CheckTenant, Refuse, tables, Ledger!Next
<1>4. CASE SelectSubscription(r)
  BY <1>4, HiddenRefines DEF SelectSubscription, tables
<1>5. CASE LockSubscription(r)
  BY <1>5, RefusalRefines, HiddenRefines
     DEF LockSubscription, LockRow, Refuse, tables, Ledger!Next
<1>6. CASE SkipSubscription(r)
  BY <1>6, HiddenRefines DEF SkipSubscription, PassOver, tables
<1>7. CASE NoSubscription(r)
  BY <1>7, RefusalRefines DEF NoSubscription, Refuse, Ledger!Next
<1>8. CASE SumUsage(r)
  BY <1>8, RefusalRefines, HiddenRefines DEF SumUsage, Refuse, tables, Ledger!Next
<1>9. CASE InsertEvent(r)
  BY <1>9, HiddenRefines DEF InsertEvent, tables
<1>10. CASE Commit(r)
  BY <1>10, CommitRefines DEF Ledger!Next
<1>11. CASE ReplyCreated(r)
  BY <1>11, ConfirmRefines DEF Ledger!Next
<1>12. CASE ReadWinner(r)
  <2>1. pc[r] = "reread" /\ StoredResponse(call[r].key) # {}
    BY <1>12 DEF ReadWinner, ExactlyOnceInv, StoredInv, StoredResponse
  <2> QED BY <1>12, <2>1, ReplayRefines DEF ReadWinner, Ledger!Next
<1>13. CASE Fail(r)
  BY <1>13, HiddenRefines DEF Fail, tables
<1> QED
  BY <1>1, <1>2, <1>3, <1>4, <1>5, <1>6, <1>7, <1>8, <1>9, <1>10, <1>11, <1>12,
     <1>13 DEF Step, AbortDeadlocked

LEMMA InitRefines == Init => Ledger!Init
<1> SUFFICES ASSUME Init
             PROVE  Ledger!Init
  OBVIOUS
<1>1. Billed = {}
  BY DEF Init, Billed
<1>2. Told = [r \in Requests |-> Ledger!Silence]
  BY DEF Init, Told, Shown, NoAnswer, Ledger!Silence
<1> QED BY <1>1, <1>2 DEF Init, Ledger!Init

LEMMA NextRefines ==
    TypeOK /\ ExactlyOnceInv /\ [Next]_vars => [Ledger!Next]_(Ledger!vars)
<1> SUFFICES ASSUME TypeOK, ExactlyOnceInv, [Next]_vars
             PROVE  [Ledger!Next]_(Ledger!vars)
  OBVIOUS
<1>1. CASE UNCHANGED vars
  BY <1>1, HiddenRefines DEF vars
<1>2. CASE Environment
  BY <1>2, HiddenRefines
     DEF Environment, Tick, AddSubscription, ChangeSubscription, tables, session
<1> QED BY <1>1, <1>2, StepRefines DEF Next, Quiescent

\* Clients cannot tell the pipeline from a ledger that spends each key once,
\* never changes a billed event and shows it to every successful caller.
THEOREM PipelineImplementsLedger == Spec => ImplementsLedger
  BY InitRefines, NextRefines, SpecExactlyOnce, PTL
     DEF Spec, ImplementsLedger, Ledger!Spec

===============================================================================
