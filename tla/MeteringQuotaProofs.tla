-------------------------- MODULE MeteringQuotaProofs --------------------------
(***************************************************************************)
(* What SELECT ... FOR UPDATE buys: the quota check of a request stays     *)
(* true until its COMMIT.  Unlike the theorems of MeteringEngineProofs     *)
(* these need PostgreSQL, and most need a tenant to have one subscription  *)
(* row; the runs SqliteOversell and PlanChangeRace show what is lost       *)
(* without the one or the other.                                           *)
(***************************************************************************)
EXTENDS MeteringEngineProofs, UsageUnitsProofs

OneRowPerTenant ==
    \A s, t \in Subscriptions : Owner[s] = Owner[t] => s = t

\* The tenants that never have two rows.
SoleTenants ==
    {u \in Tenants : \A s, t \in Subscriptions : Owner[s] = u /\ Owner[t] = u => s = t}

\* Between FOR UPDATE and the end of the transaction.
Reserving(r) == pc[r] \in {"sum", "insert", "inserted"}

-----------------------------------------------------------------------------
(* Row locks.                                                              *)

\* The rows a request looks at are its tenant's.
OwnRowsInv ==
    \A r \in Requests :
        /\ \A c \in candidates[r] :
               c.tenant = call[r].tenant /\ c.tenant = Owner[c.id]
        /\ \A row \in held[r] :
               row.tenant = call[r].tenant /\ row.tenant = Owner[row.id]

\* A reserving request has locked the row it holds, and the row is current and
\* ACTIVE.
HeldInv ==
    \A r \in Requests : Reserving(r) =>
        \A row \in held[r] :
            /\ row.id \in locked[r]
            /\ row \in subscriptions
            /\ row.status = "active"

\* FOR UPDATE is exclusive.
ExclusiveInv ==
    \A r, q \in Requests : r # q => locked[r] \cap locked[q] = {}

LockInv == OwnRowsInv /\ HeldInv /\ ExclusiveInv

LEMMA RespondLock ==
    ASSUME TypeOK, LockInv, NEW r \in Requests, NEW code, NEW body,
           Respond(r, code, body)
    PROVE  LockInv'
<1> USE DEF LockInv, Respond, Goto, EndTransaction, tables
<1>1. OwnRowsInv'
  BY DEF OwnRowsInv, TypeOK
<1>2. HeldInv'
  BY DEF HeldInv, Reserving, TypeOK
<1>3. ExclusiveInv'
  BY DEF ExclusiveInv, TypeOK
<1> QED BY <1>1, <1>2, <1>3

\* A step of r that takes no lock, changes no row and looks at no new one.
LEMMA LocklessStepLock ==
    ASSUME TypeOK, LockInv, NEW r \in Requests,
           UNCHANGED <<subscriptions, call>>,
           NEW label, Goto(r, label),
           \A q \in Requests \ {r} :
               /\ candidates'[q] = candidates[q] /\ held'[q] = held[q]
               /\ locked'[q] = locked[q],
           candidates'[r] \subseteq candidates[r],
           held'[r] \subseteq held[r],
           locked'[r] \subseteq locked[r],
           \/ locked'[r] = locked[r] /\ Reserving(r)
           \/ label \notin {"sum", "insert", "inserted"}
    PROVE  LockInv'
<1> USE DEF LockInv, Goto
<1>1. OwnRowsInv'
  <2> SUFFICES ASSUME NEW q \in Requests
               PROVE  /\ candidates'[q] \subseteq candidates[q]
                      /\ held'[q] \subseteq held[q]
    BY DEF OwnRowsInv
  <2> QED OBVIOUS
<1>2. HeldInv'
  BY DEF HeldInv, Reserving, TypeOK
<1>3. ExclusiveInv'
  BY DEF ExclusiveInv
<1> QED BY <1>1, <1>2, <1>3

LEMMA SelectLock ==
    ASSUME TypeOK, LockInv, NEW r \in Requests, SelectSubscription(r)
    PROVE  LockInv'
<1> USE DEF LockInv, SelectSubscription, Goto, tables
<1>1. OwnRowsInv'
  BY DEF OwnRowsInv, TypeOK
<1>2. HeldInv'
  BY DEF HeldInv, Reserving, TypeOK
<1>3. ExclusiveInv'
  BY DEF ExclusiveInv
<1> QED BY <1>1, <1>2, <1>3

\* Locking a row nobody else has locked.
LEMMA TakeRowLockExclusive ==
    ASSUME TypeOK, ExclusiveInv, NEW r \in Requests, NEW id,
           TakeRowLock(r, id), ~LockedByOther(r, id)
    PROVE  ExclusiveInv'
  BY DEF ExclusiveInv, TakeRowLock, LockedByOther, TypeOK

LEMMA LockSubscriptionLock ==
    ASSUME TypeOK, LockInv, Backend = "postgresql",
           NEW r \in Requests, LockSubscription(r)
    PROVE  LockInv'
<1>1. CASE Refuse(r, 402)
  BY <1>1, RespondLock DEF Refuse
<1>2. CASE ~Refuse(r, 402)
  <2>1. PICK c \in candidates[r], row \in subscriptions :
          /\ row.id = c.id /\ row.status = "active"
          /\ ~LockedByOther(r, c.id)
          /\ TakeRowLock(r, c.id)
          /\ held' = [held EXCEPT ![r] = {row}]
          /\ candidates' = [candidates EXCEPT ![r] = {}]
          /\ Goto(r, "sum")
          /\ UNCHANGED <<clock, tables, call, draft, answer>>
    BY <1>2 DEF LockSubscription, LockRow
  <2>2. row.tenant = call[r].tenant /\ row.tenant = Owner[row.id]
    BY <2>1 DEF LockInv, OwnRowsInv, TypeOK
  <2>3. OwnRowsInv'
    BY <2>1, <2>2 DEF LockInv, OwnRowsInv, TypeOK
  <2>4. HeldInv'
    BY <2>1 DEF LockInv, HeldInv, Reserving, TakeRowLock, Goto, tables, TypeOK
  <2>5. ExclusiveInv'
    BY <2>1, TakeRowLockExclusive DEF LockInv
  <2> QED BY <2>3, <2>4, <2>5 DEF LockInv
<1> QED BY <1>1, <1>2

LEMMA SkipLock ==
    ASSUME TypeOK, LockInv, NEW r \in Requests, SkipSubscription(r)
    PROVE  LockInv'
<1>1. PICK c \in candidates[r] :
        /\ ~LockedByOther(r, c.id)
        /\ TakeRowLock(r, c.id)
        /\ candidates' = [candidates EXCEPT ![r] = @ \ {c}]
  BY DEF SkipSubscription, PassOver
<1>2. pc[r] = "lock" /\ UNCHANGED <<tables, call, pc, held>>
  BY DEF SkipSubscription, PassOver
<1>3. OwnRowsInv'
  BY <1>1, <1>2 DEF LockInv, OwnRowsInv, TypeOK
<1>4. HeldInv'
  BY <1>1, <1>2 DEF LockInv, HeldInv, Reserving, TakeRowLock, tables, TypeOK
<1>5. ExclusiveInv'
  BY <1>1, TakeRowLockExclusive DEF LockInv
<1> QED BY <1>3, <1>4, <1>5 DEF LockInv

LEMMA StepLock ==
    ASSUME TypeOK, LockInv, Backend = "postgresql",
           NEW r \in Requests, Step(r) \/ Fail(r)
    PROVE  LockInv'
<1>1. CASE LoadTenant(r)
  BY <1>1, RespondLock, LocklessStepLock DEF LoadTenant, session, tables
<1>2. CASE ReplayStored(r)
  BY <1>2, RespondLock DEF ReplayStored
<1>3. CASE CheckTenant(r)
  BY <1>3, RespondLock, LocklessStepLock DEF CheckTenant, Refuse, session, tables
<1>4. CASE SelectSubscription(r)
  BY <1>4, SelectLock
<1>5. CASE LockSubscription(r)
  BY <1>5, LockSubscriptionLock
<1>6. CASE SkipSubscription(r)
  BY <1>6, SkipLock
<1>7. CASE NoSubscription(r)
  BY <1>7, RespondLock DEF NoSubscription, Refuse
<1>8. CASE SumUsage(r)
  <2>1. CASE Refuse(r, 429)
    BY <2>1, RespondLock DEF Refuse
  <2>2. CASE ~Refuse(r, 429)
    <3>1. /\ Reserving(r) /\ Goto(r, "insert")
          /\ UNCHANGED <<subscriptions, call, candidates, locked, held>>
      BY <1>8, <2>2 DEF SumUsage, Reserving, tables
    <3> QED BY <3>1, LocklessStepLock
  <2> QED BY <2>1, <2>2
<1>9. CASE InsertEvent(r)
  <2>1. CASE Goto(r, "reread") /\ EndTransaction(r)
    <3>1. /\ candidates'[r] = {} /\ held'[r] = {} /\ locked'[r] = {}
          /\ \A q \in Requests \ {r} :
               /\ candidates'[q] = candidates[q] /\ held'[q] = held[q]
               /\ locked'[q] = locked[q]
      BY <2>1 DEF EndTransaction, TypeOK
    <3> QED BY <1>9, <2>1, <3>1, LocklessStepLock DEF InsertEvent, tables
  <2>2. CASE Goto(r, "inserted") /\ UNCHANGED session
    BY <1>9, <2>2, LocklessStepLock DEF InsertEvent, Reserving, tables, session
  <2> QED BY <1>9, <2>1, <2>2 DEF InsertEvent
<1>10. CASE Commit(r)
  <2>1. /\ Goto(r, "reply") /\ locked'[r] = {}
        /\ \A q \in Requests \ {r} : locked'[q] = locked[q]
        /\ UNCHANGED <<subscriptions, call, candidates, held>>
    BY <1>10 DEF Commit, TypeOK
  <2> QED BY <2>1, LocklessStepLock
<1>11. CASE ReplyCreated(r)
  BY <1>11, RespondLock DEF ReplyCreated
<1>12. CASE ReadWinner(r)
  BY <1>12, RespondLock DEF ReadWinner
<1>13. CASE Fail(r)
  <2>1. /\ candidates'[r] = {} /\ held'[r] = {} /\ locked'[r] = {}
        /\ \A q \in Requests \ {r} :
             /\ candidates'[q] = candidates[q] /\ held'[q] = held[q]
             /\ locked'[q] = locked[q]
    BY <1>13 DEF Fail, EndTransaction, TypeOK
  <2> QED BY <1>13, <2>1, LocklessStepLock DEF Fail, tables
<1> QED
  BY <1>1, <1>2, <1>3, <1>4, <1>5, <1>6, <1>7, <1>8, <1>9, <1>10, <1>11, <1>12,
     <1>13 DEF Step, AbortDeadlocked

\* Webhooks wait for the row locks they would violate.
LEMMA EnvironmentLock ==
    ASSUME TypeOK, LockInv, Environment
    PROVE  LockInv'
<1> USE DEF LockInv
<1>1. CASE Tick
  BY <1>1 DEF Tick, OwnRowsInv, HeldInv, ExclusiveInv, Reserving, tables, session
<1>2. ASSUME NEW s \in Subscriptions, AddSubscription(s)
      PROVE  LockInv'
  BY <1>2
     DEF AddSubscription, OwnRowsInv, HeldInv, ExclusiveInv, Reserving, session
<1>3. ASSUME NEW s \in Subscriptions, ChangeSubscription(s)
      PROVE  LockInv'
  <2>1. PICK row \in subscriptions :
          row.id = s /\ subscriptions \ {row} \subseteq subscriptions'
    BY <1>3 DEF ChangeSubscription
  <2>2. /\ UNCHANGED <<pc, call, candidates, held, locked>>
        /\ \A r \in Requests : s \notin locked[r]
    BY <1>3 DEF ChangeSubscription, session
  <2> QED BY <2>1, <2>2 DEF OwnRowsInv, HeldInv, ExclusiveInv, Reserving
<1> QED BY <1>1, <1>2, <1>3 DEF Environment

LEMMA SpecLock ==
    ASSUME Backend = "postgresql"
    PROVE  Spec => [](TypeOK /\ LockInv)
<1>1. Init => LockInv
  BY DEF Init, LockInv, OwnRowsInv, HeldInv, ExclusiveInv, Reserving
<1>2. TypeOK /\ LockInv /\ [Next]_vars => LockInv'
  <2> SUFFICES ASSUME TypeOK, LockInv, [Next]_vars
               PROVE  LockInv'
    OBVIOUS
  <2>1. CASE UNCHANGED vars
    BY <2>1 DEF vars, LockInv, OwnRowsInv, HeldInv, ExclusiveInv, Reserving
  <2> QED BY <2>1, StepLock, EnvironmentLock DEF Next, Quiescent, vars
<1> QED BY <1>1, <1>2, InitType, NextType, PTL DEF Spec

\* No webhook changes status, plan or period of the subscription a request has
\* checked before the request is over.
THEOREM HeldRowStaysCurrent ==
    ASSUME Backend = "postgresql"
    PROVE  Spec => []LockedRowIsCurrent
<1>1. LockInv => LockedRowIsCurrent
  BY DEF LockInv, HeldInv, Reserving, LockedRowIsCurrent
<1> QED BY <1>1, SpecLock, PTL

\* TenantSerialised for the tenants in T.
SerialisedIn(T) ==
    \A r, q \in Requests :
        /\ Reserving(r) /\ Reserving(q)
        /\ call[r].tenant = call[q].tenant /\ call[r].tenant \in T
        => r = q

LEMMA CallTenant ==
    ASSUME TypeOK, NEW r \in Requests
    PROVE  call[r].tenant \in Tenants
  BY ConstantsAssumption DEF TypeOK, ConstantsAssumption, Call

LEMMA SerialisedInTenants ==
    ASSUME TypeOK
    PROVE  TenantSerialised <=> SerialisedIn(Tenants)
  BY CallTenant DEF TenantSerialised, SerialisedIn, Reserving

\* Two requests of a tenant with one row lock the same row.
LEMMA OneReserving ==
    ASSUME TypeOK, LockInv, ExactlyOnceInv
    PROVE  SerialisedIn(SoleTenants)
<1> SUFFICES ASSUME NEW r \in Requests, NEW q \in Requests, Reserving(r), Reserving(q),
                    call[r].tenant = call[q].tenant, call[r].tenant \in SoleTenants
             PROVE  r = q
  BY DEF SerialisedIn
<1>1. PICK a \in held[r] : a.id \in locked[r] /\ a.tenant = call[r].tenant
                           /\ a.tenant = Owner[a.id]
  BY DEF LockInv, HeldInv, OwnRowsInv, ExactlyOnceInv, DraftInv, Reserving
<1>2. PICK b \in held[q] : b.id \in locked[q] /\ b.tenant = call[q].tenant
                           /\ b.tenant = Owner[b.id]
  BY DEF LockInv, HeldInv, OwnRowsInv, ExactlyOnceInv, DraftInv, Reserving
<1>3. a.id \in Subscriptions /\ b.id \in Subscriptions
  BY DEF TypeOK, SubscriptionRow
<1>4. a.id = b.id
  BY <1>1, <1>2, <1>3 DEF SoleTenants
<1> QED BY <1>1, <1>2, <1>4 DEF LockInv, ExclusiveInv

\* quota.py's promise that concurrent requests of a tenant are serialised.
THEOREM TenantsAreSerialised ==
    ASSUME Backend = "postgresql", OneRowPerTenant
    PROVE  Spec => []TenantSerialised
<1>1. SoleTenants = Tenants
  BY ConstantsAssumption DEF OneRowPerTenant, SoleTenants
<1>2. TypeOK /\ LockInv /\ ExactlyOnceInv => TenantSerialised
  BY <1>1, OneReserving, SerialisedInTenants
<1> QED BY <1>2, SpecLock, SpecExactlyOnce, PTL

-----------------------------------------------------------------------------
(* The quota check stays true until COMMIT.                                 *)

\* An event added for another tenant, or another type, is not in the sum.
LEMMA OtherUsageUnchanged ==
    ASSUME NEW e, events' = events \cup {e}, NEW row, NEW type,
           e.tenant # row.tenant \/ e.event_type # type
    PROVE  PeriodEvents(row, type)' = PeriodEvents(row, type)
  BY DEF PeriodEvents

\* AdmissionSound for the tenants in T.
AdmissionIn(T) ==
    \A r \in Requests : Admitted(r) /\ call[r].tenant \in T =>
        \A row \in held[r], e \in draft[r] :
            ~Exceeds(row, e.event_type, e.quantity)

LEMMA AdmissionInTenants ==
    ASSUME TypeOK
    PROVE  AdmissionSound <=> AdmissionIn(Tenants)
  BY CallTenant DEF AdmissionSound, AdmissionIn

\* Only COMMIT writes usage_events, and only its own tenant's sum changes.
LEMMA AdmissionStep ==
    ASSUME TypeOK, ExactlyOnceInv, LockInv, NEW T, SerialisedIn(T), AdmissionIn(T),
           NEW q \in Requests, Step(q) \/ Fail(q)
    PROVE  AdmissionIn(T)'
<1>0. call' = call
  BY DEF Step, Fail, AbortDeadlocked, LoadTenant, ReplayStored, CheckTenant,
         SelectSubscription, LockSubscription, LockRow, SkipSubscription,
         PassOver, NoSubscription,
         SumUsage, InsertEvent, Commit, ReplyCreated, ReadWinner, Refuse, Respond
<1> SUFFICES ASSUME NEW r \in Requests, Admitted(r)', call[r].tenant \in T,
                    NEW row \in held'[r], NEW e \in draft'[r]
             PROVE  ~Exceeds(row, e.event_type, e.quantity)'
  BY <1>0 DEF AdmissionIn
<1>1. CASE Commit(q)
  <2>1. PICK f \in draft[q] : events' = events \cup {f}
    BY <1>1 DEF Commit
  <2>2. /\ pc[q] = "inserted" /\ pc' = [pc EXCEPT ![q] = "reply"]
        /\ held' = held /\ draft' = draft
    BY <1>1 DEF Commit, Goto
  <2>3. r # q /\ Admitted(r)
    BY <2>2 DEF Admitted, TypeOK
  <2>4. call[r].tenant # call[q].tenant
    BY <2>2, <2>3 DEF SerialisedIn, Admitted, Reserving
  <2>5. f.tenant = call[q].tenant /\ row.tenant = call[r].tenant
    BY <2>2 DEF ExactlyOnceInv, DraftInv, Describes, Asked, LockInv, OwnRowsInv
  <2>6. PeriodEvents(row, e.event_type)' = PeriodEvents(row, e.event_type)
    BY <2>1, <2>4, <2>5, OtherUsageUnchanged
  <2> QED BY <2>2, <2>3, <2>6 DEF AdmissionIn, Exceeds, Used, TotalQuantity
<1>2. CASE ~Commit(q)
  <2>1. events' = events
    BY <1>2 DEF Step, Fail, AbortDeadlocked, LoadTenant, ReplayStored, CheckTenant,
           SelectSubscription, LockSubscription, LockRow, SkipSubscription,
           PassOver, NoSubscription,
           SumUsage, InsertEvent, ReplyCreated, ReadWinner, Refuse, Respond, tables
  <2>2. Exceeds(row, e.event_type, e.quantity)' = Exceeds(row, e.event_type, e.quantity)
    BY <2>1 DEF Exceeds, Used, PeriodEvents
  <2>3. CASE held'[r] = held[r] /\ draft'[r] = draft[r] /\ Admitted(r)
    BY <2>2, <2>3 DEF AdmissionIn
  <2>4. CASE SumUsage(q) /\ r = q
    <3>1. \A b \in held[q] : b = row
      BY <2>4 DEF SumUsage, Refuse, Respond, EndTransaction, Goto, Admitted, TypeOK,
             ExactlyOnceInv, DraftInv
    <3>2. /\ e.event_type = call[q].event_type
          /\ e.quantity = RequestedQuantity(call[q])
          /\ ~Exceeds(row, call[q].event_type, RequestedQuantity(call[q]))
      BY <2>4, <3>1 DEF SumUsage, NewEvent, Refuse, Respond, EndTransaction, TypeOK
    <3> QED BY <2>2, <3>2
  <2>5. \/ held'[r] = held[r] /\ draft'[r] = draft[r] /\ Admitted(r)
        \/ SumUsage(q) /\ r = q
    BY <1>2 DEF Step, Fail, AbortDeadlocked, LoadTenant, ReplayStored, CheckTenant,
           SelectSubscription, LockSubscription, LockRow, SkipSubscription,
           PassOver, NoSubscription,
           SumUsage, InsertEvent, ReplyCreated, ReadWinner, Refuse, Respond,
           EndTransaction, Goto, Admitted, TypeOK, session
  <2> QED BY <2>3, <2>4, <2>5
<1> QED BY <1>1, <1>2

LEMMA NextAdmission ==
    ASSUME TypeOK, ExactlyOnceInv, LockInv, NEW T, SerialisedIn(T), AdmissionIn(T),
           [Next]_vars
    PROVE  AdmissionIn(T)'
<1>1. CASE UNCHANGED <<events, pc, call, held, draft>>
  BY <1>1 DEF AdmissionIn, Admitted, Exceeds, Used, PeriodEvents
<1>2. CASE Environment
  BY <1>1, <1>2
     DEF Environment, Tick, AddSubscription, ChangeSubscription, tables, session
<1> QED BY <1>1, <1>2, AdmissionStep DEF Next, Quiescent, vars

\* As long as the calls of each tenant are serialised, whatever rows it has, ...
LEMMA SerialisedAdmission ==
    ASSUME Backend = "postgresql"
    PROVE  Spec /\ []TenantSerialised => []AdmissionSound
<1>1. Init => AdmissionSound
  BY DEF Init, AdmissionSound, Admitted
<1>2. TypeOK /\ TypeOK' /\ ExactlyOnceInv /\ LockInv /\ TenantSerialised
        /\ AdmissionSound /\ [Next]_vars => AdmissionSound'
  <2> SUFFICES ASSUME TypeOK, TypeOK', ExactlyOnceInv, LockInv, TenantSerialised,
                      AdmissionSound, [Next]_vars
               PROVE  AdmissionSound'
    OBVIOUS
  <2>1. SerialisedIn(Tenants) /\ AdmissionIn(Tenants)
    BY SerialisedInTenants, AdmissionInTenants
  <2>2. AdmissionIn(Tenants)'
    BY <2>1, NextAdmission
  <2>3. \A r \in Requests : call'[r].tenant \in Tenants
    BY ConstantsAssumption DEF TypeOK, ConstantsAssumption, Call
  <2> QED BY <2>2, <2>3 DEF AdmissionSound, AdmissionIn
<1> QED BY <1>1, <1>2, SpecLock, SpecExactlyOnce, PTL DEF Spec

\* ... and for tenants with one row without that condition.
LEMMA SoleAdmission ==
    ASSUME Backend = "postgresql"
    PROVE  Spec => []AdmissionIn(SoleTenants)
<1>1. Init => AdmissionIn(SoleTenants)
  BY DEF Init, AdmissionIn, Admitted
<1>2. TypeOK /\ ExactlyOnceInv /\ LockInv /\ AdmissionIn(SoleTenants) /\ [Next]_vars
        => AdmissionIn(SoleTenants)'
  BY OneReserving, NextAdmission
<1> QED BY <1>1, <1>2, SpecLock, SpecExactlyOnce, PTL DEF Spec

\* A request that passed the quota check still fits when it commits.
THEOREM AdmissionStaysSound ==
    ASSUME Backend = "postgresql", OneRowPerTenant
    PROVE  Spec => []AdmissionSound
  BY TenantsAreSerialised, SerialisedAdmission, PTL

-----------------------------------------------------------------------------
(* A billing period is never oversold, as long as its row is the tenant's   *)
(* only one and keeps its dates.                                            *)

\* Usage belongs to tenants that have a subscription row.
UsageInv ==
    /\ IsFiniteSet(Units(events))
    /\ \A e \in events : \E row \in subscriptions : row.tenant = e.tenant

\* What only FOR UPDATE and COMMIT do.
LEMMA OtherStep ==
    ASSUME TypeOK, NEW q \in Requests, Step(q) \/ Fail(q), ~Commit(q)
    PROVE  /\ UNCHANGED <<clock, subscriptions, events>>
           /\ \A r \in Requests : Reserving(r)' =>
                  \/ Reserving(r) /\ held'[r] = held[r]
                  \/ \E row \in subscriptions : held'[r] = {row} /\ clock < row.end
<1> USE DEF TypeOK, Reserving, Refuse, Respond, EndTransaction, Goto, tables, session
<1>1. CASE LockSubscription(q)
  <2>1. CASE Refuse(q, 402)
    BY <2>1
  <2>2. CASE ~Refuse(q, 402)
    <3>1. PICK row \in subscriptions :
            /\ ~(clock >= row.end)
            /\ held' = [held EXCEPT ![q] = {row}]
            /\ Goto(q, "sum")
            /\ UNCHANGED <<clock, tables>>
      BY <1>1, <2>2 DEF LockSubscription, LockRow
    <3>2. row.end \in Nat
      BY DEF SubscriptionRow
    <3> QED BY <3>1, <3>2
  <2> QED BY <2>1, <2>2
<1>2. CASE ~LockSubscription(q)
  BY <1>2
     DEF Step, Fail, AbortDeadlocked, LoadTenant, ReplayStored, CheckTenant,
         SelectSubscription, SkipSubscription, PassOver, NoSubscription, SumUsage,
         InsertEvent, ReplyCreated, ReadWinner
<1> QED BY <1>1, <1>2

LEMMA OtherDraft ==
    ASSUME TypeOK, NEW q \in Requests, Step(q) \/ Fail(q), ~Commit(q),
           NEW r \in Requests, Admitted(r)', NEW e \in draft'[r]
    PROVE  \/ Admitted(r) /\ e \in draft[r] /\ held'[r] = held[r]
           \/ e.timestamp = clock /\ held'[r] = held[r] /\ Reserving(r)
  BY DEF Step, Fail, AbortDeadlocked, LoadTenant, ReplayStored, CheckTenant,
         SelectSubscription, LockSubscription, LockRow, SkipSubscription, PassOver,
         NoSubscription, SumUsage, NewEvent, InsertEvent, ReplyCreated, ReadWinner, Refuse,
         Respond, EndTransaction, Goto, Admitted, Reserving, TypeOK, session

\* One more event, seen over the period of a row, is no more than what a row
\* whose period holds all the older ones has used, and that event.
LEMMA AddedUsage ==
    ASSUME NEW e, events' = events \cup {e}, e.quantity \in Nat,
           IsFiniteSet(Units(events)), NEW mine, NEW row, NEW type,
           PeriodEvents(row, type) \subseteq PeriodEvents(mine, type)
    PROVE  /\ Used(mine, type) \in Nat /\ Used(row, type)' \in Nat
           /\ Used(row, type)' <= Used(mine, type) + e.quantity
<1>1. PeriodEvents(mine, type) \in SUBSET events
  BY DEF PeriodEvents
<1>2. /\ IsFiniteSet(Units(PeriodEvents(mine, type)))
      /\ Used(mine, type) \in Nat
  BY <1>1, LessUsage DEF Used
<1>3. PeriodEvents(row, type)' \in SUBSET (PeriodEvents(mine, type) \cup {e})
  <2>1. PeriodEvents(row, type)' \subseteq PeriodEvents(row, type) \cup {e}
    BY DEF PeriodEvents
  <2> QED BY <2>1
<1>4. /\ IsFiniteSet(Units(PeriodEvents(mine, type) \cup {e}))
      /\ TotalQuantity(PeriodEvents(mine, type) \cup {e})
             <= Used(mine, type) + e.quantity
      /\ TotalQuantity(PeriodEvents(mine, type) \cup {e}) \in Nat
  BY <1>1, <1>2, AddUsage, LessUsage DEF Used
<1>5. /\ Used(row, type)' \in Nat
      /\ Used(row, type)' <= TotalQuantity(PeriodEvents(mine, type) \cup {e})
  BY <1>3, <1>4, LessUsage DEF Used, TotalQuantity, Units
<1> QED BY <1>2, <1>4, <1>5

\* What COMMIT of a call adds, and what it knows of it.
LEMMA CommitFacts ==
    ASSUME TypeOK, ExactlyOnceInv, LockInv, NEW r \in Requests, Commit(r)
    PROVE  \E e \in draft[r], mine \in held[r] :
             /\ events' = events \cup {e}
             /\ UNCHANGED subscriptions
             /\ mine \in subscriptions
             /\ e.tenant = call[r].tenant /\ mine.tenant = call[r].tenant
             /\ e \in UsageEvent
             /\ AdmissionSound => ~Exceeds(mine, e.event_type, e.quantity)
<1>1. PICK e \in draft[r], mine \in held[r] : events' = events \cup {e}
  BY DEF Commit
<1>2. pc[r] = "inserted" /\ UNCHANGED subscriptions
  BY DEF Commit
<1>3. mine \in subscriptions /\ mine.tenant = call[r].tenant
  BY <1>2 DEF LockInv, HeldInv, OwnRowsInv, Reserving
<1>4. e.tenant = call[r].tenant /\ e \in UsageEvent
  BY DEF TypeOK, ExactlyOnceInv, DraftInv, Describes, Asked
<1>5. AdmissionSound => ~Exceeds(mine, e.event_type, e.quantity)
  BY <1>2 DEF AdmissionSound, Admitted
<1> QED BY <1>1, <1>2, <1>3, <1>4, <1>5

LEMMA CommitUsage ==
    ASSUME TypeOK, ExactlyOnceInv, LockInv, UsageInv, NEW r \in Requests, Commit(r)
    PROVE  UsageInv'
<1>1. PICK e \in draft[r], mine \in held[r] :
        /\ events' = events \cup {e}
        /\ UNCHANGED subscriptions
        /\ mine \in subscriptions
        /\ e.tenant = call[r].tenant /\ mine.tenant = call[r].tenant
        /\ e \in UsageEvent
  BY CommitFacts
<1> QED BY <1>1, AddUsage DEF UsageInv, UsageEvent

LEMMA NextUsage == TypeOK /\ ExactlyOnceInv /\ LockInv /\ UsageInv /\ [Next]_vars
                     => UsageInv'
<1> SUFFICES ASSUME TypeOK, ExactlyOnceInv, LockInv, UsageInv, [Next]_vars
             PROVE  UsageInv'
  OBVIOUS
<1>1. ASSUME NEW r \in Requests, Commit(r)
      PROVE  UsageInv'
  BY <1>1, CommitUsage
<1>2. CASE /\ UNCHANGED events
           /\ \A row \in subscriptions : \E new \in subscriptions' :
                  new.tenant = row.tenant
  BY <1>2 DEF UsageInv
<1>3. CASE UNCHANGED <<events, subscriptions>>
  BY <1>3, <1>2
<1>4. ASSUME NEW s \in Subscriptions, ChangeSubscription(s)
      PROVE  UsageInv'
  <2>1. PICK row \in subscriptions, status \in StripeStatuses :
          \E period \in Periods \cup {<<row.start, row.end>>} :
            subscriptions' = (subscriptions \ {row}) \cup
              {[row EXCEPT !.status = status, !.start = period[1], !.end = period[2]]}
    BY <1>4 DEF ChangeSubscription
  <2>2. PICK period :
            subscriptions' = (subscriptions \ {row}) \cup
              {[row EXCEPT !.status = status, !.start = period[1], !.end = period[2]]}
    BY <2>1
  <2> DEFINE new == [row EXCEPT !.status = status, !.start = period[1], !.end = period[2]]
  <2>3. new.tenant = row.tenant /\ subscriptions' = (subscriptions \ {row}) \cup {new}
    BY <2>2 DEF TypeOK, SubscriptionRow
  <2> HIDE DEF new
  <2> QED BY <1>2, <1>4, <2>3 DEF ChangeSubscription
<1>5. ASSUME NEW s \in Subscriptions, AddSubscription(s)
      PROVE  UsageInv'
  BY <1>2, <1>5 DEF AddSubscription
<1>6. CASE Environment
  BY <1>3, <1>4, <1>5, <1>6 DEF Environment, Tick, tables
<1>7. ASSUME NEW r \in Requests, Step(r) \/ Fail(r), ~Commit(r)
      PROVE  UsageInv'
  BY <1>3, <1>7, OtherStep
<1> QED BY <1>1, <1>3, <1>6, <1>7 DEF Next, Quiescent, vars

LEMMA SpecUsage ==
    ASSUME Backend = "postgresql"
    PROVE  Spec => []UsageInv
<1>1. Init => UsageInv
  BY NoUsage DEF Init, UsageInv
<1> QED BY <1>1, NextUsage, SpecLock, SpecExactlyOnce, PTL DEF Spec

LEMMA CommitQuota ==
    ASSUME TypeOK, ExactlyOnceInv, LockInv, AdmissionSound, OneRowPerTenant,
           UsageInv, NeverOversold, NEW r \in Requests, Commit(r)
    PROVE  NeverOversold'
<1>1. PICK e \in draft[r], mine \in held[r] :
        /\ events' = events \cup {e}
        /\ UNCHANGED subscriptions
        /\ mine \in subscriptions
        /\ e.tenant = call[r].tenant /\ mine.tenant = call[r].tenant
        /\ e \in UsageEvent
        /\ ~Exceeds(mine, e.event_type, e.quantity)
  BY CommitFacts
<1>2. ASSUME NEW row \in subscriptions, NEW type \in EventTypes
      PROVE  Used(row, type)' <= Limit[row.plan][type]
  <2>1. Limit[row.plan][type] \in Nat /\ e.quantity \in Nat
    BY <1>1, ConstantsAssumption DEF TypeOK, SubscriptionRow, UsageEvent
  <2>2. CASE e.tenant # row.tenant \/ e.event_type # type
    BY <1>1, <2>2, OtherUsageUnchanged DEF NeverOversold, Used, TotalQuantity
  <2>3. CASE e.tenant = row.tenant /\ e.event_type = type
    <3>1. row = mine
      BY <1>1, <2>3 DEF TypeOK, OneRowPerTenant, SubscriptionRow
    <3>2. /\ Used(row, type) \in Nat /\ Used(row, type)' \in Nat
          /\ Used(row, type)' <= Used(row, type) + e.quantity
      BY <1>1, <2>1, AddedUsage DEF UsageInv
    <3> QED BY <1>1, <2>1, <2>3, <3>1, <3>2 DEF Exceeds
  <2> QED BY <2>2, <2>3
<1> QED BY <1>1, <1>2 DEF NeverOversold

\* Without new periods an update keeps every row's tenant, plan and dates.
LEMMA DatesKept ==
    ASSUME TypeOK, Periods = {}, NEW s \in Subscriptions, ChangeSubscription(s)
    PROVE  \E row, new :
             /\ row \in subscriptions
             /\ subscriptions' = (subscriptions \ {row}) \cup {new}
             /\ new.tenant = row.tenant /\ new.plan = row.plan
             /\ new.start = row.start /\ new.end = row.end
<1>1. PICK row \in subscriptions, status \in StripeStatuses :
        \E period \in {<<row.start, row.end>>} :
          subscriptions' = (subscriptions \ {row}) \cup
            {[row EXCEPT !.status = status, !.start = period[1], !.end = period[2]]}
  BY DEF ChangeSubscription
<1>2. PICK period \in {<<row.start, row.end>>} :
        subscriptions' = (subscriptions \ {row}) \cup
          {[row EXCEPT !.status = status, !.start = period[1], !.end = period[2]]}
  BY <1>1
<1> DEFINE new == [row EXCEPT !.status = status, !.start = period[1],
                              !.end = period[2]]
<1>3. period[1] = row.start /\ period[2] = row.end
  OBVIOUS
<1>4. /\ new.tenant = row.tenant /\ new.plan = row.plan
      /\ new.start = row.start /\ new.end = row.end
  BY <1>3 DEF TypeOK, SubscriptionRow
<1>5. subscriptions' = (subscriptions \ {row}) \cup {new}
  BY <1>2
<1> HIDE DEF new
<1> QED BY <1>4, <1>5

\* A row that keeps tenant, plan and dates keeps its usage and its limit.
LEMMA ChangeQuota ==
    ASSUME TypeOK, NeverOversold, Periods = {},
           NEW s \in Subscriptions, ChangeSubscription(s)
    PROVE  NeverOversold'
<1>1. PICK row, new :
        /\ row \in subscriptions
        /\ subscriptions' = (subscriptions \ {row}) \cup {new}
        /\ new.tenant = row.tenant /\ new.plan = row.plan
        /\ new.start = row.start /\ new.end = row.end
  BY DatesKept
<1>2. UNCHANGED events
  BY DEF ChangeSubscription
<1>3. \A type : PeriodEvents(new, type) = PeriodEvents(row, type)
  BY <1>1 DEF PeriodEvents
<1>4. \A type : Used(new, type) = Used(row, type)
  BY <1>3 DEF Used
<1>5. \A x, type : Used(x, type)' = Used(x, type)
  BY <1>2 DEF Used, PeriodEvents
<1> QED BY <1>1, <1>4, <1>5 DEF NeverOversold

\* A new row is the first of its tenant, who has used nothing yet.
LEMMA FirstRow ==
    ASSUME TypeOK, UsageInv, OneRowPerTenant,
           NEW s \in Subscriptions, AddSubscription(s)
    PROVE  \E new : /\ subscriptions' = subscriptions \cup {new}
                    /\ new.plan \in Plans
                    /\ \A e \in events : e.tenant # new.tenant
<1>1. PICK plan \in Plans, now \in 0 .. clock :
        subscriptions' = subscriptions \cup
          {[ id |-> s, tenant |-> Owner[s], plan |-> plan, status |-> "active",
             start |-> now, end |-> now + PeriodLength ]}
  BY DEF AddSubscription
<1> DEFINE new == [ id |-> s, tenant |-> Owner[s], plan |-> plan,
                    status |-> "active", start |-> now,
                    end |-> now + PeriodLength ]
<1>2. new.tenant = Owner[s] /\ new.plan \in Plans
      /\ subscriptions' = subscriptions \cup {new}
  BY <1>1
<1>3. \A row \in subscriptions : row.tenant # Owner[s]
  BY DEF AddSubscription, TypeOK, SubscriptionRow, OneRowPerTenant
<1> HIDE DEF new
<1>4. \A e \in events : e.tenant # new.tenant
  BY <1>2, <1>3 DEF UsageInv
<1> QED BY <1>2, <1>4

\* Who has no events has used nothing.
LEMMA UnusedRow ==
    ASSUME NEW row, \A e \in events : e.tenant # row.tenant, NEW type
    PROVE  Used(row, type) = 0
<1>1. PeriodEvents(row, type) = {}
  BY DEF PeriodEvents
<1> QED BY <1>1, NoUsage DEF Used

LEMMA AddSubscriptionQuota ==
    ASSUME TypeOK, UsageInv, NeverOversold, OneRowPerTenant,
           NEW s \in Subscriptions, AddSubscription(s)
    PROVE  NeverOversold'
<1>1. PICK new : /\ subscriptions' = subscriptions \cup {new}
                 /\ new.plan \in Plans
                 /\ \A e \in events : e.tenant # new.tenant
  BY FirstRow
<1>2. UNCHANGED events
  BY DEF AddSubscription
<1>3. \A type : Used(new, type) = 0
  BY <1>1, UnusedRow
<1>4. \A type \in EventTypes : Limit[new.plan][type] \in Nat
  BY <1>1, ConstantsAssumption
<1>5. \A x, type : Used(x, type)' = Used(x, type)
  BY <1>2 DEF Used, PeriodEvents
<1> QED BY <1>1, <1>3, <1>4, <1>5 DEF NeverOversold

LEMMA NextQuota ==
    ASSUME OneRowPerTenant, Periods = {}
    PROVE  TypeOK /\ ExactlyOnceInv /\ LockInv /\ AdmissionSound
             /\ UsageInv /\ NeverOversold /\ [Next]_vars
             => NeverOversold'
<1> SUFFICES ASSUME TypeOK, ExactlyOnceInv, LockInv, AdmissionSound, UsageInv,
                    NeverOversold, [Next]_vars
             PROVE  NeverOversold'
  OBVIOUS
<1>1. CASE UNCHANGED <<events, subscriptions>>
  BY <1>1 DEF NeverOversold, Used, PeriodEvents
<1>2. ASSUME NEW r \in Requests, Step(r) \/ Fail(r)
      PROVE  NeverOversold'
  <2>1. CASE Commit(r)
    BY <2>1, CommitQuota
  <2>2. CASE ~Commit(r)
    BY <1>1, <1>2, <2>2, OtherStep
  <2> QED BY <2>1, <2>2
<1>3. CASE Environment
  BY <1>1, <1>3, ChangeQuota, AddSubscriptionQuota DEF Environment, Tick, tables
<1> QED BY <1>1, <1>2, <1>3 DEF Next, Quiescent, vars

LEMMA SpecQuota ==
    ASSUME Backend = "postgresql", OneRowPerTenant, Periods = {}
    PROVE  Spec => []NeverOversold
<1>1. Init => NeverOversold
  <2> SUFFICES ASSUME Init
               PROVE  NeverOversold
    OBVIOUS
  <2>1. \A row, type : Used(row, type) = 0
    BY UnusedRow DEF Init
  <2> QED BY <2>1, ConstantsAssumption DEF Init, NeverOversold, SubscriptionRow
<1> QED
  BY <1>1, NextQuota, SpecLock, SpecExactlyOnce, SpecUsage, AdmissionStaysSound, PTL
     DEF Spec

\* The committed usage of a billing period never exceeds the plan's limit,
\* however many requests race for the last unit.
THEOREM QuotaIsNeverOversold ==
    ASSUME Backend = "postgresql", OneRowPerTenant, Periods = {}
    PROVE  Spec => []NeverOversold
  BY SpecQuota, PTL

-----------------------------------------------------------------------------
(* How often the check and the stamp of a request may fall on two sides of   *)
(* the end of a period.                                                     *)

Late(e, row) == e.tenant = row.tenant /\ e.timestamp >= row.end

\* Stamps are not in the future, and while a request of a tenant in T reserves
\* a row the tenant has no late event yet.
StampIn(T) ==
    /\ \A e \in events : e.timestamp <= clock
    /\ \A r \in Requests : Admitted(r) => \A e \in draft[r] : e.timestamp <= clock
    /\ \A r \in Requests : Reserving(r) /\ call[r].tenant \in T =>
           \A row \in held[r], e \in events : ~Late(e, row)

\* A row never gets a second late event.
LateInv ==
    \A row \in subscriptions, a, b \in events : Late(a, row) /\ Late(b, row) => a = b

LEMMA CommitStamp ==
    ASSUME TypeOK, ExactlyOnceInv, LockInv, NEW T, SerialisedIn(T), StampIn(T),
           NEW r \in Requests, Commit(r)
    PROVE  StampIn(T)'
<1>1. PICK e \in draft[r], mine \in held[r] : /\ events' = events \cup {e}
                                              /\ e.tenant = call[r].tenant
  BY CommitFacts
<1>2. /\ pc[r] = "inserted" /\ Reserving(r) /\ Admitted(r)
      /\ UNCHANGED <<clock, call, held, draft>>
      /\ pc' = [pc EXCEPT ![r] = "reply"]
  BY DEF Commit, Goto, Reserving, Admitted
<1>3. \A f \in events' : f.timestamp <= clock'
  BY <1>1, <1>2 DEF StampIn
<1>4. ASSUME NEW q \in Requests, Reserving(q)', call[q].tenant \in T,
             NEW row \in held'[q], NEW f \in events'
      PROVE  ~Late(f, row)
  <2>1. q # r /\ Reserving(q) /\ row \in held[q]
    BY <1>2, <1>4 DEF Reserving, TypeOK
  <2>2. row.tenant = call[q].tenant /\ call[q].tenant # call[r].tenant
    BY <1>2, <1>4, <2>1 DEF SerialisedIn, LockInv, OwnRowsInv
  <2> QED BY <1>1, <1>4, <2>1, <2>2 DEF StampIn, Late
<1>5. \A q \in Requests : Admitted(q)' => \A f \in draft'[q] : f.timestamp <= clock'
  <2>1. \A q \in Requests : Admitted(q)' => Admitted(q)
    BY <1>2 DEF Admitted, TypeOK
  <2> QED BY <1>2, <2>1 DEF StampIn
<1> QED BY <1>2, <1>3, <1>4, <1>5 DEF StampIn, Late

LEMMA StepStamp ==
    ASSUME TypeOK, ExactlyOnceInv, LockInv, NEW T, SerialisedIn(T), StampIn(T),
           NEW q \in Requests, Step(q) \/ Fail(q)
    PROVE  StampIn(T)'
<1>0. call' = call
  BY DEF Step, Fail, AbortDeadlocked, LoadTenant, ReplayStored, CheckTenant,
         SelectSubscription, LockSubscription, LockRow, SkipSubscription,
         PassOver, NoSubscription,
         SumUsage, InsertEvent, Commit, ReplyCreated, ReadWinner, Refuse, Respond
<1>1. CASE Commit(q)
  BY <1>1, CommitStamp
<1>2. CASE ~Commit(q)
  <2>1. UNCHANGED <<clock, subscriptions, events>>
    BY <1>2, OtherStep
  <2>2. ASSUME NEW r \in Requests, Reserving(r)', call[r].tenant \in T,
               NEW row \in held'[r], NEW e \in events
        PROVE  ~Late(e, row)
    <3>1. \/ Reserving(r) /\ row \in held[r]
          \/ row \in subscriptions /\ clock < row.end
      BY <1>2, <2>2, OtherStep
    <3>2. e.timestamp <= clock /\ e.timestamp \in Nat /\ clock \in Nat
      BY DEF StampIn, TypeOK, UsageEvent
    <3>3. row \in subscriptions => row.end \in Nat
      BY DEF TypeOK, SubscriptionRow
    <3> QED BY <2>2, <3>1, <3>2, <3>3 DEF StampIn, Late
  <2>3. ASSUME NEW r \in Requests, Admitted(r)', NEW e \in draft'[r]
        PROVE  e.timestamp <= clock
    <3>1. \/ Admitted(r) /\ e \in draft[r]
          \/ e.timestamp = clock
      BY <1>2, <2>3, OtherDraft
    <3> QED BY <3>1 DEF StampIn, TypeOK
  <2> QED BY <1>0, <2>1, <2>2, <2>3 DEF StampIn, Late
<1> QED BY <1>1, <1>2

\* Nobody else adds events or touches what a request has drafted.
LEMMA EnvironmentStamp ==
    ASSUME TypeOK, NEW T, StampIn(T), Environment
    PROVE  StampIn(T)'
<1>1. CASE Tick
  <2>1. \A n : n \in Nat /\ n <= clock => n <= clock + 1
    BY DEF TypeOK
  <2>2. UNCHANGED <<tables, pc, call, session>> /\ clock' = clock + 1
    BY <1>1 DEF Tick
  <2>3. \A e \in events : e.timestamp \in Nat
    BY DEF TypeOK, UsageEvent
  <2>4. \A r \in Requests : \A e \in draft[r] : e.timestamp \in Nat
    BY DEF TypeOK, UsageEvent
  <2> QED BY <2>1, <2>2, <2>3, <2>4
          DEF StampIn, Late, Reserving, Admitted, tables, session
<1>2. CASE UNCHANGED <<clock, events, pc, call, session>>
  BY <1>2 DEF StampIn, Late, Reserving, Admitted, session
<1> QED BY <1>1, <1>2 DEF Environment, AddSubscription, ChangeSubscription

LEMMA NextStamp ==
    ASSUME TypeOK, ExactlyOnceInv, LockInv, NEW T, SerialisedIn(T), StampIn(T),
           [Next]_vars
    PROVE  StampIn(T)'
<1>1. UNCHANGED vars => StampIn(T)'
  BY DEF vars, StampIn, Late, Reserving, Admitted
<1> QED BY <1>1, StepStamp, EnvironmentStamp DEF Next, Quiescent

LEMMA SerialisedStamp ==
    ASSUME Backend = "postgresql"
    PROVE  Spec /\ []TenantSerialised => []StampIn(Tenants)
<1>1. Init => StampIn(Tenants)
  BY DEF Init, StampIn, Reserving, Admitted
<1>2. TypeOK /\ ExactlyOnceInv /\ LockInv /\ TenantSerialised /\ StampIn(Tenants)
        /\ [Next]_vars => StampIn(Tenants)'
  BY SerialisedInTenants, NextStamp
<1> QED BY <1>1, <1>2, SpecLock, SpecExactlyOnce, PTL DEF Spec

LEMMA SoleStamp ==
    ASSUME Backend = "postgresql"
    PROVE  Spec => []StampIn(SoleTenants)
<1>1. Init => StampIn(SoleTenants)
  BY DEF Init, StampIn, Reserving, Admitted
<1>2. TypeOK /\ ExactlyOnceInv /\ LockInv /\ StampIn(SoleTenants) /\ [Next]_vars
        => StampIn(SoleTenants)'
  BY OneReserving, NextStamp
<1> QED BY <1>1, <1>2, SpecLock, SpecExactlyOnce, PTL DEF Spec

LEMMA CommitLate ==
    ASSUME TypeOK, ExactlyOnceInv, LockInv, StampIn(Tenants), LateInv, OneRowPerTenant,
           NEW r \in Requests, Commit(r)
    PROVE  LateInv'
<1>1. PICK e \in draft[r], mine \in held[r] :
        /\ events' = events \cup {e}
        /\ UNCHANGED subscriptions
        /\ mine \in subscriptions
        /\ e.tenant = call[r].tenant /\ mine.tenant = call[r].tenant
  BY CommitFacts
<1> SUFFICES ASSUME NEW row \in subscriptions, NEW a \in events', NEW b \in events',
                    Late(a, row), Late(b, row)
             PROVE  a = b
  BY <1>1 DEF LateInv, Late
<1>2. CASE row.tenant = call[r].tenant
  <2>1. row = mine
    BY <1>1, <1>2 DEF TypeOK, OneRowPerTenant, SubscriptionRow
  <2>2. \A f \in events : ~Late(f, row)
    BY <2>1, CallTenant DEF StampIn, Commit, Reserving
  <2> QED BY <1>1, <2>2
<1>3. CASE row.tenant # call[r].tenant
  <2>1. ~Late(e, row)
    BY <1>1, <1>3 DEF Late
  <2> QED BY <1>1, <2>1 DEF LateInv
<1> QED BY <1>2, <1>3

\* Rows keep their dates and a new one has a new tenant.
LEMMA NextLate ==
    ASSUME OneRowPerTenant, Periods = {}
    PROVE  TypeOK /\ ExactlyOnceInv /\ LockInv /\ StampIn(Tenants) /\ UsageInv /\ LateInv
             /\ [Next]_vars => LateInv'
<1> SUFFICES ASSUME TypeOK, ExactlyOnceInv, LockInv, StampIn(Tenants), UsageInv, LateInv,
                    [Next]_vars
             PROVE  LateInv'
  OBVIOUS
<1>1. CASE UNCHANGED <<events, subscriptions>>
  BY <1>1 DEF LateInv, Late
<1>2. ASSUME NEW s \in Subscriptions, AddSubscription(s)
      PROVE  LateInv'
  <2>1. PICK new : /\ subscriptions' = subscriptions \cup {new}
                   /\ \A e \in events : e.tenant # new.tenant
    BY <1>2, FirstRow
  <2> QED BY <1>2, <2>1 DEF LateInv, Late, AddSubscription
<1>3. ASSUME NEW s \in Subscriptions, ChangeSubscription(s)
      PROVE  LateInv'
  <2>1. PICK row, new :
          /\ row \in subscriptions
          /\ subscriptions' = (subscriptions \ {row}) \cup {new}
          /\ new.tenant = row.tenant /\ new.end = row.end
    BY <1>3, DatesKept
  <2> QED BY <1>3, <2>1 DEF LateInv, Late, ChangeSubscription
<1>4. ASSUME NEW r \in Requests, Step(r) \/ Fail(r)
      PROVE  LateInv'
  BY <1>1, <1>4, CommitLate, OtherStep
<1> QED BY <1>1, <1>2, <1>3, <1>4
        DEF Next, Environment, Tick, tables, Quiescent, vars

LEMMA SpecLate ==
    ASSUME Backend = "postgresql", OneRowPerTenant, Periods = {}
    PROVE  Spec => []LateInv
<1>1. Init => LateInv
  BY DEF Init, LateInv
<1> QED
  BY <1>1, NextLate, SpecLock, SpecExactlyOnce, SpecUsage, TenantsAreSerialised,
     SerialisedStamp, PTL DEF Spec

\* The check of the period and the stamp of the event are not one step, but a
\* row that keeps its dates gets at most one event after its end.
THEOREM PeriodOverrunOnce ==
    ASSUME Backend = "postgresql", OneRowPerTenant, Periods = {}
    PROVE  Spec => []AtMostOneLateEvent
<1>1. LateInv => AtMostOneLateEvent
  <2> SUFFICES ASSUME LateInv, NEW row \in subscriptions
               PROVE  Cardinality({e \in events : /\ e.tenant = row.tenant
                                                  /\ e.timestamp >= row.end}) <= 1
    BY DEF AtMostOneLateEvent
  <2> DEFINE late == {e \in events : e.tenant = row.tenant /\ e.timestamp >= row.end}
  <2>1. \A a, b \in late : a = b
    BY DEF LateInv, Late
  <2>2. late = {} \/ \E a : late = {a}
    BY <2>1
  <2> HIDE DEF late
  <2>3. Cardinality(late) \in {0, 1}
    BY <2>2, FS_EmptySet, FS_Singleton
  <2> QED BY <2>3 DEF late
<1> QED BY <1>1, SpecLate, PTL

===============================================================================
