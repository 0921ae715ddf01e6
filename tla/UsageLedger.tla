----------------------------- MODULE UsageLedger -----------------------------
(***************************************************************************)
(* What POST /v1/usage promises its clients, with no database in sight:    *)
(* every Idempotency-Key buys at most one usage event, the event never     *)
(* changes once it is billed, the caller that created it is told 201 and   *)
(* every other caller that succeeds with that key is told 200 and shown    *)
(* the same event.  Any call may instead be refused (402, 404, 429).  The  *)
(* 409 answer app/services/metering.py keeps in reserve is not promised.   *)
(***************************************************************************)
EXTENDS Integers

CONSTANTS
    Requests,   \* one identity per HTTP call
    Calls       \* the calls clients may make (see MeteringEngine)

VARIABLES
    call,       \* what each request asks for
    billed,     \* the usage events the tenants pay for
    told        \* what each request was answered

vars == <<call, billed, told>>

Refusals == {402, 404, 429}

Silence == [code |-> 0, event |-> {}]

\* The usage event request r may create: one API call, or its tokens.
EventOf(r) ==
    LET c == call[r]
    IN  [ id |-> r, key |-> c.key, tenant |-> c.tenant,
          event_type |-> c.event_type,
          quantity |-> IF c.event_type = "api_call" THEN 1 ELSE c.tokens ]

Tell(r, code, event) ==
    /\ told[r] = Silence
    /\ told' = [told EXCEPT ![r] = [code |-> code, event |-> event]]
    /\ UNCHANGED <<call, billed>>

Init ==
    /\ call \in [Requests -> Calls]
    /\ billed = {}
    /\ told = [r \in Requests |-> Silence]

\* The one moment at which a key is spent.
Bill(r) ==
    /\ told[r] = Silence
    /\ \A e \in billed : e.key # call[r].key
    /\ billed' = billed \cup {EventOf(r)}
    /\ UNCHANGED <<call, told>>

Confirm(r) ==
    \E e \in billed : e.id = r /\ Tell(r, 201, {e})

Replay(r) ==
    \E e \in billed : e.id # r /\ e.key = call[r].key /\ Tell(r, 200, {e})

Refuse(r) ==
    /\ \A e \in billed : e.id # r
    /\ \E code \in Refusals : Tell(r, code, {})

Next ==
    \E r \in Requests : Bill(r) \/ Confirm(r) \/ Replay(r) \/ Refuse(r)

Spec == Init /\ [][Next]_vars
===============================================================================
