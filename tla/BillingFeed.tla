------------------------------ MODULE BillingFeed ------------------------------
(***************************************************************************)
(* What the Stripe webhook handler promises the rest of the service, with   *)
(* no deliveries, crashes or transactions in sight: billing state changes   *)
(* only in the step that spends an event's id, each id is spent once, and   *)
(* that step changes only the row the event names, only columns the event   *)
(* announces, and only to the announced values.                             *)
(*                                                                         *)
(* It is not promised that every announced column is written: a handler     *)
(* that loaded its row before another one committed skips the columns that  *)
(* looked right when it loaded them.                                        *)
(***************************************************************************)
EXTENDS StripeEvents

CONSTANTS
    InitialRows, InitialPlanType,  \* as in StripeWebhooks
    MaxClock                      \* bound on the clock

VARIABLES
    processed,      \* ids of the events that were handled
    subscriptions,
    plan_type       \* tenants.plan_type

vars == <<processed, subscriptions, plan_type>>

Init ==
    /\ processed = {}
    /\ subscriptions = InitialRows
    /\ plan_type = InitialPlanType

\* Tenant t gets the plan type event e brings, or keeps its own.
MaySetPlanType(t, e) ==
    \/ plan_type' = [plan_type EXCEPT ![t] = PlanTypeAfter(e)]
    \/ UNCHANGED plan_type

\* The event needs no change, or names a customer or subscription nobody has.
Acknowledge(e) == UNCHANGED <<subscriptions, plan_type>>

Open(e) ==
    /\ e.type = Checkout
    /\ e.customer \in Tenants
    /\ \A row \in subscriptions : row.id # e.subscription
    /\ \E now \in 0 .. MaxClock : subscriptions' = subscriptions \cup {Bought(e, now)}
    /\ MaySetPlanType(e.customer, e)

\* Any of the announced columns is written.
Change(e) ==
    /\ e.type \in {Updated, Deleted}
    /\ \E row \in subscriptions :
         LET new == Announced(e, row)
         IN  /\ row.id = e.subscription
             /\ \E status \in {row.status, new.status},
                   start \in {row.start, new.start},
                   end \in {row.end, new.end} :
                  subscriptions' = (subscriptions \ {row}) \cup
                    {[row EXCEPT !.status = status, !.start = start, !.end = end]}
             /\ IF e.type = Deleted
                  THEN MaySetPlanType(row.tenant, e)
                  ELSE UNCHANGED plan_type

Process(e) ==
    /\ e.id \notin processed
    /\ processed' = processed \cup {e.id}
    /\ Acknowledge(e) \/ Open(e) \/ Change(e)

Next == \E e \in Events : Process(e)

Spec == Init /\ [][Next]_vars
===============================================================================
