----------------------------- MODULE StripeEvents -----------------------------
(***************************************************************************)
(* The Stripe events POST /v1/webhooks/stripe handles, and what each one   *)
(* says about a subscription.  An event is its verified payload; deliveries *)
(* of it are in StripeWebhooks.                                            *)
(***************************************************************************)
EXTENDS Integers

CONSTANTS
    Tenants,
    Stranger,       \* a stripe_customer_id that no tenant has
    Subscriptions,  \* values of stripe_subscription_id
    EventIds,       \* Stripe's evt_... ids
    Events,         \* the events Stripe may deliver
    PeriodLength    \* timedelta(days=30)

Checkout == "checkout.session.completed"
Updated == "customer.subscription.updated"
Deleted == "customer.subscription.deleted"

PlanTypes == {"free", "pro"}
SubscriptionStatus == {"active", "past_due", "canceled", "incomplete"}

\* Stripe's words for a subscription's state; "" if the payload has none.
ACTIVE_STRIPE_STATUSES == {"active", "trialing"}
TERMINAL_STRIPE_STATUSES == {"canceled", "unpaid", "incomplete_expired"}
StripeStatus ==
    ACTIVE_STRIPE_STATUSES \cup TERMINAL_STRIPE_STATUSES
        \cup {"past_due", "incomplete", "paused", ""}

\* What .get() returns for a period date the payload does not have.
Absent == -1

Event ==
    [ id : EventIds, type : {Checkout, Updated, Deleted, "invoice.paid"},
      customer : Tenants \cup {Stranger}, subscription : Subscriptions,
      status : StripeStatus, start : Nat \cup {Absent}, end : Nat \cup {Absent} ]

SubscriptionRow ==
    [ id : Subscriptions, tenant : Tenants, plan : PlanTypes,
      status : SubscriptionStatus, start : Nat, end : Nat ]

ASSUME EventsAssumption ==
    /\ Stranger \notin Tenants
    /\ Events \subseteq Event
    /\ \A e, f \in Events : e.id = f.id => e = f
    /\ PeriodLength \in Nat

\* The status column for a Stripe status; one the code does not know keeps it.
StatusFor(stripe_status, current) ==
    CASE stripe_status \in ACTIVE_STRIPE_STATUSES -> "active"
      [] stripe_status = "past_due" -> "past_due"
      [] stripe_status \in TERMINAL_STRIPE_STATUSES -> "canceled"
      [] OTHER -> current

DateFor(date, current) == IF date = Absent THEN current ELSE date

\* The row as event e, an update or a deletion, wants it.
Announced(e, row) ==
    IF e.type = Deleted
      THEN [row EXCEPT !.status = "canceled"]
      ELSE [row EXCEPT !.status = StatusFor(e.status, @),
                       !.start = DateFor(e.start, @),
                       !.end = DateFor(e.end, @)]

\* The row a checkout at time now creates.
Bought(e, now) ==
    [ id |-> e.subscription, tenant |-> e.customer, plan |-> "pro",
      status |-> "active", start |-> now, end |-> now + PeriodLength ]

\* Tenant.plan_type after a checkout or a deletion.
PlanTypeAfter(e) == IF e.type = Checkout THEN "pro" ELSE "free"
===============================================================================
