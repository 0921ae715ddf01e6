--------------------------- MODULE MCTenantEndpoints ---------------------------
(***************************************************************************)
(* A small instance of TenantEndpoints for TLC: a tenant who signs up, one  *)
(* who has a Stripe subscription, and a reader.                            *)
(***************************************************************************)
EXTENDS TenantEndpoints, TLC

CONSTANTS t1, t2, g1, s0, s1, s2, buy, renew, delete

Payload(id, type, customer, s, status, start, end) ==
    [ id |-> id, type |-> type, customer |-> customer, subscription |-> s,
      status |-> status, start |-> start, end |-> end ]

FirstRows == t1 :> s0
LimitTwo == [p \in PlanTypes |-> [type \in {"api_call", "ai_token"} |-> 2]]
ProRow ==
    {[ id |-> s2, tenant |-> t2, plan |-> "pro", status |-> "active",
       start |-> 0, end |-> 1 ]}
PlanOf == (t1 :> "free") @@ (t2 :> "pro")

\* The new tenant buys a subscription, the other one's is renewed before the
\* period ends, and deleted.
StripeFeed ==
    { Payload(buy, Checkout, t1, s1, "", Absent, Absent),
      Payload(renew, Updated, Stranger, s2, "active", Absent, 2),
      Payload(delete, Deleted, Stranger, s2, "canceled", Absent, Absent) }
===============================================================================
