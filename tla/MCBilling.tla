------------------------------- MODULE MCBilling -------------------------------
(***************************************************************************)
(* Small instances of Billing for TLC.  Quantities are scaled as in        *)
(* MCMeteringEngine; a period lasts two ticks of the clock.                *)
(***************************************************************************)
EXTENDS Billing, TLC

CONSTANTS r1, r2, t1, t2, k1, k2, d1, d2, s1, s2,
          buy, renew, again, invoice, delete, delete2

AiTokens(t, k, n) == [tenant |-> t, key |-> k, event_type |-> "ai_token", tokens |-> n]

Row(s, t, start, end) ==
    [ id |-> s, tenant |-> t, plan |-> "pro", status |-> "active",
      start |-> start, end |-> end ]

Payload(id, type, customer, s, status, start, end) ==
    [ id |-> id, type |-> type, customer |-> customer, subscription |-> s,
      status |-> status, start |-> start, end |-> end ]
Sale(id, t, s) == Payload(id, Checkout, t, s, "", Absent, Absent)
Update(id, s, status, start, end) ==
    Payload(id, Updated, Stranger, s, status, start, end)
Deletion(id, s) == Payload(id, Deleted, Stranger, s, "canceled", Absent, Absent)

LimitTwo == [p \in Plans |-> [type \in {"api_call", "ai_token"} |-> 2]]
ActiveTenants == [t \in Tenants |-> "active"]
ProTenants == [t \in Tenants |-> "pro"]
OnePro == (t1 :> "pro") @@ (t2 :> "free")
OwnerT1 == [s \in Subscriptions |-> t1]
OwnerEach == (s1 :> t1) @@ (s2 :> t2)

OneRow == {Row(s1, t1, 0, 2)}
TwoRows == {Row(s1, t1, 0, 2), Row(s2, t1, 0, 2)}

\* One or two of the two tokens of a period.
TokenCalls == {AiTokens(t1, k1, 1), AiTokens(t1, k2, 2)}
\* Duplicates, which can wait for each other's row locks and for the key.
SameKeyCalls == {AiTokens(t1, k1, 1)}

\* A renewal, the update of the period before it, and a cancellation.
RenewalEvents ==
    { Update(renew, s1, "active", 2, 4), Update(again, s1, "past_due", 0, 2),
      Deletion(delete, s1) }
ServiceEvents ==
    RenewalEvents \cup { Sale(buy, t2, s2),
                         Payload(invoice, "invoice.paid", t1, s1, "", Absent, Absent) }
\* The period begins a tick after Stripe says so.
RenewalOnly == { Update(renew, s1, "active", 2, 4) }
CancelEvents == { Deletion(delete, s1), Deletion(delete2, s2) }

AnyActor == Permutations(Requests) \cup Permutations(Deliveries)
===============================================================================
