--------------------------- MODULE MCStripeWebhooks ---------------------------
(***************************************************************************)
(* Small instances of StripeWebhooks for TLC: one subscription that exists, *)
(* one that is bought, two tenants.                                        *)
(***************************************************************************)
EXTENDS StripeWebhooks, TLC

CONSTANTS d1, d2, d3, t1, t2, s1, s2,
          buy, rebuy, late, renew, resume, delete, delete2,
          extend, invoice

Payload(id, type, customer, s, status, start, end) ==
    [ id |-> id, type |-> type, customer |-> customer, subscription |-> s,
      status |-> status, start |-> start, end |-> end ]

Sale(id, t, s) == Payload(id, Checkout, t, s, "", Absent, Absent)
Update(id, s, status, start, end) ==
    Payload(id, Updated, Stranger, s, status, start, end)
Deletion(id, s) == Payload(id, Deleted, Stranger, s, "canceled", Absent, Absent)

Row(s, t, status) ==
    [ id |-> s, tenant |-> t, plan |-> "pro", status |-> status,
      start |-> 0, end |-> 2 ]

ProRow == {Row(s1, t1, "active")}
UnpaidRow == {Row(s1, t1, "canceled")}
OnePro == (t1 :> "pro") @@ (t2 :> "free")

\* Two tenants that buy, one of them the same subscription twice, and cancel.
SalesEvents ==
    { Sale(buy, t2, s2), Sale(rebuy, t1, s2), Sale(late, Stranger, s2),
      Update(renew, s2, "past_due", 1, Absent), Deletion(delete, s1),
      Deletion(delete2, s2), Update(extend, s1, "paused", Absent, 3),
      Payload(invoice, "invoice.paid", t1, s1, "", Absent, Absent) }
\* An unpaid subscription is paid after all, and deleted.
ResumeEvents == { Update(resume, s1, "active", 0, 2), Deletion(delete, s1) }

AnyDelivery == Permutations(Deliveries)
===============================================================================
