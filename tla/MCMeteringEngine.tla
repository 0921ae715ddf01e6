--------------------------- MODULE MCMeteringEngine ---------------------------
(***************************************************************************)
(* Small instances of MeteringEngine for TLC.  Quantities are scaled down: *)
(* what matters is whether one more request fits, and whether two do.      *)
(***************************************************************************)
EXTENDS MeteringEngine, TLC

CONSTANTS r1, r2, r3, t1, t2, t3, t4, k1, k2, s1, s2, s3

ApiCall(t, k) == [tenant |-> t, key |-> k, event_type |-> "api_call", tokens |-> 0]
AiTokens(t, k, n) == [tenant |-> t, key |-> k, event_type |-> "ai_token", tokens |-> n]

Row(s, t, plan, start, end) ==
    [ id |-> s, tenant |-> t, plan |-> plan, status |-> "active",
      start |-> start, end |-> end ]

MCLimit(free, pro) ==
    [p \in Plans |->
        [type \in EventTypes |-> IF p = "free" THEN free ELSE pro]]
LimitOne == MCLimit(1, 2)
LimitTwo == MCLimit(2, 2)

ActiveTenants == [t \in Tenants |-> "active"]
MixedTenants ==
    (t1 :> "active") @@ (t2 :> "active") @@ (t3 :> "suspended") @@ (t4 :> "absent")
OwnerT1 == [s \in Subscriptions |-> t1]
\* The second tenant, who uses one key only, may buy another subscription.
OwnerEach == (s1 :> t1) @@ (s2 :> t2) @@ (s3 :> t2)

OneRow == {Row(s1, t1, "free", 0, 2)}
EachRow == {Row(s1, t1, "free", 0, 1), Row(s2, t2, "free", 0, 1)}

\* Duplicates, rivals of the same tenant for two units, and the key again, for
\* another kind of event, from another tenant, a suspended one and an unknown
\* one.
RetryCalls ==
    {AiTokens(t1, k1, 1), AiTokens(t1, k2, 2), ApiCall(t2, k1),
     ApiCall(t3, k1), ApiCall(t4, k1)}
RivalCalls == {ApiCall(t1, k1), ApiCall(t1, k2)}
SameKeyCalls == {ApiCall(t1, k1)}
PlanChangeCalls == {AiTokens(t1, k1, 1), AiTokens(t1, k2, 2)}

AnyRequest == Permutations(Requests)
===============================================================================
