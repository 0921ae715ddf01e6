------------------------------ MODULE UsageUnits ------------------------------
(***************************************************************************)
(* How much usage a set of usage_events rows amounts to.  SUM over          *)
(* total_quantity is the number of units the events consumed; counted one   *)
(* by one, sums can be reasoned about as cardinalities.                    *)
(***************************************************************************)
EXTENDS Integers, FiniteSets

EventTypes == {"api_call", "ai_token"}

Units(S) == UNION {{e} \X (1 .. e.quantity) : e \in S}

TotalQuantity(S) == Cardinality(Units(S))
===============================================================================
