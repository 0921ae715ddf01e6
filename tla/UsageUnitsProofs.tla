--------------------------- MODULE UsageUnitsProofs ---------------------------
(***************************************************************************)
(* What the quota theorems need to know of sums of quantities.             *)
(***************************************************************************)
EXTENDS UsageUnits, FiniteSetTheorems, TLAPS

\* No events, no usage.
LEMMA NoUsage ==
    /\ IsFiniteSet(Units({}))
    /\ TotalQuantity({}) = 0
<1>1. Units({}) = {}
  BY DEF Units
<1> QED BY <1>1, FS_EmptySet DEF TotalQuantity

\* Recording one more event consumes that event's quantity, at most.
LEMMA AddUsage ==
    ASSUME NEW S, IsFiniteSet(Units(S)), NEW e, e.quantity \in Nat
    PROVE  /\ IsFiniteSet(Units(S \cup {e}))
           /\ TotalQuantity(S \cup {e}) <= TotalQuantity(S) + e.quantity
<1> DEFINE new == {e} \X (1 .. e.quantity)
<1>1. e.quantity \in Nat
  OBVIOUS
<1>2. IsFiniteSet(1 .. e.quantity) /\ Cardinality(1 .. e.quantity) = e.quantity
  BY <1>1, FS_Interval
<1>3. IsFiniteSet({e}) /\ Cardinality({e}) = 1
  BY FS_Singleton
<1>4. IsFiniteSet(new) /\ Cardinality(new) = e.quantity
  <2> DEFINE one == {e}
             all == 1 .. e.quantity
  <2>1. IsFiniteSet(one) /\ IsFiniteSet(all)
    BY <1>2, <1>3
  <2> HIDE DEF one, all
  <2>2. IsFiniteSet(one \X all)
        /\ Cardinality(one \X all) = Cardinality(one) * Cardinality(all)
    BY <2>1, FS_Product
  <2>3. new = one \X all /\ Cardinality(one) = 1 /\ Cardinality(all) = e.quantity
    BY <1>2, <1>3 DEF one, all
  <2> HIDE DEF new
  <2> QED BY <1>1, <2>2, <2>3
<1> DEFINE old == Units(S)
           both == old \cup new
           common == old \cap new
<1>5. Units(S \cup {e}) = both
  BY DEF Units
<1> HIDE DEF new
<1>6. IsFiniteSet(both) /\ Cardinality(both)
          = Cardinality(old) + Cardinality(new) - Cardinality(common)
  BY <1>4, FS_Union
<1>7. Cardinality(old) \in Nat /\ Cardinality(common) \in Nat
  BY <1>4, FS_CardinalityType, FS_Subset
<1>8. TotalQuantity(S) = Cardinality(old) /\ TotalQuantity(S \cup {e}) = Cardinality(both)
  BY <1>5 DEF TotalQuantity
<1> HIDE DEF old, both, common
<1> QED BY <1>1, <1>4, <1>5, <1>6, <1>7, <1>8

\* Fewer events consume no more.
LEMMA LessUsage ==
    ASSUME NEW S, IsFiniteSet(Units(S)), NEW T \in SUBSET S
    PROVE  /\ IsFiniteSet(Units(T))
           /\ TotalQuantity(T) \in Nat
           /\ TotalQuantity(T) <= TotalQuantity(S)
<1>1. Units(T) \in SUBSET Units(S)
  BY DEF Units
<1>2. IsFiniteSet(Units(T)) /\ Cardinality(Units(T)) <= Cardinality(Units(S))
  BY <1>1, FS_Subset
<1> QED BY <1>2, FS_CardinalityType DEF TotalQuantity
===============================================================================
