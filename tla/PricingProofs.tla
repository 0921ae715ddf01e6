----------------------------- MODULE PricingProofs -----------------------------
(***************************************************************************)
(* The money invariants of PricingCalculator for all rates, limits and     *)
(* token counts, checked by TLAPS.                                         *)
(***************************************************************************)
EXTENDS PricingCalculator, TLAPS

-----------------------------------------------------------------------------
(* Arithmetic.                                                             *)

\* Flooring is superadditive and loses less than a cent each time.
LEMMA FloorOfSum ==
    ASSUME NEW a \in Nat, NEW b \in Nat
    PROVE  /\ a \div MICRO_CENTS_PER_CENT \in Nat
           /\ (a \div MICRO_CENTS_PER_CENT) + (b \div MICRO_CENTS_PER_CENT)
                  <= (a + b) \div MICRO_CENTS_PER_CENT
           /\ a <= (a \div MICRO_CENTS_PER_CENT) * MICRO_CENTS_PER_CENT
                     + (MICRO_CENTS_PER_CENT - 1)
  BY SMT DEF MICRO_CENTS_PER_CENT

LEMMA Distribute ==
    ASSUME NEW a \in Nat, NEW b \in Nat, NEW rate \in Nat
    PROVE  /\ a * rate \in Nat
           /\ (a + b) * rate = a * rate + b * rate
  OBVIOUS

LEMMA ScaleBound ==
    ASSUME NEW a \in Nat, NEW rate \in Nat, rate <= MICRO_CENTS_PER_CENT
    PROVE  a * rate <= a * MICRO_CENTS_PER_CENT
  BY SMT DEF MICRO_CENTS_PER_CENT

\* The cost in micro-cents is exact: it adds up without loss.
LEMMA MicroCentsAdd ==
    ASSUME NEW u \in TokenUsage, NEW v \in TokenUsage
    PROVE  /\ calculate_cost_micro_cents(u) \in Nat
           /\ calculate_cost_micro_cents(Add(u, v)) =
                  calculate_cost_micro_cents(u) + calculate_cost_micro_cents(v)
<1>1. /\ u.input_tokens \in Nat /\ u.cached_input_tokens \in Nat
      /\ u.output_tokens \in Nat /\ u.reasoning_tokens \in Nat
      /\ v.input_tokens \in Nat /\ v.cached_input_tokens \in Nat
      /\ v.output_tokens \in Nat /\ v.reasoning_tokens \in Nat
  BY DEF TokenUsage
<1>2. calculate_cost_micro_cents(u) \in Nat
  BY <1>1, Distribute, PricingAssumption DEF calculate_cost_micro_cents
<1>3. /\ Add(u, v).input_tokens = u.input_tokens + v.input_tokens
      /\ Add(u, v).cached_input_tokens =
             u.cached_input_tokens + v.cached_input_tokens
      /\ Add(u, v).output_tokens = u.output_tokens + v.output_tokens
      /\ Add(u, v).reasoning_tokens = u.reasoning_tokens + v.reasoning_tokens
  BY DEF Add
<1>4. calculate_cost_micro_cents(Add(u, v)) =
          calculate_cost_micro_cents(u) + calculate_cost_micro_cents(v)
  BY <1>1, <1>3, Distribute, PricingAssumption DEF calculate_cost_micro_cents
<1> QED BY <1>2, <1>4

LEMMA AddType ==
    ASSUME NEW u \in TokenUsage, NEW v \in TokenUsage
    PROVE  /\ Add(u, v) \in TokenUsage
           /\ total_tokens(u) \in Nat
           /\ total_tokens(Add(u, v)) = total_tokens(u) + total_tokens(v)
  BY DEF Add, TokenUsage, total_tokens

\* At a cent per token or less, a usage costs at most its tokens in cents.
LEMMA CostOfTokens ==
    ASSUME NEW u \in TokenUsage, RatesAtMostOneCentPerToken
    PROVE  calculate_cost_micro_cents(u) <= total_tokens(u) * MICRO_CENTS_PER_CENT
<1>1. /\ u.input_tokens \in Nat /\ u.cached_input_tokens \in Nat
      /\ u.output_tokens \in Nat /\ u.reasoning_tokens \in Nat
  BY DEF TokenUsage
<1>2. /\ u.input_tokens * RATE_INPUT_MICRO_CENTS_PER_TOKEN
             <= u.input_tokens * MICRO_CENTS_PER_CENT
      /\ u.cached_input_tokens * RATE_CACHED_INPUT_MICRO_CENTS_PER_TOKEN
             <= u.cached_input_tokens * MICRO_CENTS_PER_CENT
      /\ u.output_tokens * RATE_OUTPUT_MICRO_CENTS_PER_TOKEN
             <= u.output_tokens * MICRO_CENTS_PER_CENT
      /\ u.reasoning_tokens * RATE_REASONING_MICRO_CENTS_PER_TOKEN
             <= u.reasoning_tokens * MICRO_CENTS_PER_CENT
  BY <1>1, ScaleBound, PricingAssumption DEF RatesAtMostOneCentPerToken
<1>3. /\ u.input_tokens * RATE_INPUT_MICRO_CENTS_PER_TOKEN \in Nat
      /\ u.cached_input_tokens * RATE_CACHED_INPUT_MICRO_CENTS_PER_TOKEN \in Nat
      /\ u.output_tokens * RATE_OUTPUT_MICRO_CENTS_PER_TOKEN \in Nat
      /\ u.reasoning_tokens * RATE_REASONING_MICRO_CENTS_PER_TOKEN \in Nat
  BY SMT, <1>1, Distribute, PricingAssumption
<1> QED
  BY <1>1, <1>2, <1>3
     DEF calculate_cost_micro_cents, total_tokens, MICRO_CENTS_PER_CENT

-----------------------------------------------------------------------------
(* The invariants.                                                         *)

MoneyInv ==
    /\ TypeOK
    /\ cost_cents * MICRO_CENTS_PER_CENT <= calculate_cost_micro_cents(usage)
    /\ AbsorbsLessThanACentPerEvent
    /\ total_tokens(usage) <= TokenLimit

LEMMA InitMoney == Init => MoneyInv
<1> SUFFICES ASSUME Init
             PROVE  MoneyInv
  OBVIOUS
<1>1. usage \in TokenUsage /\ cost_cents = 0 /\ recorded = 0
  BY DEF Init, NoUsage, TokenUsage
<1>2. total_tokens(usage) = 0
  BY DEF Init, NoUsage, total_tokens
<1>3. calculate_cost_micro_cents(usage) = 0
  BY PricingAssumption DEF Init, NoUsage, calculate_cost_micro_cents
<1> QED
  BY SMT, <1>1, <1>2, <1>3, PricingAssumption
     DEF MoneyInv, TypeOK, AbsorbsLessThanACentPerEvent, MICRO_CENTS_PER_CENT

LEMMA RecordTokensMoney ==
    ASSUME MoneyInv, NEW u \in Usages, RecordTokens(u)
    PROVE  MoneyInv'
<1>1. u \in TokenUsage /\ usage \in TokenUsage
  BY PricingAssumption DEF MoneyInv, TypeOK
<1> DEFINE old == calculate_cost_micro_cents(usage)
           new == calculate_cost_micro_cents(u)
           cents == calculate_cost_cents(u)
<1>2. old \in Nat /\ new \in Nat /\ calculate_cost_micro_cents(usage') = old + new
  BY <1>1, MicroCentsAdd DEF RecordTokens
<1>3. /\ cents \in Nat
      /\ cents * MICRO_CENTS_PER_CENT <= new
      /\ new <= cents * MICRO_CENTS_PER_CENT + (MICRO_CENTS_PER_CENT - 1)
  BY SMT, <1>2 DEF calculate_cost_cents, MICRO_CENTS_PER_CENT
<1>4. /\ usage' \in TokenUsage
      /\ total_tokens(usage') = total_tokens(usage) + total_tokens(u)
      /\ total_tokens(usage) + total_tokens(u) <= TokenLimit
  BY <1>1, AddType DEF RecordTokens, Fits
<1>5. cost_cents' = cost_cents + cents /\ recorded' = recorded + 1
  BY DEF RecordTokens
<1>6. /\ cost_cents \in Nat /\ recorded \in Nat
      /\ cost_cents * MICRO_CENTS_PER_CENT <= old
      /\ old <= cost_cents * MICRO_CENTS_PER_CENT
                  + recorded * (MICRO_CENTS_PER_CENT - 1)
  BY DEF MoneyInv, TypeOK, AbsorbsLessThanACentPerEvent
<1> HIDE DEF old, new, cents
<1>7. TypeOK'
  BY <1>3, <1>4, <1>5, <1>6 DEF TypeOK
<1>8. cost_cents' * MICRO_CENTS_PER_CENT <= old + new
  BY SMT, <1>2, <1>3, <1>5, <1>6 DEF MICRO_CENTS_PER_CENT
<1>9. old + new <= cost_cents' * MICRO_CENTS_PER_CENT
                     + recorded' * (MICRO_CENTS_PER_CENT - 1)
  BY SMT, <1>2, <1>3, <1>5, <1>6 DEF MICRO_CENTS_PER_CENT
<1> QED
  BY <1>2, <1>4, <1>7, <1>8, <1>9 DEF MoneyInv, AbsorbsLessThanACentPerEvent

LEMMA RecordApiCallMoney ==
    ASSUME MoneyInv, RecordApiCall
    PROVE  MoneyInv'
<1>1. UNCHANGED vars
  BY DEF MoneyInv, TypeOK, RecordApiCall, calculate_api_call_cost_cents, vars
<1> QED
  BY <1>1 DEF vars, MoneyInv, TypeOK, AbsorbsLessThanACentPerEvent

LEMMA SpecMoney == Spec => []MoneyInv
<1>1. MoneyInv /\ [Next]_vars => MoneyInv'
  <2> SUFFICES ASSUME MoneyInv, [Next]_vars
               PROVE  MoneyInv'
    OBVIOUS
  <2>1. CASE UNCHANGED vars
    BY <2>1 DEF vars, MoneyInv, TypeOK, AbsorbsLessThanACentPerEvent
  <2> QED BY <2>1, RecordTokensMoney, RecordApiCallMoney DEF Next
<1> QED BY <1>1, InitMoney, PTL DEF Spec

\* Token counts and costs stay natural numbers, so no division in between sees
\* a negative one.
THEOREM TypeCorrect == Spec => []TypeOK
<1>1. MoneyInv => TypeOK
  BY DEF MoneyInv
<1> QED BY <1>1, SpecMoney, PTL

\* The sum of the costs written on the events never exceeds the cost of the
\* aggregate tokens, for any rates.
THEOREM CustomerNeverOvercharged == Spec => []NeverOvercharged
<1>1. MoneyInv => NeverOvercharged
  <2> SUFFICES ASSUME MoneyInv
               PROVE  NeverOvercharged
    OBVIOUS
  <2>1. calculate_cost_micro_cents(usage) \in Nat
    BY MicroCentsAdd DEF MoneyInv, TypeOK
  <2>2. cost_cents \in Nat
        /\ cost_cents * MICRO_CENTS_PER_CENT <= calculate_cost_micro_cents(usage)
    BY DEF MoneyInv, TypeOK
  <2> QED
    BY SMT, <2>1, <2>2 DEF NeverOvercharged, calculate_cost_cents, MICRO_CENTS_PER_CENT
<1> QED BY <1>1, SpecMoney, PTL

\* The remainders the platform absorbs stay below a cent per event.
THEOREM AbsorptionIsBounded == Spec => []AbsorbsLessThanACentPerEvent
<1>1. MoneyInv => AbsorbsLessThanACentPerEvent
  BY DEF MoneyInv
<1> QED BY <1>1, SpecMoney, PTL

\* What the quota admits never overflows the 32-bit cost column, provided no
\* token costs more than a cent.
THEOREM CostFitsColumn ==
    Spec => [](CostWithinTokenLimit /\ (RatesAtMostOneCentPerToken => cost_cents <= MaxInt32))
<1>1. MoneyInv => CostWithinTokenLimit
                  /\ (RatesAtMostOneCentPerToken => cost_cents <= MaxInt32)
  <2> SUFFICES ASSUME MoneyInv, RatesAtMostOneCentPerToken
               PROVE  cost_cents <= TokenLimit /\ cost_cents <= MaxInt32
    BY DEF CostWithinTokenLimit
  <2>1. calculate_cost_micro_cents(usage)
            <= total_tokens(usage) * MICRO_CENTS_PER_CENT
    BY CostOfTokens DEF MoneyInv, TypeOK
  <2>2. /\ calculate_cost_micro_cents(usage) \in Nat
        /\ total_tokens(usage) \in Nat
    BY MicroCentsAdd, AddType DEF MoneyInv, TypeOK
  <2>3. /\ cost_cents \in Nat
        /\ cost_cents * MICRO_CENTS_PER_CENT <= calculate_cost_micro_cents(usage)
        /\ total_tokens(usage) <= TokenLimit
    BY DEF MoneyInv, TypeOK
  <2>4. cost_cents <= total_tokens(usage)
    BY SMT, <2>1, <2>2, <2>3 DEF MICRO_CENTS_PER_CENT
  <2>5. MaxInt32 \in Nat
    BY SMT DEF MaxInt32
  <2>6. TokenLimit \in Nat /\ TokenLimit <= MaxInt32
    BY <2>5, PricingAssumption
  <2> QED BY <2>2, <2>3, <2>4, <2>5, <2>6
<1> QED BY <1>1, SpecMoney, PTL

===============================================================================
