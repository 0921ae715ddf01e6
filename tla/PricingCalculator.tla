--------------------------- MODULE PricingCalculator ---------------------------
(***************************************************************************)
(* app/services/pricing.py: what a usage event costs, and how the costs    *)
(* written on the events of one tenant add up.  Costs are integers in      *)
(* micro-cents until the last step, which floors to whole cents; the       *)
(* result goes to a 32-bit column.                                         *)
(***************************************************************************)
EXTENDS Integers

CONSTANTS
    RATE_INPUT_MICRO_CENTS_PER_TOKEN,
    RATE_CACHED_INPUT_MICRO_CENTS_PER_TOKEN,
    RATE_OUTPUT_MICRO_CENTS_PER_TOKEN,
    RATE_REASONING_MICRO_CENTS_PER_TOKEN,
    Usages,        \* the token usages calls may report
    TokenLimit     \* plans.token_limit, which bounds the tokens of a period

MICRO_CENTS_PER_CENT == 10000

MaxInt32 == 2147483647

\* The four counters pass `Field(ge=0)` and __post_init__.
TokenUsage ==
    [ input_tokens : Nat, cached_input_tokens : Nat,
      output_tokens : Nat, reasoning_tokens : Nat ]

ASSUME PricingAssumption ==
    /\ RATE_INPUT_MICRO_CENTS_PER_TOKEN \in Nat
    /\ RATE_CACHED_INPUT_MICRO_CENTS_PER_TOKEN \in Nat
    /\ RATE_OUTPUT_MICRO_CENTS_PER_TOKEN \in Nat
    /\ RATE_REASONING_MICRO_CENTS_PER_TOKEN \in Nat
    /\ Usages \subseteq TokenUsage
    /\ TokenLimit \in 0 .. MaxInt32

\* Mutant: reasoning tokens are billed but not metered.
total_tokens_unreasoned(u) ==
    u.input_tokens + u.cached_input_tokens + u.output_tokens

total_tokens(u) ==
    u.input_tokens + u.cached_input_tokens + u.output_tokens + u.reasoning_tokens

\* Mutant: cached tokens are taken to be part of the input tokens.
cost_micro_cents_cached_discount(u) ==
      (u.input_tokens - u.cached_input_tokens) * RATE_INPUT_MICRO_CENTS_PER_TOKEN
    + u.cached_input_tokens * RATE_CACHED_INPUT_MICRO_CENTS_PER_TOKEN
    + u.output_tokens * RATE_OUTPUT_MICRO_CENTS_PER_TOKEN
    + u.reasoning_tokens * RATE_REASONING_MICRO_CENTS_PER_TOKEN

calculate_cost_micro_cents(u) ==
      u.input_tokens * RATE_INPUT_MICRO_CENTS_PER_TOKEN
    + u.cached_input_tokens * RATE_CACHED_INPUT_MICRO_CENTS_PER_TOKEN
    + u.output_tokens * RATE_OUTPUT_MICRO_CENTS_PER_TOKEN
    + u.reasoning_tokens * RATE_REASONING_MICRO_CENTS_PER_TOKEN

\* Mutant: the fraction of a cent is charged to the customer.
cost_cents_rounded_up(u) ==
    (calculate_cost_micro_cents(u) + MICRO_CENTS_PER_CENT - 1)
        \div MICRO_CENTS_PER_CENT

\* Mutant: the division by 10_000 is applied to each counter.
cost_cents_per_counter(u) ==
    LET Cents(n, rate) == (n * rate) \div MICRO_CENTS_PER_CENT
    IN    Cents(u.input_tokens, RATE_INPUT_MICRO_CENTS_PER_TOKEN)
        + Cents(u.cached_input_tokens, RATE_CACHED_INPUT_MICRO_CENTS_PER_TOKEN)
        + Cents(u.output_tokens, RATE_OUTPUT_MICRO_CENTS_PER_TOKEN)
        + Cents(u.reasoning_tokens, RATE_REASONING_MICRO_CENTS_PER_TOKEN)

calculate_cost_cents(u) ==
    calculate_cost_micro_cents(u) \div MICRO_CENTS_PER_CENT

calculate_api_call_cost_cents == 0

-----------------------------------------------------------------------------
(* The ai_token events of one tenant and one period, as invoicing sees      *)
(* them: the tokens they report and the cents written on them.              *)

VARIABLES
    usage,       \* the aggregate token counts
    cost_cents,  \* the sum of the cost_cents columns
    recorded     \* how many ai_token events there are

vars == <<usage, cost_cents, recorded>>

NoUsage == [ input_tokens |-> 0, cached_input_tokens |-> 0,
             output_tokens |-> 0, reasoning_tokens |-> 0 ]

Add(u, v) ==
    [ input_tokens        |-> u.input_tokens + v.input_tokens,
      cached_input_tokens |-> u.cached_input_tokens + v.cached_input_tokens,
      output_tokens       |-> u.output_tokens + v.output_tokens,
      reasoning_tokens    |-> u.reasoning_tokens + v.reasoning_tokens ]

\* The quota check, as far as it bounds what is priced.
Fits(u) == total_tokens(usage) + total_tokens(u) <= TokenLimit

Init ==
    /\ usage = NoUsage
    /\ cost_cents = 0
    /\ recorded = 0

\* record_usage for an ai_token event that fits the quota.
RecordTokens(u) ==
    /\ Fits(u)
    /\ usage' = Add(usage, u)
    /\ cost_cents' = cost_cents + calculate_cost_cents(u)
    /\ recorded' = recorded + 1

\* An api_call event carries no tokens and costs nothing by itself.
RecordApiCall ==
    /\ cost_cents' = cost_cents + calculate_api_call_cost_cents
    /\ UNCHANGED <<usage, recorded>>

Next == (\E u \in Usages : RecordTokens(u)) \/ RecordApiCall

Spec == Init /\ [][Next]_vars

-----------------------------------------------------------------------------
(* Properties.                                                             *)

TypeOK ==
    /\ usage \in TokenUsage
    /\ cost_cents \in Nat
    /\ recorded \in Nat

\* pricing.py: flooring "guarantees the sum of per-event costs never exceeds
\* the cost computed from the aggregate token counts", so an invoice drawn from
\* the events never charges more than one drawn from the tokens.
NeverOvercharged == cost_cents <= calculate_cost_cents(usage)

\* The platform absorbs less than one cent for each event, and nothing else.
AbsorbsLessThanACentPerEvent ==
    calculate_cost_micro_cents(usage) <=
        cost_cents * MICRO_CENTS_PER_CENT + recorded * (MICRO_CENTS_PER_CENT - 1)

RatesAtMostOneCentPerToken ==
    /\ RATE_INPUT_MICRO_CENTS_PER_TOKEN <= MICRO_CENTS_PER_CENT
    /\ RATE_CACHED_INPUT_MICRO_CENTS_PER_TOKEN <= MICRO_CENTS_PER_CENT
    /\ RATE_OUTPUT_MICRO_CENTS_PER_TOKEN <= MICRO_CENTS_PER_CENT
    /\ RATE_REASONING_MICRO_CENTS_PER_TOKEN <= MICRO_CENTS_PER_CENT

\* usage_events.cost_cents is a 32-bit column and nothing in the code checks
\* its range.  What keeps costs inside is the quota: at a cent per token or
\* less, the costs of a period add up to no more than token_limit, an INTEGER.
CostWithinTokenLimit ==
    RatesAtMostOneCentPerToken => cost_cents <= TokenLimit
===============================================================================
