-------------------------- MODULE MCPricingCalculator --------------------------
(***************************************************************************)
(* A small instance of PricingCalculator.  The token counts are small and  *)
(* the rates large, so that fractions of a cent appear in every event.     *)
(***************************************************************************)
EXTENDS PricingCalculator

CONSTANTS MaxTokens,  \* of one counter in one event
          MaxRecorded \* bound on zero-token events

MCUsages ==
    [ input_tokens : 0 .. MaxTokens, cached_input_tokens : 0 .. 1,
      output_tokens : 0 .. MaxTokens, reasoning_tokens : 0 .. MaxTokens ]

RecordedBound == recorded <= MaxRecorded
===============================================================================
