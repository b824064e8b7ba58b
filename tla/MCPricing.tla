------------------------------ MODULE MCPricing ------------------------------
(* Small instances of Pricing for TLC. *)
EXTENDS Pricing

CONSTANTS gemini, kraken, coinbase, okx
=============================================================================
