--------------------------- MODULE MC_RateLimiter ---------------------------
(***************************************************************************)
(* Small instances of RateLimiter: numbered requests, the odd one out      *)
(* comes from the second address.                                          *)
(***************************************************************************)
EXTENDS RateLimiter, TLC

CONSTANTS here, there

MCFrom == [r \in Request |-> IF r = 1 THEN there ELSE here]
=============================================================================
