--------------------------- MODULE MCCircuitBreaker ---------------------------
(***************************************************************************)
(* CircuitBreaker with three requests at a time: two close a half-open     *)
(* breaker and the third fails before its counts are reset.  One breaker   *)
(* is alive at a time: they share nothing, so that a deleted one, still    *)
(* held by a call, does not interact with its successor.                   *)
(***************************************************************************)
EXTENDS CircuitBreaker

CONSTANTS b1, r1, r2, r3
=============================================================================
