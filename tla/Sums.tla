-------------------------------- MODULE Sums --------------------------------
(***************************************************************************)
(* Sums over finite sets: what SUM and the accumulators of the server add  *)
(* up, with the amounts as a function, so that the sum of a set is an      *)
(* expression of two values.                                               *)
(***************************************************************************)
EXTENDS FiniteSetsExt

Total(amounts, es) == MapThenSumSet(LAMBDA e : amounts[e], es)
=============================================================================
