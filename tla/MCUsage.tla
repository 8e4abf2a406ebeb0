------------------------------ MODULE MCUsage ------------------------------
(***************************************************************************)
(* An instance of Readers for TLC: one attempt of a collector.             *)
(***************************************************************************)
EXTENDS Readers

CONSTANTS u1, g1

OneHost == [a \in Legacy |-> a]

NoSession == [a \in Attempts |-> NoValue]

OneGroup == [roots \in Roots |-> [a \in Attempts |-> g1]]

OneQuote == {[status |-> "priced", amount |-> 1]}
=============================================================================
