----------------------------- MODULE MCCosts -----------------------------
(***************************************************************************)
(* An instance of Costs for TLC: two events and one reprice, or one event  *)
(* and a second reprice over the first.  Only what is under no fairness,   *)
(* ingest and the opening of a reprice or a revert, is held back.          *)
(***************************************************************************)
EXTENDS Costs

SecondReprice == version > 2 \/ \E j \in Jobs : Open(j) /\ job[j].version > 2

FewEvents == SecondReprice => Cardinality(finals) <= 1

HeldBack ==
    \/ \E e \in Events : Ingest(e)
    \/ \E j \in Jobs : RepriceRead(j)
    \/ \E j \in Jobs, v \in Versions, range \in SUBSET Events : RevertSelect(j, v, range)

SmallNext ==
    \/ HeldBack /\ FewEvents'
    \/ \E amount \in Amounts : RateChanges(amount)
    \/ Sweep
    \/ \E j \in Jobs : JobStep(j)
    \/ \E j \in Jobs : Fail(j)

SmallSpec == Init /\ [][SmallNext]_vars /\ Fairness
=============================================================================
