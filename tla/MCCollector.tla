---------------------------- MODULE MCCollector ----------------------------
(***************************************************************************)
(* Instances of Collector for TLC.                                         *)
(***************************************************************************)
EXTENDS Collector, TLC

CONSTANTS f1      \* a transcript file
CONSTANTS a, b    \* event ids

Use(id, output) == [id |-> id, output |-> output]

(* One request is reported twice with a growing output, next to another one *)
(* and to a line that kills the parser.                                     *)
GrowingLines == (f1 :> {Use(a, 1), Use(a, 2), Use(b, 1), Scalar})

(* Two requests, and a line that yields nothing. *)
OneFileLines == (f1 :> {Use(a, 1), Use(b, 1), Passed})

RefusedEvents == {Use(b, 1)}
NoEvents      == {}

F1Once  == (f1 :> 1)
F1Never == (f1 :> 0)
Two     == (f1 :> 2)
=============================================================================
