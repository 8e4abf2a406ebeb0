----------------------------- MODULE MCFront -----------------------------
(***************************************************************************)
(* An instance for TLC of two modules at the edges of the server: the live *)
(* stream with three connections, two of one token, and what v1 ingest     *)
(* observes of providers and models.  They have no table in common, so a   *)
(* behaviour takes the steps of one of them.                               *)
(***************************************************************************)
EXTENDS Stream, Observed

CONSTANTS
    c1, c2, c3, t1, t2,
    acme, mystery           \* providers: a built-in one, and an unknown one

VARIABLE front              \* the module that takes steps

frontVars == <<vars, observedVars, front>>

Opened == [c \in Connections |-> IF c = c3 THEN t2 ELSE t1]

(* Observed: a built-in provider, and one nobody registered, in two spellings.*)
IdOf == [s \in Spellings |-> IF s = "acme" THEN acme ELSE mystery]

Seen(provider, at) == [provider |-> provider, model |-> "m", at |-> at]

SomeBatches == {<<Seen("acme", 1), Seen("Mystery", 2)>>, <<Seen("mystery", 0)>>,
                <<Seen("mystery", 3), Seen("Mystery", 4)>>}

Row(registered, windows) == [registered |-> registered, windows |-> windows]

SomeFound ==
    {[i \in Ids |-> Absent],
     [i \in Ids |-> Row(FALSE, FALSE)]}

-----------------------------------------------------------------------------
FrontInit ==
    /\ Init /\ ObservedInit
    /\ front \in {"stream", "observed"}
    /\ front # "observed" =>
          rule = "accept" /\ crowded = FALSE /\ providers = [i \in Ids |-> Absent]

StreamStep   == front = "stream" /\ Next /\ UNCHANGED <<observedVars, front>>
ObservedStep == front = "observed" /\ ObservedNext /\ UNCHANGED <<vars, front>>

FrontNext == StreamStep \/ ObservedStep
FrontSpec == FrontInit /\ [][FrontNext]_frontVars /\ Fairness
=============================================================================
