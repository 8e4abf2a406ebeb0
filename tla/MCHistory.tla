---------------------------- MODULE MCHistory ----------------------------
(***************************************************************************)
(* An instance for TLC of History and of RetentionSweep, which have no     *)
(* table in common: a behaviour takes the steps of one of them.  History   *)
(* has two attempts of one day, in two rollup groups; the sweep has two    *)
(* revisions that differ in their reason, two rows swept by age and a      *)
(* rollup, over days of two ticks.                                         *)
(***************************************************************************)
EXTENDS History, RetentionSweep

CONSTANTS e1, e2, e3, g1, g2,
    snapshot, correction, day1, limit1, limit2    \* swept rows

VARIABLE half        \* the module that takes steps

historyVars == <<vars, retentionVars, half>>

DayOf    == [e \in Events |-> IF e = e3 THEN 2 ELSE 1]
GroupOf  == [e \in Events |-> IF e = e2 THEN g2 ELSE g1]

(* History of the first day; one group, or everything of the first day.    *)
SomeImports  == {[day |-> 1, group |-> g1, tokens |-> 2]}
SomeCriteria == {[groups |-> {g1}, days |-> Days], [groups |-> Groups, days |-> {1}]}

Mixed == {{}, {"bootstrap"}, {"late", "rebuild", "erase"}, {"late", "strip"},
          {"v2"}, {"v2", "rebuild"}, {"v2", "late"}}

Tables ==
    [i \in Items |-> IF i \in {snapshot, correction} THEN "revisions"
                     ELSE IF i = day1 THEN "rollups" ELSE "aged"]
Reasons == [i \in Items |-> IF i = correction THEN "correction" ELSE "superseded"]

Stamps ==
    [i \in Items |-> IF i = limit1 THEN {0, 1} ELSE IF i = day1 THEN {0, 2} ELSE {0}]

Keep(days, enabled) == [days |-> days, enabled |-> enabled]

Shipped == [c \in Swept |-> CASE c = "rollups" -> Keep(Unset, TRUE)
                               [] c = "corrections" -> Keep(Unset, TRUE)
                               [] c = "archive" -> Keep(Unset, FALSE)
                               [] OTHER -> Keep(1, TRUE)]

(* Everything goes after a day; a hold; a policy that is refused.          *)
SomeEdits ==
    {[rules |-> [c \in Swept |-> Keep(1, c # "aged")], hold |-> FALSE],
     [rules |-> [c \in Swept |-> Keep(1, TRUE)], hold |-> TRUE],
     [rules |-> [c \in Swept |-> Keep(0, TRUE)], hold |-> FALSE]}

-----------------------------------------------------------------------------
BothInit ==
    /\ Init /\ RetentionInit
    /\ half \in {"history", "sweep"}
    /\ half = "sweep" => traffic = {}

(* Attempts of two days in one deployment, of two groups in the others.    *)
TwoDays == traffic = {"v2"}
Wanted  == IF TwoDays THEN {e1, e3} ELSE {e1, e2}

Bounded ==
    /\ today' = LastDay => TwoDays
    /\ \A e \in Events \ Wanted : ledger'[e] = None
    /\ \A w \in Writers : writer'[w] # None => DOMAIN writer'[w].rows \subseteq Wanted

HistoryStep == half = "history" /\ Next /\ Bounded /\ UNCHANGED <<retentionVars, half>>
SweepStep   == half = "sweep" /\ RetentionNext /\ UNCHANGED <<vars, half>>

BothSpec == BothInit /\ [][HistoryStep \/ SweepStep]_historyVars /\ Fairness
=============================================================================
