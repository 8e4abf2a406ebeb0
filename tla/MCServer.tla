------------------------------ MODULE MCServer ------------------------------
(***************************************************************************)
(* An instance for TLC of four parts of the server that have no table in   *)
(* common: rate cards, limits, the upgrade of an old database, and the     *)
(* rollups and queries of usage.  A step of one commutes with every step   *)
(* of another and no property speaks of two, so a behaviour takes the      *)
(* steps of one part, and the others stay as they begin.                   *)
(***************************************************************************)
EXTENDS RateCards, Limits, Upgrade, Readers, TLC

CONSTANTS
    dated, base,     \* a dated model, and the model its rates fall back to
    e1, e2,          \* events of an earlier release
    a1, a2,          \* accounts
    u1, u2, u3,      \* an attempt of a collector, one of a gateway, and one of
                     \* the collector of another host
    g1, g2, g3,      \* groups of the rollups
    s1               \* the collector's session

VARIABLE part        \* the part that takes steps

serverVars == <<rateVars, limitsVars, upgradeVars, usageVars, part>>

(* Rate cards: an event of a dated model whose base model has a card of its *)
(* own, for every tier or for one.                                         *)
Grain(model, tier) == [model |-> model, tier |-> tier, priority |-> 0]

TwoGrains == {Grain(dated, "batch"), Grain(base, NoTier)}

Chain == <<dated, base>>

(* An override from a later day on; cards with an end are those closed.    *)
Manual(from, to, price, override) ==
    [from |-> from, to |-> to, price |-> price, override |-> override]

SomeCards == {Manual(2, NoEnd, 1, TRUE)}

(* Limits: gateways that share an id, and report late and out of order.    *)
Primary == <<"openai", "primary">>
FiveHour == <<"anthropic", "five_hour">>

SomeWindows == {FiveHour, Primary}

SomeBatches ==
    {<< <<Primary, a1, 1, 20>>, <<Primary, a2, 0, 60>> >>,
     << <<Primary, a1, 2, 20>>, <<Primary, a1, 1, 60>>, <<Primary, a1, 0, 60>> >>,
     << <<FiveHour, Nil, 0, 60>> >>}

(* Upgrade: two events of one machine and model.                           *)
OneMachine == [e \in EventIds |-> CHOOSE m \in Machines : TRUE]
OneModel == [e \in EventIds |-> CHOOSE m \in NativeModels : TRUE]

(* Usage: a collector's attempt may be written on either of two days; the  *)
(* project of one folds to another group by the default roots.             *)
Folded == [configured |-> [a \in Attempts |-> IF a = u3 THEN g3 ELSE g1],
           default |-> [a \in Attempts |-> IF a = u3 THEN g3 ELSE IF a = u1 THEN g2 ELSE g1]]

SourcePairs == {[tokens |-> 1, reasoning |-> 0], [tokens |-> 2, reasoning |-> 1]}

OneHost == [a \in Legacy |-> a]

SomeImports == {[day |-> 1, group |-> g1, tokens |-> 1]}

CollectorSession == [a \in Attempts |-> IF a \in Legacy THEN s1 ELSE NoValue]

SomeQuotes == {[status |-> "priced", amount |-> 1], [status |-> "partial", amount |-> 1],
               [status |-> "error", amount |-> NoValue]}

-----------------------------------------------------------------------------
(* A database that was never upgraded.  The first collector's attempts are  *)
(* those of a subscription, where they are by themselves, and the others    *)
(* are billed, until the operator says otherwise.                          *)
NoUpgrade == db = LeftBehind(7, NoEvents, NoEvents, {}, {}, FALSE)
BilledFirst == {a \in Attempts : billing[a] = "api_billed"}

(* Usage takes its steps three times: a collector and a gateway, one        *)
(* transaction at a time; a collector that has imported its history; and    *)
(* the collectors of two hosts, whose requests overlap with one another and *)
(* with those of an administrator.                                         *)
UsageParts == {"usage", "import", "overlap"}

(* In requests that overlap one host stays as it is, and the other grows    *)
(* before it reports the second day; all have one price.                   *)
OverlapScope ==
    /\ rows'[u3] # NoValue => rows'[u3].day = 1 /\ rows'[u3].tokens = 1
    /\ rows'[u1] # NoValue => rows'[u1].day <= rows'[u1].tokens
    /\ \A a \in Attempts : active'[a] # NoValue =>
          active'[a].status = "priced" /\ active'[a].mode = "api_billed"
    /\ billing' = billing

(* An attempt of a collector is not priced in part, nor one of a gateway in *)
(* vain.                                                                   *)
FewQuotes ==
    \A a \in Attempts : active'[a] # NoValue =>
        active'[a].status # IF a \in Legacy THEN "partial" ELSE "error"

UsageScope ==
    /\ FewQuotes
    /\ part \in {"usage", "import"} =>
          views' = {} /\ rows'[u3] = NoValue /\ billing'[u3] = billing[u3]
    /\ part \in {"import", "overlap"} => rows'[u2] = NoValue
    /\ part \in {"usage", "overlap"} => imported' = imported
    /\ part = "overlap" => OverlapScope

ServerInit ==
    /\ RateInit /\ LimitsInit /\ UpgradeInit /\ UsageInit
    /\ part \in {"rates", "limits", "upgrade"} \union UsageParts
    /\ part # "upgrade" => NoUpgrade
    /\ BilledFirst = IF part = "usage" THEN {u2, u3} ELSE Attempts

(* Cards are created by hand for the dated model.                          *)
RatesScope ==
    \A r \in Requests : request'[r] # None /\ request'[r].kind = "create" =>
        request'[r].grain.model = dated

RatesStep   == part = "rates" /\ RateNext /\ RatesScope /\ UNCHANGED <<limitsVars, upgradeVars, usageVars, part>>
LimitsStep  == part = "limits" /\ LimitsNext /\ UNCHANGED <<rateVars, upgradeVars, usageVars, part>>
UpgradeStep == part = "upgrade" /\ UpgradeNext /\ UNCHANGED <<rateVars, limitsVars, usageVars, part>>
UsageStep   == part \in UsageParts /\ UsageNext /\ UsageScope
               /\ UNCHANGED <<rateVars, limitsVars, upgradeVars, part>>

ServerNext == RatesStep \/ LimitsStep \/ UpgradeStep \/ UsageStep

ServerSpec == ServerInit /\ [][ServerNext]_serverVars

(* Requests that bring limits are alike.                                   *)
AlikePosts == Permutations(Posts)
=============================================================================
