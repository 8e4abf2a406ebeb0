---------------------------- MODULE RateCards ----------------------------
(***************************************************************************)
(* The rate cards of the server: which card prices an event of a day, and  *)
(* the requests that change the cards (services/pricing_v2.py,             *)
(* pricing_admin.py, pricing_import.py, api/v2/pricing.py).                *)
(*                                                                         *)
(* A grain is what two cards may not both price on one day: a model, a     *)
(* service tier or none, and a priority.  Provider, unit, mode and context *)
(* bracket are one value each: mode and unit only select, and a bracket is *)
(* a second tier.  A card is never deleted, so a grain's cards are a       *)
(* sequence in the order of their ids.                                     *)
(***************************************************************************)
EXTENDS Integers, Sequences, FiniteSets

CONSTANTS
    LastDay,      \* the days are 1 .. LastDay
    Models,       \* native models
    Fallback,     \* models to try for an event, its own first
    Grains,       \* records [model, tier, priority]
    NoTier,       \* the tier of a card for every tier, or of an event with none
    Prices,       \* unit prices
    ManualCards,  \* the cards an admin may create
    MaxCards,     \* bound on the cards of one grain
    Requests,     \* the pricing requests that may be open at one time
    None          \* no preview, no request

Days  == 1 .. LastDay
NoEnd == LastDay + 1     \* effective_to IS NULL: later than every date

Cards == [from : Days, to : 0 .. NoEnd, price : Prices, override : BOOLEAN]

(* What an import does to one grain; "card" is the index of the stored     *)
(* card it is about, 0 when there is none.                                 *)
Changes == [action : {"new", "superseded", "unchanged", "conflict"},
            price : Prices, card : 0 .. MaxCards, close : 0 .. NoEnd]

ASSUME RateCardsAssumption ==
    /\ LastDay \in Nat \ {0}
    /\ MaxCards \in Nat
    /\ IsFiniteSet(Grains)
    /\ \A g \in Grains : g.model \in Models /\ g.priority \in Int
    /\ Fallback \in Seq(Models)
    /\ ManualCards \subseteq Cards

VARIABLES
    cards,     \* rate_cards: the sequence of each grain's cards
    today,     \* the date
    preview,   \* the last dry run its admin may apply: [from, plan], or None
    request    \* what each open pricing request has read and will write

rateVars == <<cards, today, preview, request>>

-----------------------------------------------------------------------------
(* Rates.                                                                  *)

Covers(card, day) == card.from <= day /\ day <= card.to

(* A card for a tier prices only events of that tier.                      *)
Applicable(model, tier, day) ==
    {id \in Grains \X (1 .. MaxCards) :
        /\ id[1].model = model
        /\ id[1].tier \in {tier, NoTier}
        /\ id[2] \in DOMAIN cards[id[1]]
        /\ Covers(cards[id[1]][id[2]], day)}

Precedence(id, tier) ==
    LET g    == id[1]
        card == cards[g][id[2]]
    IN  <<IF tier # NoTier /\ g.tier = tier THEN 1 ELSE 0,
          g.priority,
          IF card.override THEN 1 ELSE 0,
          card.from>>

Beats(p, q) ==
    \E k \in DOMAIN p : p[k] > q[k] /\ \A j \in 1 .. (k - 1) : p[j] = q[j]

(* The cards of highest precedence, one unless cards of a grain overlap.   *)
BestCards(model, tier, day) ==
    {c \in Applicable(model, tier, day) :
        \A d \in Applicable(model, tier, day) :
            ~ Beats(Precedence(d, tier), Precedence(c, tier))}

(* The price an event may get; none when it is unpriced.  A model of       *)
(* Fallback is tried only when no card of an earlier one applies.          *)
RatesOf(tier, day) ==
    {cards[c[1]][c[2]].price : c \in
        UNION {BestCards(Fallback[k], tier, day) : k \in
            {m \in DOMAIN Fallback :
                \A n \in 1 .. (m - 1) : Applicable(Fallback[n], tier, day) = {}}}}

-----------------------------------------------------------------------------
(* Requests.  One that reads and then writes does both in one transaction, *)
(* which sees what other requests committed before each statement.         *)

RateInit ==
    /\ cards = [g \in Grains |-> <<>>]
    /\ today = 1
    /\ preview = None
    /\ request = [r \in Requests |-> None]

Intersect(c, d) == c.from <= d.to /\ d.from <= c.to

(* create_rate_card: the check of the grain's cards ...                    *)
CheckOverlap(r, g, card) ==
    /\ request[r] = None
    /\ Len(cards[g]) < MaxCards
    /\ \A i \in DOMAIN cards[g] : ~ Intersect(card, cards[g][i])
    /\ request' = [request EXCEPT ![r] = [kind |-> "create", grain |-> g, card |-> card]]
    /\ UNCHANGED <<cards, today, preview>>

(* ... and the INSERT and commit.                                          *)
CreateCard(r) ==
    /\ request[r] # None
    /\ request[r].kind = "create"
    /\ Len(cards[request[r].grain]) < MaxCards
    /\ cards' = [cards EXCEPT ![request[r].grain] = Append(@, request[r].card)]
    /\ request' = [request EXCEPT ![r] = None]
    /\ UNCHANGED <<today, preview>>

(* close_rate_card: any date, whatever the grain's other cards cover.      *)
CloseCard(r, g, i, to) ==
    /\ request[r] = None
    /\ i \in DOMAIN cards[g]
    /\ cards' = [cards EXCEPT ![g][i].to = to]
    /\ UNCHANGED <<today, preview, request>>

OpenCards(g) == {i \in DOMAIN cards[g] : cards[g][i].to = NoEnd}

(* The open card that starts last.                                         *)
CurrentOpenCard(g) ==
    IF OpenCards(g) = {} THEN 0
    ELSE CHOOSE i \in OpenCards(g) :
            \A j \in OpenCards(g) : cards[g][j].from <= cards[g][i].from

(* Mutant: the superseded card ends a day early. *)
CloseTwoBefore(from) == from - 2

CloseAt(from) == from - 1

Classify(g, price, from) ==
    LET i == CurrentOpenCard(g)
        Change(action, close) ==
            [action |-> action, price |-> price, card |-> i, close |-> close]
    IN  IF i = 0 THEN Change("new", NoEnd)
        ELSE IF cards[g][i].price = price THEN Change("unchanged", NoEnd)
        ELSE IF cards[g][i].from < from THEN Change("superseded", CloseAt(from))
        ELSE Change("conflict", NoEnd)

(* The diff of a price list with the stored cards.  It is also its digest, *)
(* which hashes all of it, but not the date new cards take effect on.      *)
Plan(list, from) == [g \in Grains |-> Classify(g, list[g], from)]

DryRun(list) ==
    /\ preview' = [from |-> today, plan |-> Plan(list, today)]
    /\ UNCHANGED <<cards, today, request>>

(* apply_import: the diff is made again, from the list as it is now, and   *)
(* must have the digest of the dry run ...                                 *)
CheckDigest(r, list) ==
    /\ request[r] = None
    /\ preview # None
    /\ Plan(list, today) = preview.plan
    /\ \A g \in Grains : Len(cards[g]) < MaxCards
    /\ request' = [request EXCEPT ![r] =
          [kind |-> "apply", from |-> today, plan |-> Plan(list, today)]]
    /\ UNCHANGED <<cards, today, preview>>

(* Mutant: the superseded card stays open. *)
NeverClosed(own, change) == own

Closed(own, change) ==
    IF change.action = "superseded"
    THEN [own EXCEPT ![change.card].to = change.close]
    ELSE own

(* Mutant: only a grain without a card gets one. *)
OpenedOnlyNew(change, from) ==
    IF change.action = "new"
    THEN <<[from |-> from, to |-> NoEnd, price |-> change.price, override |-> FALSE]>>
    ELSE <<>>

Opened(change, from) ==
    IF change.action \in {"new", "superseded"}
    THEN <<[from |-> from, to |-> NoEnd, price |-> change.price, override |-> FALSE]>>
    ELSE <<>>

(* ... and its changes, whatever was committed since.                      *)
ApplyImport(r) ==
    /\ request[r] # None
    /\ request[r].kind = "apply"
    /\ \A g \in Grains : Len(cards[g]) < MaxCards
    /\ cards' = [g \in Grains |->
          Closed(cards[g], request[r].plan[g])
              \o Opened(request[r].plan[g], request[r].from)]
    /\ request' = [request EXCEPT ![r] = None]
    /\ UNCHANGED <<today, preview>>

DayPasses ==
    /\ today < LastDay
    /\ today' = today + 1
    /\ UNCHANGED <<cards, preview, request>>

RateNext ==
    \/ \E r \in Requests, g \in Grains, card \in ManualCards : CheckOverlap(r, g, card)
    \/ \E r \in Requests : CreateCard(r)
    \/ \E r \in Requests, g \in Grains, i \in 1 .. MaxCards, to \in Days :
          CloseCard(r, g, i, to)
    \/ \E list \in [Grains -> Prices] : DryRun(list)
    \/ \E r \in Requests, list \in [Grains -> Prices] : CheckDigest(r, list)
    \/ \E r \in Requests : ApplyImport(r)
    \/ DayPasses

RateSpec == RateInit /\ [][RateNext]_rateVars

-----------------------------------------------------------------------------
(* Properties.                                                             *)

Queries == {g.tier : g \in Grains} \union {NoTier}

(* One request at a time leaves at most one open card on a grain: the      *)
(* import supersedes "the" open card, so a second one would never be       *)
(* closed again.                                                           *)
OneOpenCard == \A g \in Grains : \A i, j \in OpenCards(g) : i = j

Applies(r) == request[r] # None /\ request[r].kind = "apply" /\ request'[r] = None

(* An import never changes what a day before it costs, for an event of any *)
(* tier (docs/architecture/pricing.md, "past periods are never rewritten").*)
ImportKeepsThePast ==
    [][\A r \in Requests : Applies(r) =>
          \A tier \in Queries, day \in 1 .. (request[r].from - 1) :
              RatesOf(tier, day)' = RatesOf(tier, day)]_rateVars

(* An import leaves no gap: what had a price on a day still has one.       *)
ImportLeavesNoGap ==
    [][\A r \in Requests : Applies(r) =>
          \A tier \in Queries, day \in Days :
              RatesOf(tier, day) # {} => RatesOf(tier, day)' # {}]_rateVars
=============================================================================
