--------------------------- MODULE PricingProofs ---------------------------
(***************************************************************************)
(* Proofs about RateCards, for every set of grains, prices and days, with  *)
(* one pricing request open at a time: no database constraint keeps two    *)
(* open requests apart (services/pricing_v2.py:197-235 only reads).        *)
(* Then about Costs, for every set of events, versions and batch, with the *)
(* sweep and one administrator.  Last about Usage and Readers, for every   *)
(* set of attempts, days and groups, every fold of projects and every      *)
(* session of an attempt.                                                  *)
(***************************************************************************)
EXTENDS RateCards, Costs, Readers, SumLemmas

SingleRequest == \A r, s \in Requests : r = s

CardsTyped ==
    /\ today \in Days
    /\ DOMAIN request = Requests
    /\ cards \in [Grains -> Seq(Cards)]

(* What an open request has read is still so: it is the only writer.       *)
RequestsCurrent ==
    \A r \in Requests : request[r] # None =>
        \/ /\ request[r].kind = "create"
           /\ request[r].grain \in Grains
           /\ request[r].card \in Cards
           /\ \A i \in DOMAIN cards[request[r].grain] :
                 ~ Intersect(request[r].card, cards[request[r].grain][i])
        \/ /\ request[r].kind = "apply"
           /\ request[r].from \in Days
           /\ \A g \in Grains :
                 LET change == request[r].plan[g] IN
                 /\ change.price \in Prices
                 /\ change.action = "new" => OpenCards(g) = {}
                 /\ change.action = "superseded" =>
                       /\ change.card \in OpenCards(g)
                       /\ change.close = request[r].from - 1
                       /\ cards[g][change.card].from < request[r].from

RateInv == CardsTyped /\ OneOpenCard /\ RequestsCurrent

-----------------------------------------------------------------------------
LEMMA DayType == /\ NoEnd \in Nat /\ NoEnd \notin Days
                 /\ \A d \in Days : d \in Nat \ {0} /\ d - 1 \in 0 .. NoEnd /\ d - 1 # NoEnd
                 /\ \A d \in Days : d <= NoEnd
  BY RateCardsAssumption DEF Days, NoEnd

(* The plan of an import, made while no other request is open.             *)
LEMMA ClassifyCurrent ==
    ASSUME CardsTyped, OneOpenCard, NEW g \in Grains, NEW price \in Prices, NEW from \in Days
    PROVE  LET change == Classify(g, price, from) IN
           /\ change.price = price
           /\ change.action = "new" => OpenCards(g) = {}
           /\ change.action = "superseded" =>
                 /\ change.card \in OpenCards(g)
                 /\ change.close = from - 1
                 /\ cards[g][change.card].from < from
  <1>1. CASE OpenCards(g) = {}
    BY <1>1 DEF Classify, CurrentOpenCard
  <1>2. CASE OpenCards(g) # {}
    <2>1. PICK i \in OpenCards(g) : TRUE
      BY <1>2
    <2>2. \A j \in OpenCards(g) : j = i
      BY <2>1 DEF OneOpenCard
    <2>3. cards[g][i].from <= cards[g][i].from
      <3>1. cards[g][i] \in Cards
        BY <2>1 DEF OpenCards, CardsTyped
      <3>2. cards[g][i].from \in Nat
        BY <3>1, DayType DEF Cards
      <3> QED BY <3>2
    <2>4. CurrentOpenCard(g) = i
      <3>1. \E k \in OpenCards(g) : \A j \in OpenCards(g) : cards[g][j].from <= cards[g][k].from
        BY <2>1, <2>2, <2>3
      <3>2. CurrentOpenCard(g) \in OpenCards(g)
        BY <1>2, <3>1 DEF CurrentOpenCard
      <3> QED BY <2>2, <3>2
    <2>5. i \in Nat \ {0}
      BY <2>1 DEF OpenCards, CardsTyped
    <2> QED BY <2>1, <2>4, <2>5 DEF Classify, CloseAt
  <1> QED BY <1>1, <1>2

-----------------------------------------------------------------------------
LEMMA RateInitInv == RateInit => RateInv
  BY RateCardsAssumption
     DEF RateInit, RateInv, CardsTyped, OneOpenCard, OpenCards, RequestsCurrent, Days

LEMMA CheckOverlapInv ==
    ASSUME SingleRequest, RateInv, NEW r \in Requests, NEW g \in Grains, NEW card \in ManualCards,
           CheckOverlap(r, g, card)
    PROVE  RateInv'
  <1>1. CardsTyped' /\ OneOpenCard' /\ card \in Cards
    BY RateCardsAssumption DEF RateInv, CardsTyped, OneOpenCard, OpenCards, CheckOverlap
  <1>2. request'[r] = [kind |-> "create", grain |-> g, card |-> card]
    BY DEF CheckOverlap, RateInv, CardsTyped
  <1>3. \A i \in DOMAIN cards'[g] : ~ Intersect(card, cards'[g][i])
    BY DEF CheckOverlap
  <1>4. RequestsCurrent'
    BY <1>1, <1>2, <1>3 DEF SingleRequest, RequestsCurrent
  <1> QED BY <1>1, <1>4 DEF RateInv

(* A card that overlaps none of its grain is not a second open one.        *)
LEMMA CreateCardInv ==
    ASSUME SingleRequest, RateInv, NEW r \in Requests, CreateCard(r)
    PROVE  RateInv'
  <1> DEFINE h    == request[r].grain
             card == request[r].card
  <1>1. /\ h \in Grains /\ card \in Cards
        /\ \A i \in DOMAIN cards[h] : ~ Intersect(card, cards[h][i])
        /\ cards[h] \in Seq(Cards)
    BY DEF RateInv, RequestsCurrent, CreateCard, CardsTyped
  <1>2. /\ cards' = [cards EXCEPT ![h] = Append(@, card)]
        /\ request' = [request EXCEPT ![r] = None]
        /\ today' = today
    BY DEF CreateCard
  <1> HIDE DEF h, card
  <1>3. CardsTyped'
    BY <1>1, <1>2 DEF RateInv, CardsTyped
  <1>4. \A i \in DOMAIN cards[h] : cards[h][i] \in Cards
    BY <1>1
  <1>5. \A i \in DOMAIN cards[h] : ~ (card.to = NoEnd /\ cards[h][i].to = NoEnd)
    BY <1>1, <1>4, DayType DEF Intersect, Cards
  <1>6. \A g \in Grains : OpenCards(g)' = IF g # h \/ card.to # NoEnd THEN OpenCards(g)
                                         ELSE {Len(cards[h]) + 1}
    <2> TAKE g \in Grains
    <2>1. CASE g # h
      BY <1>2, <2>1 DEF OpenCards, RateInv, CardsTyped
    <2>2. CASE g = h
      <3>1. cards'[g] = Append(cards[h], card)
        BY <1>1, <1>2, <2>2 DEF RateInv, CardsTyped
      <3>2. /\ DOMAIN Append(cards[h], card) = DOMAIN cards[h] \union {Len(cards[h]) + 1}
            /\ Append(cards[h], card)[Len(cards[h]) + 1] = card
            /\ \A i \in DOMAIN cards[h] : Append(cards[h], card)[i] = cards[h][i]
        BY <1>1
      <3> QED BY <1>5, <2>2, <3>1, <3>2 DEF OpenCards
    <2> QED BY <2>1, <2>2
  <1>7. OneOpenCard'
    BY <1>6 DEF OneOpenCard, RateInv
  <1>8. RequestsCurrent'
    BY <1>2 DEF SingleRequest, RequestsCurrent, RateInv, CardsTyped
  <1> QED BY <1>3, <1>7, <1>8 DEF RateInv

LEMMA CloseCardInv ==
    ASSUME SingleRequest, RateInv, NEW r \in Requests, NEW g \in Grains, NEW i \in 1 .. MaxCards,
           NEW to \in Days, CloseCard(r, g, i, to)
    PROVE  RateInv'
  <1>1. cards[g] \in Seq(Cards) /\ i \in DOMAIN cards[g] /\ cards[g][i] \in Cards
    BY DEF RateInv, CardsTyped, CloseCard
  <1> DEFINE card == [cards[g][i] EXCEPT !.to = to]
             own  == [cards[g] EXCEPT ![i] = card]
  <1>2. card \in Cards /\ card.to = to /\ to # NoEnd
    <2>1. to \in 0 .. NoEnd /\ to # NoEnd
      BY DayType
    <2> QED BY <1>1, <2>1 DEF Cards
  <1>3. cards' = [cards EXCEPT ![g] = own] /\ UNCHANGED <<today, request>>
    BY DEF CloseCard
  <1> HIDE DEF card
  <1>4. own \in Seq(Cards)
    BY <1>1, <1>2
  <1>5. \A j \in DOMAIN own : own[j].to = NoEnd => j \in DOMAIN cards[g] /\ cards[g][j].to = NoEnd
    BY <1>1, <1>2
  <1> HIDE DEF own
  <1>6. CardsTyped'
    BY <1>3, <1>4 DEF RateInv, CardsTyped
  <1>7. \A q \in Grains : OpenCards(q)' \subseteq OpenCards(q)
    BY <1>3, <1>5 DEF OpenCards, RateInv, CardsTyped
  <1>8. OneOpenCard'
    BY <1>7 DEF OneOpenCard, RateInv
  <1>9. \A s \in Requests : request'[s] = None
    BY DEF SingleRequest, CloseCard
  <1> QED BY <1>6, <1>8, <1>9 DEF RateInv, RequestsCurrent

LEMMA CheckDigestInv ==
    ASSUME SingleRequest, RateInv, NEW r \in Requests, NEW list \in [Grains -> Prices], CheckDigest(r, list)
    PROVE  RateInv'
  <1>1. CardsTyped' /\ OneOpenCard' /\ UNCHANGED <<cards, today>>
    BY DEF RateInv, CardsTyped, OneOpenCard, OpenCards, CheckDigest
  <1>2. request'[r] = [kind |-> "apply", from |-> today, plan |-> Plan(list, today)]
    BY DEF CheckDigest, RateInv, CardsTyped
  <1>3. \A g \in Grains : Plan(list, today)[g] = Classify(g, list[g], today)
    BY DEF Plan
  <1>4. \A g \in Grains : OpenCards(g)' = OpenCards(g)
    BY <1>1 DEF OpenCards
  <1>5. RequestsCurrent'
    BY <1>1, <1>2, <1>3, <1>4, ClassifyCurrent
       DEF SingleRequest, RequestsCurrent, RateInv, CardsTyped
  <1> QED BY <1>1, <1>5 DEF RateInv

-----------------------------------------------------------------------------
(* What an import does to the cards of one grain: it closes the open card  *)
(* the day before and opens another, or opens the first, and changes       *)
(* nothing else of a card that was there.                                  *)
Imported(g, from) ==
    /\ from \in Days
    /\ cards'[g] \in Seq(Cards)
    /\ DOMAIN cards[g] \subseteq DOMAIN cards'[g]
    /\ \A i \in DOMAIN cards[g] :
          \/ cards'[g][i] = cards[g][i]
          \/ /\ i \in OpenCards(g)
             /\ cards'[g][i] = [cards[g][i] EXCEPT !.to = from - 1]
             /\ Len(cards[g]) + 1 \in DOMAIN cards'[g]
             /\ cards'[g][Len(cards[g]) + 1].to = NoEnd
    /\ \A i \in DOMAIN cards'[g] \ DOMAIN cards[g] : cards'[g][i].from = from
    /\ \A i, j \in OpenCards(g)' : i = j

LEMMA ImportedGrain ==
    ASSUME SingleRequest, RateInv, NEW r \in Requests, ApplyImport(r), NEW g \in Grains
    PROVE  Imported(g, request[r].from)
  <1> DEFINE from   == request[r].from
             change == request[r].plan[g]
             closed == Closed(cards[g], change)
             card   == [from |-> from, to |-> NoEnd, price |-> change.price,
                        override |-> FALSE]
  <1>1. /\ from \in Days
        /\ change.price \in Prices
        /\ change.action = "new" => OpenCards(g) = {}
        /\ change.action = "superseded" =>
              /\ change.card \in OpenCards(g)
              /\ change.close = from - 1
        /\ cards[g] \in Seq(Cards)
    BY DEF RateInv, RequestsCurrent, ApplyImport, CardsTyped
  <1>2. cards'[g] = closed \o Opened(change, from)
    BY DEF ApplyImport
  <1>3. card \in Cards /\ from - 1 \in 0 .. NoEnd /\ from - 1 # NoEnd
    BY <1>1, DayType DEF Cards, Days, NoEnd
  <1>4. Opened(change, from) = IF change.action \in {"new", "superseded"} THEN <<card>> ELSE <<>>
    BY DEF Opened
  <1> HIDE DEF from, card
  <1>5. CASE change.action = "superseded"
    <2> DEFINE k   == change.card
               old == [cards[g][k] EXCEPT !.to = from - 1]
    <2>1. k \in DOMAIN cards[g] /\ cards[g][k] \in Cards /\ k \in OpenCards(g)
      BY <1>1, <1>5 DEF OpenCards
    <2>2. closed = [cards[g] EXCEPT ![k] = old]
      BY <1>1, <1>5 DEF Closed
    <2>3. old \in Cards /\ old.to = from - 1
      BY <1>3, <2>1 DEF Cards
    <2> HIDE DEF old
    <2>4. /\ closed \in Seq(Cards) /\ Len(closed) = Len(cards[g])
          /\ closed[k] = old
          /\ \A i \in DOMAIN cards[g] \ {k} : closed[i] = cards[g][i]
      BY <1>1, <2>1, <2>2, <2>3
    <2> HIDE DEF closed
    <2>5. cards'[g] = Append(closed, card)
      BY <1>2, <1>3, <1>4, <1>5, <2>4
    <2>6. /\ cards'[g] \in Seq(Cards)
          /\ DOMAIN cards'[g] = DOMAIN cards[g] \union {Len(cards[g]) + 1}
          /\ cards'[g][Len(cards[g]) + 1] = card
          /\ \A i \in DOMAIN cards[g] : cards'[g][i] = closed[i]
      BY <1>1, <1>3, <2>4, <2>5
    <2>7. \A i \in DOMAIN cards[g] : cards'[g][i].to # NoEnd
      <3>1. cards'[g][k].to # NoEnd
        BY <1>3, <2>1, <2>3, <2>4, <2>6
      <3>2. \A i \in DOMAIN cards[g] \ {k} : cards[g][i].to # NoEnd
        BY <2>1 DEF RateInv, OneOpenCard, OpenCards
      <3> QED BY <2>4, <2>6, <3>1, <3>2
    <2>8. \A i \in OpenCards(g)' : i = Len(cards[g]) + 1
      BY <2>6, <2>7 DEF OpenCards
    <2>9. card.from = from
      BY DEF card
    <2>10. Imported(g, from)
      <3>1. \A i \in DOMAIN cards[g] \ {k} : cards'[g][i] = cards[g][i]
        BY <2>4, <2>6
      <3>2. cards'[g][k] = [cards[g][k] EXCEPT !.to = from - 1]
        BY <2>1, <2>4, <2>6 DEF old
      <3>3. \A i \in DOMAIN cards'[g] \ DOMAIN cards[g] : cards'[g][i].from = from
        BY <2>6, <2>9
      <3>4. Len(cards[g]) + 1 \in DOMAIN cards'[g] /\ cards'[g][Len(cards[g]) + 1].to = NoEnd
        BY <2>6 DEF card
      <3> QED BY <1>1, <2>1, <2>6, <2>8, <3>1, <3>2, <3>3, <3>4 DEF Imported
    <2> QED BY <2>10 DEF from
  <1>6. CASE change.action # "superseded"
    <2>1. closed = cards[g]
      BY <1>6 DEF Closed
    <2>2. CASE change.action = "new"
      <3>1. cards'[g] = Append(cards[g], card)
        BY <1>1, <1>2, <1>3, <1>4, <2>1, <2>2
      <3>2. /\ cards'[g] \in Seq(Cards)
            /\ DOMAIN cards'[g] = DOMAIN cards[g] \union {Len(cards[g]) + 1}
            /\ cards'[g][Len(cards[g]) + 1] = card
            /\ \A i \in DOMAIN cards[g] : cards'[g][i] = cards[g][i]
        BY <1>1, <1>3, <3>1
      <3>3. \A i \in OpenCards(g)' : i = Len(cards[g]) + 1
        BY <1>1, <2>2, <3>2 DEF OpenCards
      <3>4. card.from = from
        BY DEF card
      <3>5. Imported(g, from)
        BY <1>1, <3>2, <3>3, <3>4 DEF Imported
      <3> QED BY <3>5 DEF from
    <2>3. CASE change.action # "new"
      <3>1. cards'[g] = cards[g]
        <4>1. Opened(change, from) = <<>>
          BY <1>4, <1>6, <2>3
        <4>2. cards[g] \o <<>> = cards[g]
          BY <1>1
        <4> QED BY <1>2, <2>1, <4>1, <4>2
      <3>2. Imported(g, from)
        BY <1>1, <3>1 DEF RateInv, OneOpenCard, OpenCards, Imported
      <3> QED BY <3>2 DEF from
    <2> QED BY <2>2, <2>3
  <1> QED BY <1>5, <1>6

LEMMA ApplyImportInv ==
    ASSUME SingleRequest, RateInv, NEW r \in Requests, ApplyImport(r)
    PROVE  RateInv'
  <1>1. CardsTyped'
    <2>1. DOMAIN cards' = Grains /\ cards' = [g \in Grains |-> cards'[g]]
      BY DEF ApplyImport
    <2> QED BY <2>1, ImportedGrain DEF ApplyImport, RateInv, CardsTyped, Imported
  <1>2. OneOpenCard'
    BY ImportedGrain DEF OneOpenCard, Imported
  <1>3. RequestsCurrent'
    BY DEF SingleRequest, ApplyImport, RequestsCurrent, RateInv, CardsTyped
  <1> QED BY <1>1, <1>2, <1>3 DEF RateInv

(* The cards that price an event before the import are the same, and their *)
(* precedence and price are.                                               *)
LEMMA ImportedPast ==
    ASSUME SingleRequest, RateInv, NEW r \in Requests, ApplyImport(r),
           NEW tier, NEW day \in 1 .. (request[r].from - 1)
    PROVE  RatesOf(tier, day)' = RatesOf(tier, day)
  <1>1. \A g \in Grains : \A i \in DOMAIN cards'[g] :
            i \in DOMAIN cards[g] /\ Covers(cards[g][i], day) <=> Covers(cards'[g][i], day)
    <2> SUFFICES ASSUME NEW g \in Grains, NEW i \in DOMAIN cards'[g]
                 PROVE  i \in DOMAIN cards[g] /\ Covers(cards[g][i], day)
                            <=> Covers(cards'[g][i], day)
      OBVIOUS
    <2>1. /\ request[r].from \in Days /\ day \in Nat /\ day < request[r].from
          /\ request[r].from <= NoEnd /\ request[r].from \in Nat
      BY ImportedGrain, DayType DEF Imported
    <2>2. CASE i \notin DOMAIN cards[g]
      BY <2>1, <2>2, ImportedGrain DEF Covers, Imported
    <2>3. CASE i \in OpenCards(g) /\ cards'[g][i] = [cards[g][i] EXCEPT !.to = request[r].from - 1]
      <3>1. i \in DOMAIN cards[g] /\ cards[g][i] \in Cards /\ cards[g][i].to = NoEnd
        BY <2>3 DEF OpenCards, RateInv, CardsTyped
      <3> QED BY <2>1, <2>3, <3>1, DayType DEF Covers, Cards
    <2>4. CASE i \in DOMAIN cards[g] /\ cards'[g][i] = cards[g][i]
      BY <2>4
    <2>5. \/ i \notin DOMAIN cards[g]
          \/ i \in OpenCards(g) /\ cards'[g][i] = [cards[g][i] EXCEPT !.to = request[r].from - 1]
          \/ i \in DOMAIN cards[g] /\ cards'[g][i] = cards[g][i]
      <3>1. Imported(g, request[r].from)
        BY ImportedGrain
      <3>2. \A k \in DOMAIN cards[g] :
                \/ cards'[g][k] = cards[g][k]
                \/ /\ k \in OpenCards(g)
                   /\ cards'[g][k] = [cards[g][k] EXCEPT !.to = request[r].from - 1]
        BY <3>1 DEF Imported
      <3> QED BY <3>2
    <2> QED BY <2>2, <2>3, <2>4, <2>5
  <1>2. \A g \in Grains : \A i \in DOMAIN cards[g] :
            /\ i \in DOMAIN cards'[g]
            /\ cards'[g][i].from = cards[g][i].from
            /\ cards'[g][i].price = cards[g][i].price
            /\ cards'[g][i].override = cards[g][i].override
    <2> SUFFICES ASSUME NEW g \in Grains, NEW i \in DOMAIN cards[g]
                 PROVE  /\ i \in DOMAIN cards'[g]
                        /\ cards'[g][i].from = cards[g][i].from
                        /\ cards'[g][i].price = cards[g][i].price
                        /\ cards'[g][i].override = cards[g][i].override
      OBVIOUS
    <2>1. cards[g][i] \in Cards
      BY DEF RateInv, CardsTyped
    <2>2. i \in DOMAIN cards'[g] /\ (\/ cards'[g][i] = cards[g][i]
                                     \/ cards'[g][i] = [cards[g][i] EXCEPT !.to = request[r].from - 1])
      <3>1. Imported(g, request[r].from)
        BY ImportedGrain
      <3> QED BY <3>1 DEF Imported
    <2> QED BY <2>1, <2>2 DEF Cards
  <1>3. ASSUME NEW model PROVE Applicable(model, tier, day)' = Applicable(model, tier, day)
    BY <1>1, <1>2 DEF Applicable
  <1>4. ASSUME NEW model, NEW c \in Applicable(model, tier, day)
        PROVE  /\ Precedence(c, tier)' = Precedence(c, tier)
               /\ cards'[c[1]][c[2]].price = cards[c[1]][c[2]].price
    BY <1>2 DEF Applicable, Precedence
  <1>5. ASSUME NEW model PROVE BestCards(model, tier, day)' = BestCards(model, tier, day)
    BY <1>3, <1>4 DEF BestCards
  <1>6. ASSUME NEW model, NEW c \in BestCards(model, tier, day)
        PROVE  cards'[c[1]][c[2]].price = cards[c[1]][c[2]].price
    BY <1>4 DEF BestCards
  <1> DEFINE tried == {m \in DOMAIN Fallback :
                 \A n \in 1 .. (m - 1) : Applicable(Fallback[n], tier, day) = {}}
             best  == UNION {BestCards(Fallback[k], tier, day) : k \in tried}
  <1>7. tried' = tried
    BY <1>3
  <1>8. best' = best
    BY <1>5, <1>7
  <1>9. \A c \in best : cards'[c[1]][c[2]].price = cards[c[1]][c[2]].price
    BY <1>6
  <1>10. RatesOf(tier, day) = {cards[c[1]][c[2]].price : c \in best}
    BY DEF RatesOf
  <1>11. RatesOf(tier, day)' = {cards'[c[1]][c[2]].price : c \in best'}
    BY DEF RatesOf
  <1> HIDE DEF best
  <1> QED BY <1>8, <1>9, <1>10, <1>11

-----------------------------------------------------------------------------
LEMMA RateNextInv ==
    ASSUME SingleRequest, RateInv, [RateNext]_rateVars
    PROVE  RateInv'
  <1>1. CASE UNCHANGED <<cards, request>> /\ today' \in Days
    BY <1>1 DEF RateInv, CardsTyped, OneOpenCard, OpenCards, RequestsCurrent
  <1>2. CASE DayPasses
    BY <1>1, <1>2, RateCardsAssumption DEF DayPasses, RateInv, CardsTyped, Days
  <1>3. ASSUME NEW list \in [Grains -> Prices], DryRun(list) PROVE RateInv'
    BY <1>1, <1>3 DEF DryRun, RateInv, CardsTyped
  <1>4. CASE UNCHANGED rateVars
    BY <1>1, <1>4 DEF rateVars, RateInv, CardsTyped
  <1> QED BY <1>2, <1>3, <1>4, CheckOverlapInv, CreateCardInv, CloseCardInv, CheckDigestInv,
             ApplyImportInv DEF RateNext

(* Precedences are compared from the left.                                 *)
Higher(p, q) ==
    \/ p[1] > q[1]
    \/ p[1] = q[1] /\ p[2] > q[2]
    \/ p[1] = q[1] /\ p[2] = q[2] /\ p[3] > q[3]
    \/ p[1] = q[1] /\ p[2] = q[2] /\ p[3] = q[3] /\ p[4] > q[4]

LEMMA BeatsInTurn ==
    ASSUME NEW p, NEW q, DOMAIN p = 1 .. 4
    PROVE  Beats(p, q) <=> Higher(p, q)
  <1>1. Beats(p, q) <=> \E k \in 1 .. 4 : p[k] > q[k] /\ \A j \in 1 .. (k - 1) : p[j] = q[j]
    BY DEF Beats
  <1>2. \A k \in 1 .. 4 : k = 1 \/ k = 2 \/ k = 3 \/ k = 4
    OBVIOUS
  <1>3. /\ 1 .. (1 - 1) = {} /\ 1 .. (2 - 1) = {1} /\ 1 .. (3 - 1) = {1, 2}
        /\ 1 .. (4 - 1) = {1, 2, 3} /\ 1 \in 1 .. 4 /\ 2 \in 1 .. 4 /\ 3 \in 1 .. 4 /\ 4 \in 1 .. 4
    OBVIOUS
  <1> QED BY <1>1, <1>2, <1>3 DEF Higher

(* A day's applicable cards have a best one.                               *)
LEMMA BestIsThere ==
    ASSUME CardsTyped, NEW model, NEW tier, NEW day, Applicable(model, tier, day) # {}
    PROVE  BestCards(model, tier, day) # {}
  <1> DEFINE S == Applicable(model, tier, day)
             P(c) == Precedence(c, tier)
             above(c) == {d \in S : Beats(P(d), P(c))}
  <1>1. IsFiniteSet(S)
    <2>1. IsFiniteSet(1 .. MaxCards)
      BY FS_Interval, RateCardsAssumption
    <2>2. IsFiniteSet(Grains \X (1 .. MaxCards))
      BY <2>1, FS_Product, RateCardsAssumption
    <2> QED BY <2>2, FS_Subset DEF Applicable
  <1>2. ASSUME NEW c \in S
        PROVE  /\ DOMAIN P(c) = 1 .. 4
               /\ P(c)[1] \in Int /\ P(c)[2] \in Int /\ P(c)[3] \in Int /\ P(c)[4] \in Int
    <2>1. c[1] \in Grains /\ cards[c[1]][c[2]] \in Cards
      BY DEF Applicable, CardsTyped
    <2>2. c[1].priority \in Int /\ cards[c[1]][c[2]].from \in Int
      BY <2>1, RateCardsAssumption DEF Cards, Days
    <2> QED BY <2>2 DEF Precedence
  <1> HIDE DEF P
  <1>3. ASSUME NEW c \in S, NEW d \in S, NEW e \in S, Beats(P(d), P(c)), Beats(P(e), P(d))
        PROVE  Beats(P(e), P(c))
    <2>1. Higher(P(d), P(c)) /\ Higher(P(e), P(d))
      BY <1>2, <1>3, BeatsInTurn
    <2>2. Higher(P(e), P(c))
      BY <1>2, <2>1 DEF Higher
    <2> QED BY <1>2, <2>2, BeatsInTurn
  <1>4. \A c \in S : ~ Beats(P(c), P(c))
    BY <1>2, BeatsInTurn DEF Higher
  <1>5. \E c \in S : \A d \in S : ~ Beats(P(d), P(c))
    <2> DEFINE B == {above(c) : c \in S}
    <2>1. B \in SUBSET SUBSET S /\ B # {}
      OBVIOUS
    <2> HIDE DEF B
    <2>2. PICK s \in B : \A t \in B : t \subseteq s => t = s
      BY <1>1, <2>1, SmallestSet
    <2>3. PICK c \in S : s = above(c)
      BY <2>2 DEF B
    <2>4. ASSUME NEW d \in S, Beats(P(d), P(c)) PROVE FALSE
      <3>1. above(d) \subseteq above(c) /\ above(d) \in B
        BY <1>3, <2>4 DEF B
      <3>2. d \in above(c) /\ d \notin above(d)
        BY <1>4, <2>4
      <3> QED BY <2>2, <2>3, <3>1, <3>2
    <2> QED BY <2>4
  <1> QED BY <1>5 DEF BestCards, P

(* An event has a price if a card of some model it may fall back to applies.*)
LEMMA PricedByAny ==
    ASSUME CardsTyped, NEW tier, NEW day, NEW k \in DOMAIN Fallback,
           Applicable(Fallback[k], tier, day) # {}
    PROVE  RatesOf(tier, day) # {}
  <1> DEFINE usable == {n \in DOMAIN Fallback : Applicable(Fallback[n], tier, day) # {}}
  <1>1. DOMAIN Fallback = 1 .. Len(Fallback) /\ Len(Fallback) \in Nat
    BY RateCardsAssumption
  <1>2. PICK m \in usable : \A n \in usable : ~ (n < m)
    <2>1. usable \subseteq Nat /\ usable # {}
      BY <1>1
    <2> HIDE DEF usable
    <2>2. PICK m \in usable : \A n \in usable : <<n, m>> \notin OpToRel(<, Nat)
      BY <2>1, NatLessThanWellFounded, WFMin
    <2> QED BY <2>1, <2>2 DEF OpToRel
  <1>3. \A n \in 1 .. (m - 1) : Applicable(Fallback[n], tier, day) = {}
    BY <1>1, <1>2
  <1>4. PICK c : c \in BestCards(Fallback[m], tier, day)
    BY <1>2, BestIsThere
  <1> QED BY <1>2, <1>3, <1>4 DEF RatesOf

LEMMA PricedAfter ==
    \A tier, day : \A k \in DOMAIN Fallback :
        CardsTyped' /\ Applicable(Fallback[k], tier, day)' # {} => RatesOf(tier, day)' # {}
  <1>1. \A tier, day : \A k \in DOMAIN Fallback :
            CardsTyped /\ Applicable(Fallback[k], tier, day) # {} => RatesOf(tier, day) # {}
    BY PricedByAny
  <1>2. (\A tier, day : \A k \in DOMAIN Fallback :
            CardsTyped /\ Applicable(Fallback[k], tier, day) # {} => RatesOf(tier, day) # {})'
    BY <1>1, PTL
  <1> QED BY <1>2

(* What covered a day from the import on is there, or has been superseded  *)
(* by a card that covers it.                                               *)
LEMMA ImportedApplies ==
    ASSUME SingleRequest, RateInv, NEW r \in Requests, ApplyImport(r), NEW model, NEW tier,
           NEW day \in Days, day >= request[r].from, Applicable(model, tier, day) # {}
    PROVE  Applicable(model, tier, day)' # {}
  <1> DEFINE from == request[r].from
  <1>1. PICK id \in Applicable(model, tier, day) : TRUE
    OBVIOUS
  <1> DEFINE g == id[1]
             i == id[2]
  <1>2. /\ g \in Grains /\ i \in DOMAIN cards[g] /\ g.model = model /\ g.tier \in {tier, NoTier}
        /\ Covers(cards[g][i], day) /\ id = <<g, i>> /\ i \in 1 .. MaxCards
    BY <1>1 DEF Applicable
  <1>3. Len(cards[g]) \in Nat /\ Len(cards[g]) + 1 \in 1 .. MaxCards
    <2>1. cards[g] \in Seq(Cards) /\ Len(cards[g]) < MaxCards
      BY <1>2 DEF RateInv, CardsTyped, ApplyImport
    <2> QED BY <2>1, RateCardsAssumption
  <1>4. Imported(g, from)
    BY <1>2, ImportedGrain
  <1> HIDE DEF from
  <1>5. CASE i \in DOMAIN cards'[g] /\ cards'[g][i] = cards[g][i]
    <2>1. id \in Applicable(model, tier, day)'
      BY <1>2, <1>5 DEF Applicable
    <2> QED BY <2>1
  <1>6. CASE ~ (i \in DOMAIN cards'[g] /\ cards'[g][i] = cards[g][i])
    <2> DEFINE n == Len(cards[g]) + 1
    <2>1. n \in DOMAIN cards'[g] /\ cards'[g][n].to = NoEnd
      BY <1>2, <1>4, <1>6 DEF Imported
    <2>2. cards'[g][n].from = from
      <3>1. n \notin DOMAIN cards[g]
        <4>1. cards[g] \in Seq(Cards)
          BY <1>2 DEF RateInv, CardsTyped
        <4> QED BY <4>1
      <3> QED BY <1>4, <2>1, <3>1 DEF Imported
    <2>3. Covers(cards'[g][n], day)
      BY <2>1, <2>2, DayType DEF Covers, from
    <2>4. <<g, n>> \in Applicable(model, tier, day)'
      BY <1>2, <1>3, <2>1, <2>3 DEF Applicable
    <2> QED BY <2>4
  <1> QED BY <1>5, <1>6

LEMMA ImportedPrices ==
    ASSUME SingleRequest, RateInv, NEW r \in Requests, ApplyImport(r), NEW tier,
           NEW day \in Days, RatesOf(tier, day) # {}
    PROVE  RatesOf(tier, day)' # {}
  <1>1. request[r].from \in Days
    BY DEF RateInv, RequestsCurrent, ApplyImport
  <1>2. CASE day < request[r].from
    <2>1. day \in 1 .. (request[r].from - 1)
      BY <1>1, <1>2, RateCardsAssumption DEF Days
    <2> QED BY <2>1, ImportedPast
  <1>3. CASE day >= request[r].from
    <2>1. PICK k \in DOMAIN Fallback : Applicable(Fallback[k], tier, day) # {}
      BY DEF RatesOf, BestCards
    <2>2. Applicable(Fallback[k], tier, day)' # {}
      BY <1>3, <2>1, ImportedApplies
    <2>3. CardsTyped'
      BY ApplyImportInv DEF RateInv
    <2> QED BY <2>2, <2>3, PricedAfter
  <1> QED BY <1>1, <1>2, <1>3, RateCardsAssumption DEF Days

(* A request to apply an import only ends by being applied.                *)
LEMMA OnlyAnImport ==
    ASSUME SingleRequest, RateInv, RateNext, NEW r \in Requests, Applies(r)
    PROVE  ApplyImport(r)
  <1>1. /\ request[r] # None /\ request[r].kind = "apply" /\ request'[r] = None
        /\ DOMAIN request = Requests
    BY DEF Applies, RateInv, CardsTyped
  <1> QED BY <1>1
          DEF SingleRequest, RateNext, CheckOverlap, CreateCard, CloseCard, DryRun, CheckDigest, DayPasses

(* With one pricing request at a time a grain never has two open cards, so *)
(* "the" open card an import supersedes is unique                          *)
(* (services/pricing_import.py:102-121).                                   *)
THEOREM OneCardIsOpen ==
    ASSUME SingleRequest
    PROVE  RateSpec => []OneOpenCard
  <1>1. RateInv => OneOpenCard
    BY DEF RateInv
  <1> QED BY <1>1, RateInitInv, RateNextInv, PTL DEF RateSpec

(* An import never changes the price of a day before the one it takes      *)
(* effect on, whatever models, tiers and priorities the cards have         *)
(* (services/pricing_import.py:226-288, docs/architecture/pricing.md).     *)
THEOREM ImportsKeepThePast ==
    ASSUME SingleRequest
    PROVE  RateSpec => ImportKeepsThePast
  <1>1. ASSUME RateInv, [RateNext]_rateVars
        PROVE  [\A r \in Requests : Applies(r) =>
                   \A tier \in Queries, day \in 1 .. (request[r].from - 1) :
                       RatesOf(tier, day)' = RatesOf(tier, day)]_rateVars
    <2> SUFFICES ASSUME RateNext, NEW r \in Requests, Applies(r), NEW tier \in Queries,
                        NEW day \in 1 .. (request[r].from - 1)
                 PROVE  RatesOf(tier, day)' = RatesOf(tier, day)
      BY <1>1
    <2>1. ApplyImport(r)
      BY <1>1, OnlyAnImport
    <2> QED BY <1>1, <2>1, ImportedPast
  <1> QED BY <1>1, RateInitInv, RateNextInv, PTL DEF RateSpec, ImportKeepsThePast

(* An import leaves no day without a price that had one: what it closes it *)
(* also replaces (services/pricing_import.py:226-288).                     *)
THEOREM ImportsLeaveNoGap ==
    ASSUME SingleRequest
    PROVE  RateSpec => ImportLeavesNoGap
  <1>1. ASSUME RateInv, [RateNext]_rateVars
        PROVE  [\A r \in Requests : Applies(r) =>
                   \A tier \in Queries, day \in Days :
                       RatesOf(tier, day) # {} => RatesOf(tier, day)' # {}]_rateVars
    <2> SUFFICES ASSUME RateNext, NEW r \in Requests, Applies(r), NEW tier \in Queries,
                        NEW day \in Days, RatesOf(tier, day) # {}
                 PROVE  RatesOf(tier, day)' # {}
      BY <1>1
    <2>1. ApplyImport(r)
      BY <1>1, OnlyAnImport
    <2> QED BY <1>1, <2>1, ImportedPrices
  <1> QED BY <1>1, RateInitInv, RateNextInv, PTL DEF RateSpec, ImportLeavesNoGap

-----------------------------------------------------------------------------
(* Costs.  Reprices of two administrators may take the version back, and   *)
(* overwrite amounts of a version before the current one: the version that *)
(* bump_pricing_version reads is not locked (pricing_v2.py:45-55).         *)
OneAdministrator == \A j, k \in Jobs \ {Sweeper} : j = k

Active(e) == {v \in Versions : costs[e][v] # Absent /\ costs[e][v].active}

Wrote(t, e)   == {v \in Versions : t.wrote[e][v] # Absent}
Reads(t, e, v) == IF t.wrote[e][v] # Absent THEN t.wrote[e][v] ELSE costs[e][v]
Midway(t)     == t.phase \in {"lookup", "write", "activate"}
Touches(t, e) == t.event = e \/ Wrote(t, e) # {}

(* The phases of a job of each kind.                                       *)
InOrder(j, t) ==
    /\ t.kind = "sweep" <=> j = Sweeper
    /\ t.bumped => t.kind = "reprice"
    /\ t.kind = "reprice" => t.version = version + 1
    /\ t.event = Absent <=> t.phase \in {"version", "bump", "next"}
    /\ t.phase \in {"lookup", "write"} => t.kind # "revert"
    /\ t.phase = "activate" => t.kind = "revert"
    /\ t.phase = "bump" => t.kind = "reprice"

(* What it did not come to is as it found it.                              *)
Untouched(t) ==
    \A e \in Events :
        \/ t.phase \in {"version", "bump"}
        \/ t.phase = "deactivate" /\ t.event = e
        \/ e \in t.todo /\ t.event # e
        => Wrote(t, e) = {}

(* The rows it wrote hold the amounts they had, those of the version it    *)
(* prices excepted, and a revert has a row to go back to.                  *)
Faithful(t) ==
    /\ \A e \in Events : \A v \in Wrote(t, e) :
          v # t.version \/ t.kind = "revert" =>
              /\ costs[e][v] # Absent
              /\ costs[e][v].amount = t.wrote[e][v].amount
    /\ t.kind = "revert" /\ t.event # Absent => Reads(t, t.event, t.version) # Absent

(* Between the two statements of an event: it has deactivated, and not     *)
(* activated.  A row it has looked up and that another job has deactivated *)
(* since has left another active.                                          *)
Between(t) ==
    LET e == t.event
    IN  /\ Midway(t) =>
              /\ Wrote(t, e) \subseteq Active(e)
              /\ \A v \in Wrote(t, e) : ~ t.wrote[e][v].active
        /\ t.phase = "write" /\ t.found # Absent =>
              /\ Reads(t, e, t.version) # Absent
              /\ t.found.active => t.wrote[e][t.version] = Absent
              /\ t.found.active /\ t.version \notin Active(e) =>
                    Wrote(t, e) = {} /\ Active(e) # {}

(* An event it is done with has an active row among those it wrote, or it  *)
(* wrote an inactive row only.                                             *)
Finished(t) ==
    \A e \in Events : t.event # e /\ Wrote(t, e) # {} =>
        \/ \E v \in Wrote(t, e) : t.wrote[e][v].active
        \/ /\ Wrote(t, e) = {t.version}
           /\ t.version \notin Active(e)
           /\ Active(e) # {}

JobSound(j, t) ==
    InOrder(j, t) /\ Untouched(t) /\ Faithful(t) /\ Between(t) /\ Finished(t)

(* Two jobs: no row has two writers, ...                                   *)
NoSharedRow(t, u) == \A e \in Events : Wrote(t, e) \intersect Wrote(u, e) = {}

FoundAll(t, e) == t.phase = "deactivate" /\ t.event = e /\ t.seen = Active(e)

(* ... one that deactivates an event has found its active rows, or another *)
(* will stop or has stopped it ...                                         *)
FoundOrStopped(t, u) ==
    \A e \in Events : t.phase = "deactivate" /\ t.event = e /\ Touches(u, e) =>
        \/ t.seen = Active(e)
        \/ FoundAll(u, e)
        \/ Active(e) \subseteq Wrote(u, e)

(* ... and one that has deactivated rows of an event has them all, or the  *)
(* other waits for it.                                                     *)
HoldsAll(t, u) ==
    \A e \in Events : Midway(t) /\ t.event = e /\ Wrote(t, e) # {} /\ Touches(u, e) =>
        Active(e) \subseteq Wrote(t, e) \/ FoundAll(u, e)

Apart(t, u) == NoSharedRow(t, u) /\ FoundOrStopped(t, u) /\ HoldsAll(t, u)

CostsInv ==
    /\ TypeOK
    /\ \A j \in Jobs : Open(j) => JobSound(j, job[j])
    /\ \A j, k \in Jobs : j # k /\ Open(j) /\ Open(k) => Apart(job[j], job[k])

-----------------------------------------------------------------------------
(* Steps of one job.                                                       *)
LEMMA SameJob ==
    ASSUME UNCHANGED <<version, costs>>, NEW j, NEW t, JobSound(j, t)
    PROVE  JobSound(j, t)'
  BY DEF JobSound, InOrder, Untouched, Faithful, Between, Finished, Wrote, Reads, Active,
         Midway

LEMMA SamePair ==
    ASSUME UNCHANGED costs, NEW t, NEW u, Apart(t, u)
    PROVE  Apart(t, u)'
  BY DEF Apart, NoSharedRow, FoundOrStopped, HoldsAll, FoundAll, Wrote, Touches, Active,
         Midway

LEMMA JobPut ==
    ASSUME CostsInv, NEW j \in Jobs, NEW t \in JobRecords,
           job' = [job EXCEPT ![j] = t], UNCHANGED <<rate, finals, version, costs, failures>>,
           JobSound(j, t),
           \A k \in Jobs \ {j} : Open(k) => Apart(t, job[k]) /\ Apart(job[k], t)
    PROVE  CostsInv'
  <1>1. TypeOK'
    BY DEF CostsInv, TypeOK
  <1>2. job'[j] = t /\ \A k \in Jobs \ {j} : job'[k] = job[k]
    BY DEF CostsInv, TypeOK
  <1>3. ASSUME NEW k \in Jobs, Open(k)' PROVE JobSound(k, job[k])'
    <2>1. PICK u : u = job'[k]
      OBVIOUS
    <2>2. JobSound(k, u)
      BY <1>2, <1>3, <2>1 DEF CostsInv, Open
    <2>3. JobSound(k, u)'
      BY <2>2, SameJob
    <2> QED BY <2>1, <2>3 
  <1>4. ASSUME NEW k \in Jobs, NEW l \in Jobs, k # l, Open(k)', Open(l)'
        PROVE  Apart(job[k], job[l])'
    <2>1. PICK u, w : u = job'[k] /\ w = job'[l]
      OBVIOUS
    <2>2. Apart(u, w)
      BY <1>2, <1>4, <2>1 DEF CostsInv, Open
    <2>3. Apart(u, w)'
      BY <2>2, SamePair
    <2> QED BY <2>1, <2>3
  <1> QED BY <1>1, <1>3, <1>4 DEF CostsInv

LEMMA JobDrop ==
    ASSUME CostsInv, NEW j \in Jobs, job' = [job EXCEPT ![j] = Absent],
           UNCHANGED <<rate, finals, version, costs>>, failures' \in 0 .. MaxFailures
    PROVE  CostsInv'
  <1>1. TypeOK'
    BY DEF CostsInv, TypeOK
  <1>2. job'[j] = Absent /\ \A k \in Jobs \ {j} : job'[k] = job[k]
    BY DEF CostsInv, TypeOK
  <1>3. ASSUME NEW k \in Jobs, Open(k)' PROVE JobSound(k, job[k])'
    <2>1. PICK u : u = job'[k]
      OBVIOUS
    <2>2. JobSound(k, u)
      BY <1>2, <1>3, <2>1 DEF CostsInv, Open
    <2>3. JobSound(k, u)'
      BY <2>2, SameJob
    <2> QED BY <2>1, <2>3
  <1>4. ASSUME NEW k \in Jobs, NEW l \in Jobs, k # l, Open(k)', Open(l)'
        PROVE  Apart(job[k], job[l])'
    <2>1. PICK u, w : u = job'[k] /\ w = job'[l]
      OBVIOUS
    <2>2. Apart(u, w)
      BY <1>2, <1>4, <2>1 DEF CostsInv, Open
    <2>3. Apart(u, w)'
      BY <2>2, SamePair
    <2> QED BY <2>1, <2>3
  <1> QED BY <1>1, <1>3, <1>4 DEF CostsInv

LEMMA OpenJob ==
    ASSUME CostsInv, NEW j \in Jobs, Open(j)
    PROVE  job[j] \in JobRecords /\ JobSound(j, job[j])
  BY DEF CostsInv, TypeOK, Open

(* A job that wrote nothing and is at no event disturbs no other.          *)
LEMMA IdleApart ==
    ASSUME NEW t, NEW u, t.event = Absent, \A e \in Events : Wrote(t, e) = {}
    PROVE  Apart(t, u) /\ Apart(u, t)
  BY CostsAssumption DEF Apart, NoSharedRow, FoundOrStopped, HoldsAll, Touches

LEMMA IdleSound ==
    ASSUME NEW j, NEW t, t.event = Absent, \A e \in Events : Wrote(t, e) = {},
           t.kind = "sweep" <=> j = Sweeper,
           t.bumped => t.kind = "reprice",
           t.kind = "reprice" => t.version = version + 1,
           t.phase \in {"version", "bump", "next"}, t.phase = "bump" => t.kind = "reprice"
    PROVE  JobSound(j, t)
  BY CostsAssumption
     DEF JobSound, InOrder, Untouched, Faithful, Between, Finished, Midway

LEMMA IdlePut ==
    ASSUME CostsInv, NEW j \in Jobs, NEW t \in JobRecords,
           job' = [job EXCEPT ![j] = t], UNCHANGED <<rate, finals, version, costs, failures>>,
           t.event = Absent, \A e \in Events : Wrote(t, e) = {},
           t.kind = "sweep" <=> j = Sweeper,
           t.bumped => t.kind = "reprice",
           t.kind = "reprice" => t.version = version + 1,
           t.phase \in {"version", "bump", "next"}, t.phase = "bump" => t.kind = "reprice"
    PROVE  CostsInv'
  BY IdleSound, IdleApart, JobPut

LEMMA FreshJob ==
    ASSUME NEW kind \in {"sweep", "reprice", "revert"}, NEW v \in Versions,
           NEW phase \in {"version", "bump", "next"}
    PROVE  /\ Fresh(kind, v, phase) \in JobRecords
           /\ \A e \in Events : Wrote(Fresh(kind, v, phase), e) = {}
  BY DEF Fresh, JobRecords, Wrote, NoWrites, Amounts, Phases

LEMMA FreshWork ==
    ASSUME NEW f \in JobRecords, NEW todo \in SUBSET Events,
           \A e \in Events : Wrote(f, e) = {}
    PROVE  LET t == [f EXCEPT !.todo = todo]
           IN  /\ t \in JobRecords /\ t.event = f.event /\ t.kind = f.kind
               /\ t.phase = f.phase /\ t.bumped = f.bumped
               /\ \A e \in Events : Wrote(t, e) = {}
  BY DEF JobRecords, Wrote

LEMMA SweepSelectInv ==
    ASSUME CostsInv, NEW batch \in SUBSET Events, SweepSelect(batch)
    PROVE  CostsInv'
  <1> DEFINE f == Fresh("sweep", 1, "version")
             t == [f EXCEPT !.todo = batch]
  <1>1. 1 \in Versions
    BY CostsAssumption DEF Versions
  <1>2. t \in JobRecords /\ t.event = Absent /\ \A e \in Events : Wrote(t, e) = {}
    <2>1. f \in JobRecords /\ \A e \in Events : Wrote(f, e) = {}
      BY <1>1, FreshJob
    <2>2. f.event = Absent
      BY DEF Fresh
    <2> HIDE DEF f
    <2> QED BY <1>1, <2>1, <2>2, FreshWork
  <1>3. t.kind = "sweep" /\ t.phase = "version" /\ t.bumped = FALSE
    BY DEF Fresh
  <1>4. job' = [job EXCEPT ![Sweeper] = t] /\ UNCHANGED <<rate, finals, version, costs, failures>>
    BY DEF SweepSelect
  <1> HIDE DEF t
  <1> QED BY <1>2, <1>3, <1>4, IdlePut, CostsAssumption

LEMMA SweepVersionInv ==
    ASSUME CostsInv, SweepVersion
    PROVE  CostsInv'
  <1> DEFINE s == job[Sweeper]
             t == [s EXCEPT !.version = version, !.phase = "next"]
  <1>1. s \in JobRecords /\ JobSound(Sweeper, s) /\ s.phase = "version" /\ version \in Versions
    BY OpenJob, CostsAssumption DEF SweepVersion, In, CostsInv, TypeOK
  <1>2. s.kind = "sweep" /\ s.event = Absent /\ ~ s.bumped /\ \A e \in Events : Wrote(s, e) = {}
    BY <1>1 DEF JobSound, InOrder, Untouched, JobRecords
  <1>3. t \in JobRecords /\ t.event = Absent /\ \A e \in Events : Wrote(t, e) = {}
    BY <1>1, <1>2 DEF JobRecords, Wrote, Phases
  <1>4. t.kind = "sweep" /\ t.phase = "next" /\ ~ t.bumped
    BY <1>1, <1>2 DEF JobRecords
  <1>5. job' = [job EXCEPT ![Sweeper] = t] /\ UNCHANGED <<rate, finals, version, costs, failures>>
    BY <1>1, CostsAssumption DEF SweepVersion, CostsInv, TypeOK, JobRecords
  <1> HIDE DEF t
  <1> QED BY <1>3, <1>4, <1>5, IdlePut, CostsAssumption

LEMMA RepriceReadInv ==
    ASSUME CostsInv, NEW j \in Jobs, RepriceRead(j)
    PROVE  CostsInv'
  <1> DEFINE t == Fresh("reprice", version + 1, "bump")
  <1>1. version + 1 \in Versions
    BY CostsAssumption DEF RepriceRead, CostsInv, TypeOK, Versions
  <1>2. t \in JobRecords /\ \A e \in Events : Wrote(t, e) = {}
    BY <1>1, FreshJob
  <1>3. t.kind = "reprice" /\ t.phase = "bump" /\ t.version = version + 1 /\ t.event = Absent
    BY DEF Fresh
  <1>4. job' = [job EXCEPT ![j] = t] /\ UNCHANGED <<rate, finals, version, costs, failures>>
        /\ j # Sweeper
    BY DEF RepriceRead
  <1> HIDE DEF t
  <1> QED BY <1>2, <1>3, <1>4, IdlePut

LEMMA RepriceBumpInv ==
    ASSUME CostsInv, NEW j \in Jobs, NEW range \in SUBSET Events, RepriceBump(j, range)
    PROVE  CostsInv'
  <1> DEFINE s == job[j]
             t == [s EXCEPT !.bumped = TRUE, !.phase = "next", !.todo = finals \intersect range]
  <1>1. CASE Rollback(j)
    BY <1>1, JobDrop DEF Rollback, RepriceBump, CostsInv, TypeOK
  <1>2. CASE ~ Rollback(j)
    <2>1. s \in JobRecords /\ JobSound(j, s) /\ s.phase = "bump" /\ finals \subseteq Events
      BY OpenJob DEF RepriceBump, In, CostsInv, TypeOK
    <2>2. s.event = Absent /\ \A e \in Events : Wrote(s, e) = {}
      BY <2>1 DEF JobSound, InOrder, Untouched, JobRecords
    <2>3. t \in JobRecords /\ t.event = Absent /\ \A e \in Events : Wrote(t, e) = {}
      BY <2>1, <2>2 DEF JobRecords, Wrote, Phases
    <2>4. s.kind = "reprice"
      BY <2>1 DEF JobSound, InOrder
    <2>5. t.kind = "reprice" /\ t.version = version + 1 /\ t.phase = "next"
      BY <2>1, <2>4 DEF JobSound, InOrder, JobRecords
    <2>6. t.kind # "sweep" /\ j # Sweeper
      BY <2>1, <2>4, <2>5 DEF JobSound, InOrder
    <2>7. job' = [job EXCEPT ![j] = t] /\ UNCHANGED <<rate, finals, version, costs, failures>>
      BY <1>2, <2>1 DEF RepriceBump, CostsInv, TypeOK, JobRecords
    <2> HIDE DEF t
    <2> QED BY <2>3, <2>5, <2>6, <2>7, IdlePut
  <1> QED BY <1>1, <1>2

LEMMA RevertSelectInv ==
    ASSUME CostsInv, NEW j \in Jobs, NEW v \in Versions, NEW range \in SUBSET Events,
           RevertSelect(j, v, range)
    PROVE  CostsInv'
  <1> DEFINE f == Fresh("revert", v, "next")
             t == [f EXCEPT !.todo = finals \intersect range]
  <1>1. finals \intersect range \in SUBSET Events
    BY DEF CostsInv, TypeOK
  <1>2. t \in JobRecords /\ t.event = Absent /\ \A e \in Events : Wrote(t, e) = {}
    <2>1. f \in JobRecords /\ \A e \in Events : Wrote(f, e) = {}
      BY <1>1, FreshJob
    <2>2. f.event = Absent
      BY DEF Fresh
    <2> HIDE DEF f
    <2> QED BY <1>1, <2>1, <2>2, FreshWork
  <1>3. t.kind = "revert" /\ t.phase = "next" /\ ~ t.bumped
    BY DEF Fresh
  <1>4. job' = [job EXCEPT ![j] = t] /\ UNCHANGED <<rate, finals, version, costs, failures>>
        /\ j # Sweeper
    BY DEF RevertSelect
  <1> HIDE DEF t
  <1> QED BY <1>2, <1>3, <1>4, IdlePut

(* A job reads its own rows and those that were committed.                 *)
LEMMA OwnReads ==
    ASSUME NEW j \in Jobs, NEW e \in Events
    PROVE  /\ \A v \in Versions : CostRow(j, e, v) = Reads(job[j], e, v)
           /\ Wrote(job[j], e) = {} => ActiveSeen(j, e) = Active(e)
           /\ \A k \in Jobs \ {j} : \A v \in Versions :
                 ~ Locked(j, e, v) /\ Open(k) => v \notin Wrote(job[k], e)
  BY DEF CostRow, Reads, ActiveSeen, Active, Locked, LockedBy, Wrote

(* A revert passes over an event without a row to go back to.              *)
LEMMA TakeEventSkips ==
    ASSUME CostsInv, NEW j \in Jobs, NEW e \in Events, TakeEvent(j, e),
           job[j].kind = "revert" /\ CostRow(j, e, job[j].version) = Absent
    PROVE  CostsInv'
  <1> DEFINE s == job[j]
             t == [s EXCEPT !.todo = s.todo \ {e}]
  <1>1. s \in JobRecords /\ JobSound(j, s) /\ s.phase = "next"
    BY OpenJob DEF TakeEvent, In
  <1>2. job' = [job EXCEPT ![j] = t] /\ UNCHANGED <<rate, finals, version, costs, failures>>
    BY <1>1 DEF TakeEvent, CostsInv, TypeOK, JobRecords
  <1>3. /\ t \in JobRecords /\ t.kind = s.kind /\ t.phase = s.phase /\ t.version = s.version
        /\ t.bumped = s.bumped /\ t.event = s.event /\ t.seen = s.seen /\ t.found = s.found
        /\ t.wrote = s.wrote /\ t.todo = s.todo \ {e}
    BY <1>1 DEF JobRecords
  <1> HIDE DEF t
  <1>4. JobSound(j, t)
    BY <1>1, <1>3 DEF JobSound, InOrder, Untouched, Faithful, Between, Finished, Wrote, Reads,
                      Midway
  <1>5. ASSUME NEW k \in Jobs \ {j}, Open(k) PROVE Apart(t, job[k]) /\ Apart(job[k], t)
    <2>1. Apart(s, job[k]) /\ Apart(job[k], s)
      BY <1>5 DEF CostsInv, TakeEvent, In
    <2> QED BY <1>3, <2>1 DEF Apart, NoSharedRow, FoundOrStopped, HoldsAll, FoundAll, Wrote,
                              Touches, Midway
  <1> HIDE DEF s
  <1> QED BY <1>2, <1>3, <1>4, <1>5, JobPut

(* It finds the active rows of an event it has not touched yet.            *)
LEMMA TakeEventFinds ==
    ASSUME CostsInv, NEW j \in Jobs, NEW e \in Events, TakeEvent(j, e),
           ~ (job[j].kind = "revert" /\ CostRow(j, e, job[j].version) = Absent)
    PROVE  CostsInv'
  <1> DEFINE s == job[j]
             amount == IF s.kind = "revert" THEN Unpriced ELSE rate
             t == [s EXCEPT !.phase = "deactivate", !.event = e, !.seen = ActiveSeen(j, e),
                            !.amount = amount]
  <1>1. s \in JobRecords /\ JobSound(j, s) /\ s.phase = "next" /\ e \in s.todo
    BY OpenJob DEF TakeEvent, In
  <1>2. s.event = Absent /\ Wrote(s, e) = {} /\ e # Absent
    BY <1>1, CostsAssumption DEF JobSound, InOrder, Untouched
  <1>3. ActiveSeen(j, e) = Active(e) /\ ActiveSeen(j, e) \in SUBSET Versions /\ amount \in Amounts
    BY <1>2, OwnReads DEF ActiveSeen, CostsInv, TypeOK, Amounts
  <1>4. job' = [job EXCEPT ![j] = t] /\ UNCHANGED <<rate, finals, version, costs, failures>>
    BY <1>1 DEF TakeEvent, CostsInv, TypeOK, JobRecords
  <1>5. /\ t \in JobRecords /\ t.kind = s.kind /\ t.phase = "deactivate"
        /\ t.version = s.version /\ t.bumped = s.bumped /\ t.event = e /\ t.seen = Active(e)
        /\ t.wrote = s.wrote /\ t.todo = s.todo
    BY <1>1, <1>3 DEF JobRecords, Phases
  <1>6. t.kind = "revert" => Reads(t, e, t.version) # Absent
    <2>1. Reads(t, e, t.version) = CostRow(j, e, s.version)
      BY <1>5 DEF Reads, CostRow
    <2> QED BY <1>5, <2>1
  <1> HIDE DEF t
  <1>7. JobSound(j, t)
    <2>1. InOrder(j, t)
      BY <1>1, <1>2, <1>5 DEF JobSound, InOrder
    <2>2. Untouched(t)
      BY <1>1, <1>2, <1>5, CostsAssumption DEF JobSound, Untouched, Wrote
    <2>3. Faithful(t)
      BY <1>1, <1>2, <1>5, <1>6 DEF JobSound, Faithful, Wrote
    <2>4. Between(t)
      BY <1>5 DEF Between, Midway
    <2>5. Finished(t)
      BY <1>1, <1>2, <1>5, CostsAssumption DEF JobSound, Finished, Wrote
    <2> QED BY <2>1, <2>2, <2>3, <2>4, <2>5 DEF JobSound
  <1>8. ASSUME NEW k \in Jobs \ {j}, Open(k) PROVE Apart(t, job[k]) /\ Apart(job[k], t)
    <2>1. Apart(s, job[k]) /\ Apart(job[k], s)
      BY <1>8 DEF CostsInv, TakeEvent, In
    <2>2. NoSharedRow(t, job[k]) /\ NoSharedRow(job[k], t)
      BY <1>5, <2>1 DEF Apart, NoSharedRow, Wrote
    <2>3. FoundOrStopped(t, job[k]) /\ HoldsAll(t, job[k])
      BY <1>5 DEF FoundOrStopped, HoldsAll, Midway
    <2>4. FoundOrStopped(job[k], t) /\ HoldsAll(job[k], t)
      BY <1>1, <1>2, <1>5, <2>1, CostsAssumption
         DEF Apart, FoundOrStopped, HoldsAll, FoundAll, Touches, Wrote
    <2> QED BY <2>2, <2>3, <2>4 DEF Apart
  <1> HIDE DEF s
  <1> QED BY <1>4, <1>5, <1>7, <1>8, JobPut

LEMMA TakeEventInv ==
    ASSUME CostsInv, NEW j \in Jobs, NEW e \in Events, TakeEvent(j, e)
    PROVE  CostsInv'
  BY TakeEventSkips, TakeEventFinds

LEMMA LookUpInv ==
    ASSUME CostsInv, NEW j \in Jobs, LookUp(j)
    PROVE  CostsInv'
  <1> DEFINE s == job[j]
             found == CostRow(j, s.event, s.version)
             t == [s EXCEPT !.found = found, !.phase = "write"]
  <1>1. s \in JobRecords /\ JobSound(j, s) /\ s.phase = "lookup"
    BY OpenJob DEF LookUp, In
  <1>2. s.event \in Events /\ s.version \in Versions
    BY <1>1 DEF JobSound, InOrder, JobRecords
  <1>3. found \in CostRows \union {Absent} /\ found = Reads(s, s.event, s.version)
    BY <1>1, <1>2, OwnReads DEF CostRow, JobRecords, CostsInv, TypeOK
  <1>4. job' = [job EXCEPT ![j] = t] /\ UNCHANGED <<rate, finals, version, costs, failures>>
    BY <1>1 DEF LookUp, CostsInv, TypeOK, JobRecords
  <1>5. /\ t \in JobRecords /\ t.kind = s.kind /\ t.phase = "write"
        /\ t.version = s.version /\ t.bumped = s.bumped /\ t.event = s.event /\ t.seen = s.seen
        /\ t.wrote = s.wrote /\ t.todo = s.todo /\ t.found = found
    BY <1>1, <1>3 DEF JobRecords, Phases
  <1> HIDE DEF t, found
  <1>6. JobSound(j, t)
    <2>1. InOrder(j, t) /\ Untouched(t) /\ Faithful(t) /\ Finished(t)
      BY <1>1, <1>5 DEF JobSound, InOrder, Untouched, Faithful, Finished, Wrote, Reads
    <2>2. \A v \in Wrote(s, s.event) : v \in Active(s.event) /\ ~ s.wrote[s.event][v].active
      BY <1>1 DEF JobSound, Between, Midway
    <2>3. found.active /\ found # Absent =>
             s.wrote[s.event][s.version] = Absent /\ s.version \in Active(s.event)
      BY <1>2, <1>3, <2>2 DEF Reads, Wrote, Active
    <2>4. Between(t)
      BY <1>2, <1>3, <1>5, <2>2, <2>3 DEF Between, Wrote, Reads
    <2> QED BY <2>1, <2>4 DEF JobSound
  <1>7. ASSUME NEW k \in Jobs \ {j}, Open(k) PROVE Apart(t, job[k]) /\ Apart(job[k], t)
    <2>1. Apart(s, job[k]) /\ Apart(job[k], s)
      BY <1>7 DEF CostsInv, LookUp, In
    <2> QED BY <1>1, <1>5, <2>1 DEF Apart, NoSharedRow, FoundOrStopped, HoldsAll, FoundAll,
                                    Wrote, Touches, Midway
  <1> HIDE DEF s
  <1> QED BY <1>4, <1>5, <1>6, <1>7, JobPut

(* The UPDATE that deactivates: the rows it found that are still active,   *)
(* none of which another job has written.                                  *)
LEMMA DeactivateOthersInv ==
    ASSUME CostsInv, NEW j \in Jobs, DeactivateOthers(j)
    PROVE  CostsInv'
  <1> DEFINE s == job[j]
             e == s.event
             still == s.seen \intersect ActiveSeen(j, e)
             left == [v \in Versions |->
                         IF v \in still THEN [CostRow(j, e, v) EXCEPT !.active = FALSE]
                         ELSE s.wrote[e][v]]
             after == IF s.kind = "revert" THEN "activate" ELSE "lookup"
             t == [s EXCEPT !.phase = after, !.seen = {}, !.found = Absent, !.wrote[e] = left]
  <1>1. s \in JobRecords /\ JobSound(j, s) /\ s.phase = "deactivate"
    BY OpenJob DEF DeactivateOthers, In
  <1>2. e \in Events /\ s.version \in Versions /\ Wrote(s, e) = {} /\ s.seen \subseteq Versions
    BY <1>1 DEF JobSound, InOrder, Untouched, JobRecords
  <1>3. still = s.seen \intersect Active(e)
    BY <1>2, OwnReads
  <1>4. \A k \in Jobs \ {j} : Open(k) => still \intersect Wrote(job[k], e) = {}
    BY <1>2, OwnReads DEF DeactivateOthers
  <1>5. \A v \in still : /\ costs[e][v] \in CostRows /\ costs[e][v] # Absent
                         /\ CostRow(j, e, v) = costs[e][v]
    BY <1>2, <1>3 DEF Active, Wrote, CostRow, CostsInv, TypeOK
  <1>6. \A v \in still : /\ left[v] \in CostRows /\ left[v] # Absent
                         /\ left[v].amount = costs[e][v].amount /\ ~ left[v].active
    <2> TAKE v \in still
    <2>1. v \in Versions /\ costs[e][v] \in CostRows /\ CostRow(j, e, v) = costs[e][v]
      BY <1>2, <1>5
    <2>2. left[v] = [costs[e][v] EXCEPT !.active = FALSE]
      BY <2>1
    <2> QED BY <2>1, <2>2, CostsAssumption DEF CostRows
  <1>7. \A v \in Versions \ still : left[v] = Absent
    BY <1>2 DEF Wrote
  <1>8. left \in [Versions -> CostRows \union {Absent}]
    BY <1>6, <1>7
  <1>9. job' = [job EXCEPT ![j] = t] /\ UNCHANGED <<rate, finals, version, costs, failures>>
    BY <1>1, <1>2 DEF DeactivateOthers, CostsInv, TypeOK, JobRecords
  <1> HIDE DEF left, after
  <1>10. /\ t \in JobRecords /\ t.kind = s.kind /\ t.phase = after
         /\ t.version = s.version /\ t.bumped = s.bumped /\ t.event = e
         /\ t.todo = s.todo /\ t.found = Absent
         /\ t.wrote = [s.wrote EXCEPT ![e] = left]
    BY <1>1, <1>2, <1>8 DEF JobRecords, Phases, after
  <1>11. t.wrote[e] = left /\ \A f \in Events \ {e} : t.wrote[f] = s.wrote[f]
    BY <1>1, <1>2, <1>10 DEF JobRecords
  <1>12. Wrote(t, e) = still
    BY <1>2, <1>6, <1>7, <1>11 DEF Wrote
  <1>13. \A f \in Events \ {e} : Wrote(t, f) = Wrote(s, f)
    BY <1>11 DEF Wrote
  <1>14. Midway(t) /\ t.phase \notin {"version", "bump", "next", "deactivate", "write"}
    BY <1>10 DEF Midway, after
  <1> HIDE DEF t
  <1>15. JobSound(j, t)
    <2>1. InOrder(j, t)
      BY <1>1, <1>10 DEF JobSound, InOrder, after
    <2>2. Untouched(t)
      BY <1>1, <1>10, <1>13, <1>14 DEF JobSound, Untouched
    <2>3. Faithful(t)
      <3>1. ASSUME NEW f \in Events, NEW v \in Wrote(t, f), v # t.version \/ t.kind = "revert"
            PROVE  costs[f][v] # Absent /\ costs[f][v].amount = t.wrote[f][v].amount
        <4>1. CASE f = e
          BY <1>5, <1>6, <1>11, <1>12, <3>1, <4>1
        <4>2. CASE f # e
          BY <1>1, <1>10, <1>11, <1>13, <3>1, <4>2 DEF JobSound, Faithful
        <4> QED BY <4>1, <4>2
      <3>2. ASSUME t.kind = "revert" PROVE Reads(t, e, t.version) # Absent
        <4>1. Reads(s, e, s.version) # Absent
          BY <1>1, <1>2, <1>10, <3>2, CostsAssumption DEF JobSound, Faithful
        <4>2. costs[e][s.version] # Absent
          BY <1>2, <4>1 DEF Reads, Wrote
        <4> QED BY <1>10, <4>2 DEF Reads
      <3> QED BY <1>10, <3>1, <3>2 DEF Faithful
    <2>4. Between(t)
      BY <1>3, <1>6, <1>10, <1>11, <1>12, <1>14 DEF Between
    <2>5. Finished(t)
      BY <1>1, <1>10, <1>11, <1>13 DEF JobSound, Finished
    <2> QED BY <2>1, <2>2, <2>3, <2>4, <2>5 DEF JobSound
  <1>16. ASSUME NEW k \in Jobs \ {j}, Open(k) PROVE Apart(t, job[k]) /\ Apart(job[k], t)
    <2> DEFINE u == job[k]
    <2>1. Apart(s, u) /\ Apart(u, s)
      BY <1>16 DEF CostsInv, DeactivateOthers, In
    <2>2. still \intersect Wrote(u, e) = {}
      BY <1>4, <1>16
    <2>3. JobSound(k, u)
      BY <1>16, OpenJob
    <2> HIDE DEF u, s, still
    <2>4. NoSharedRow(t, u) /\ NoSharedRow(u, t)
      BY <1>12, <1>13, <2>1, <2>2 DEF Apart, NoSharedRow
    <2>5. FoundOrStopped(t, u)
      BY <1>14 DEF FoundOrStopped
    <2>6. HoldsAll(t, u)
      <3> SUFFICES ASSUME still # {}, Touches(u, e)
                   PROVE  Active(e) \subseteq still \/ FoundAll(u, e)
        BY <1>10, <1>12 DEF HoldsAll
      <3>1. \/ s.seen = Active(e)
            \/ FoundAll(u, e)
            \/ Active(e) \subseteq Wrote(u, e)
        BY <1>1, <1>2, <2>1 DEF Apart, FoundOrStopped
      <3> QED BY <1>3, <2>2, <3>1
    <2>7. FoundOrStopped(u, t)
      <3> SUFFICES ASSUME u.phase = "deactivate", u.event = e
                   PROVE  u.seen = Active(e) \/ Active(e) \subseteq still
        BY <1>10, <1>12, <1>13, <2>1 DEF FoundOrStopped, Apart, Touches, FoundAll
      <3>1. Touches(s, e)
        BY DEF Touches
      <3>2. u.seen = Active(e) \/ FoundAll(s, e) \/ Active(e) \subseteq Wrote(s, e)
        BY <1>2, <2>1, <3>1 DEF Apart, FoundOrStopped
      <3> QED BY <1>2, <1>3, <3>2 DEF FoundAll
    <2>8. HoldsAll(u, t)
      <3> SUFFICES ASSUME Midway(u), u.event = e, Wrote(u, e) # {}
                   PROVE  Active(e) \subseteq Wrote(u, e)
        BY <1>10, <1>12, <1>13, <2>1 DEF HoldsAll, Apart, Touches, FoundAll
      <3>1. Touches(s, e)
        BY DEF Touches
      <3>2. Active(e) \subseteq Wrote(u, e) \/ FoundAll(s, e)
        BY <1>2, <2>1, <3>1 DEF Apart, HoldsAll
      <3>3. Wrote(u, e) \subseteq Active(e)
        BY <2>3 DEF JobSound, Between
      <3> QED BY <1>3, <2>2, <3>2, <3>3 DEF FoundAll
    <2> QED BY <2>4, <2>5, <2>6, <2>7, <2>8 DEF Apart, u
  <1> HIDE DEF s
  <1> QED BY <1>9, <1>10, <1>15, <1>16, JobPut

(* The row a job writes last for an event: its own from now on, active or  *)
(* beside another active row.                                              *)
LEMMA DoneInv ==
    ASSUME CostsInv, NEW j \in Jobs, NEW row \in CostRows,
           Open(j), job[j].phase \in {"write", "activate"},
           ~ Locked(j, job[j].event, job[j].version),
           Done(j, row), UNCHANGED <<rate, finals, version, costs, failures>>,
           LET s == job[j]
               e == s.event
           IN  /\ s.kind = "revert" => /\ costs[e][s.version] # Absent
                                       /\ row.amount = costs[e][s.version].amount
               /\ ~ row.active => /\ Wrote(s, e) = {}
                                  /\ s.version \notin Active(e)
                                  /\ Active(e) # {}
    PROVE  CostsInv'
  <1> DEFINE s == job[j]
             e == s.event
             wrote == [s.wrote EXCEPT ![e][s.version] = row]
             t == [s EXCEPT !.phase = "next", !.todo = s.todo \ {e}, !.event = Absent,
                            !.seen = {}, !.amount = Unpriced, !.found = Absent,
                            !.wrote = wrote]
  <1>1. s \in JobRecords /\ JobSound(j, s)
    BY OpenJob
  <1>2. e \in Events /\ s.version \in Versions /\ Midway(s)
    BY <1>1 DEF JobSound, InOrder, JobRecords, Midway
  <1>3. wrote \in [Events -> [Versions -> CostRows \union {Absent}]]
    BY <1>1, <1>2 DEF JobRecords
  <1>4. job' = [job EXCEPT ![j] = t]
    BY <1>1 DEF Done, Write, CostsInv, TypeOK, JobRecords
  <1>5. /\ wrote[e][s.version] = row
        /\ \A v \in Versions \ {s.version} : wrote[e][v] = s.wrote[e][v]
        /\ \A f \in Events \ {e} : wrote[f] = s.wrote[f]
    BY <1>1, <1>2 DEF JobRecords
  <1> HIDE DEF wrote
  <1>6. /\ t \in JobRecords /\ t.kind = s.kind /\ t.phase = "next"
        /\ t.version = s.version /\ t.bumped = s.bumped /\ t.event = Absent
        /\ t.todo = s.todo \ {e} /\ t.found = Absent /\ t.wrote = wrote
    BY <1>1, <1>3 DEF JobRecords, Phases, Amounts
  <1> HIDE DEF t
  <1>7. Wrote(t, e) = Wrote(s, e) \union {s.version}
    BY <1>2, <1>5, <1>6, CostsAssumption DEF Wrote
  <1>8. \A f \in Events \ {e} : Wrote(t, f) = Wrote(s, f)
    BY <1>5, <1>6 DEF Wrote
  <1>9. JobSound(j, t)
    <2>1. InOrder(j, t)
      BY <1>1, <1>6 DEF JobSound, InOrder
    <2>2. Untouched(t)
      BY <1>1, <1>6, <1>8 DEF JobSound, Untouched
    <2>3. Faithful(t)
      <3>1. ASSUME NEW f \in Events, NEW v \in Wrote(t, f), v # t.version \/ t.kind = "revert"
            PROVE  costs[f][v] # Absent /\ costs[f][v].amount = t.wrote[f][v].amount
        <4>1. CASE f = e /\ v = s.version
          BY <1>5, <1>6, <3>1, <4>1
        <4>2. CASE f = e /\ v # s.version
          <5>1. v \in Wrote(s, e) /\ v \in Versions
            BY <1>7, <3>1, <4>2 DEF Wrote
          <5> QED BY <1>1, <1>2, <1>5, <1>6, <4>2, <5>1 DEF JobSound, Faithful
        <4>3. CASE f # e
          BY <1>1, <1>5, <1>6, <1>8, <3>1, <4>3 DEF JobSound, Faithful
        <4> QED BY <4>1, <4>2, <4>3
      <3> QED BY <1>6, <3>1 DEF Faithful
    <2>4. Between(t)
      BY <1>6 DEF Between, Midway
    <2>5. Finished(t)
      <3> SUFFICES ASSUME NEW f \in Events, Wrote(t, f) # {}
                   PROVE  \/ \E v \in Wrote(t, f) : t.wrote[f][v].active
                          \/ /\ Wrote(t, f) = {t.version}
                             /\ t.version \notin Active(f)
                             /\ Active(f) # {}
        BY DEF Finished
      <3>1. CASE f = e
        BY <1>5, <1>6, <1>7, <3>1
      <3>2. CASE f # e
        BY <1>1, <1>5, <1>6, <1>8, <3>2 DEF JobSound, Finished
      <3> QED BY <3>1, <3>2
    <2> QED BY <2>1, <2>2, <2>3, <2>4, <2>5 DEF JobSound
  <1>10. ASSUME NEW k \in Jobs \ {j}, Open(k) PROVE Apart(t, job[k]) /\ Apart(job[k], t)
    <2> DEFINE u == job[k]
    <2>1. Apart(s, u) /\ Apart(u, s)
      BY <1>10 DEF CostsInv
    <2>2. s.version \notin Wrote(u, e)
      BY <1>2, <1>10, OwnReads
    <2> HIDE DEF u, s
    <2>3. NoSharedRow(t, u) /\ NoSharedRow(u, t)
      BY <1>7, <1>8, <2>1, <2>2 DEF Apart, NoSharedRow
    <2>4. FoundOrStopped(t, u) /\ HoldsAll(t, u)
      BY <1>6 DEF FoundOrStopped, HoldsAll, Midway
    <2>5. \A f \in Events : /\ Touches(t, f) => Touches(s, f)
                            /\ ~ FoundAll(s, f)
                            /\ Wrote(s, f) \subseteq Wrote(t, f)
      BY <1>2, <1>6, <1>7, <1>8, CostsAssumption DEF Touches, FoundAll, Midway
    <2>6. FoundOrStopped(u, t) /\ HoldsAll(u, t)
      BY <2>1, <2>5 DEF Apart, FoundOrStopped, HoldsAll
    <2> QED BY <2>3, <2>4, <2>6 DEF Apart, u
  <1> HIDE DEF s
  <1> QED BY <1>4, <1>6, <1>9, <1>10, JobPut

LEMMA UpdateCostInv ==
    ASSUME CostsInv, NEW j \in Jobs, UpdateCost(j)
    PROVE  CostsInv'
  <1> DEFINE s == job[j]
             e == s.event
             old == CostRow(j, e, s.version)
             row == [amount |-> s.amount, active |-> old.active \/ ~ s.found.active]
  <1>1. s \in JobRecords /\ JobSound(j, s) /\ s.phase = "write" /\ s.found # Absent
    BY OpenJob DEF UpdateCost, In
  <1>2. e \in Events /\ s.version \in Versions /\ s.kind # "revert"
    BY <1>1 DEF JobSound, InOrder, JobRecords
  <1>3. old = Reads(s, e, s.version) /\ old # Absent
    BY <1>1, <1>2, OwnReads DEF JobSound, Between
  <1>4. old \in CostRows /\ s.found \in CostRows
    BY <1>1, <1>2, <1>3 DEF CostRow, JobRecords, CostsInv, TypeOK
  <1>5. row \in CostRows
    BY <1>1, <1>4 DEF CostRows, JobRecords
  <1>6. ~ row.active => Wrote(s, e) = {} /\ s.version \notin Active(e) /\ Active(e) # {}
    <2> SUFFICES ASSUME ~ row.active
                 PROVE  Wrote(s, e) = {} /\ s.version \notin Active(e) /\ Active(e) # {}
      OBVIOUS
    <2>1. ~ old.active /\ s.found.active
      OBVIOUS
    <2>2. s.wrote[e][s.version] = Absent
      BY <1>1, <2>1 DEF JobSound, Between
    <2>3. s.version \notin Active(e)
      BY <1>3, <2>1, <2>2 DEF Reads, Active
    <2> QED BY <1>1, <2>1, <2>3 DEF JobSound, Between
  <1>7. /\ ~ Locked(j, e, s.version) /\ Done(j, row) /\ Open(j)
        /\ UNCHANGED <<rate, finals, version, costs, failures>>
    BY DEF UpdateCost, In
  <1> HIDE DEF row
  <1> QED BY <1>1, <1>2, <1>5, <1>6, <1>7, DoneInv

LEMMA InsertCostInv ==
    ASSUME CostsInv, NEW j \in Jobs, InsertCost(j)
    PROVE  CostsInv'
  <1> DEFINE s == job[j]
             row == [amount |-> s.amount, active |-> TRUE]
  <1>1. CASE Rollback(j)
    BY <1>1, JobDrop DEF Rollback, InsertCost, CostsInv, TypeOK
  <1>2. CASE ~ Rollback(j)
    <2>1. s \in JobRecords /\ JobSound(j, s) /\ s.phase = "write" /\ Open(j)
      BY OpenJob DEF InsertCost, In
    <2>2. s.kind # "revert" /\ row \in CostRows
      BY <2>1 DEF JobSound, InOrder, JobRecords, CostRows
    <2>3. /\ ~ Locked(j, s.event, s.version) /\ Done(j, row)
          /\ UNCHANGED <<rate, finals, version, costs, failures>>
      BY <1>2 DEF InsertCost
    <2> QED BY <2>1, <2>2, <2>3, DoneInv
  <1> QED BY <1>1, <1>2

LEMMA ReactivateInv ==
    ASSUME CostsInv, NEW j \in Jobs, Reactivate(j)
    PROVE  CostsInv'
  <1> DEFINE s == job[j]
             e == s.event
             old == CostRow(j, e, s.version)
             row == [old EXCEPT !.active = TRUE]
  <1>1. s \in JobRecords /\ JobSound(j, s) /\ s.phase = "activate" /\ Open(j)
    BY OpenJob DEF Reactivate, In
  <1>2. e \in Events /\ e # Absent /\ s.version \in Versions /\ s.kind = "revert"
    BY <1>1, CostsAssumption DEF JobSound, InOrder, JobRecords
  <1>3. old = Reads(s, e, s.version) /\ old # Absent
    BY <1>1, <1>2, OwnReads DEF JobSound, Faithful
  <1>4. old \in CostRows
    BY <1>1, <1>2, <1>3 DEF CostRow, JobRecords, CostsInv, TypeOK
  <1>5. costs[e][s.version] # Absent /\ old.amount = costs[e][s.version].amount
    BY <1>1, <1>2, <1>3 DEF JobSound, Faithful, Reads, Wrote
  <1>6. row \in CostRows /\ row.active /\ row.amount = old.amount
    BY <1>4 DEF CostRows
  <1>7. /\ ~ Locked(j, e, s.version) /\ Done(j, row)
        /\ UNCHANGED <<rate, finals, version, costs, failures>>
    BY DEF Reactivate
  <1> HIDE DEF row
  <1> QED BY <1>1, <1>5, <1>6, <1>7, DoneInv

(* A commit: the rows of the job become those of the events, ...           *)
LEMMA Committed ==
    ASSUME CostsInv, NEW j \in Jobs, Commit(j), NEW s, s = job[j]
    PROVE  /\ s \in JobRecords /\ JobSound(j, s)
           /\ \A e \in Events : s.event # e
           /\ ~ Midway(s) /\ s.phase # "deactivate"
           /\ costs' \in [Events -> [Versions -> CostRows \union {Absent}]]
           /\ \A e \in Events, v \in Versions : costs'[e][v] = Reads(s, e, v)
           /\ \A e \in Events : \A v \in Versions \ Wrote(s, e) : costs'[e][v] = costs[e][v]
  <1>1. s \in JobRecords /\ JobSound(j, s) /\ s.phase = "next"
    BY OpenJob DEF Commit, In
  <1>2. \A e \in Events : s.event # e
    BY <1>1, CostsAssumption DEF JobSound, InOrder
  <1>3. \A e \in Events, v \in Versions : CostRow(j, e, v) \in CostRows \union {Absent}
    BY <1>1 DEF CostRow, JobRecords, CostsInv, TypeOK
  <1>4. costs' = [e \in Events |-> [v \in Versions |-> CostRow(j, e, v)]]
    BY DEF Commit
  <1>5. \A e \in Events, v \in Versions : costs'[e][v] = Reads(s, e, v)
    BY <1>4 DEF CostRow, Reads
  <1> QED BY <1>1, <1>2, <1>3, <1>4, <1>5 DEF Wrote, Reads, Midway

(* ... and an event that has an active row keeps one.                      *)
LEMMA CommitKeepsActive ==
    ASSUME CostsInv, NEW j \in Jobs, Commit(j), NEW e \in Events, Active(e) # {}
    PROVE  Active(e)' # {}
  <1>1. PICK s : s = job[j]
    OBVIOUS
  <1>2. PICK v \in Active(e) : TRUE
    OBVIOUS
  <1>3. v \in Versions /\ costs[e][v] # Absent /\ costs[e][v].active
    BY <1>2 DEF Active
  <1>4. CASE v \notin Wrote(s, e)
    BY <1>1, <1>3, <1>4, Committed DEF Active
  <1>5. CASE Wrote(s, e) # {} /\ \E w \in Wrote(s, e) : s.wrote[e][w].active
    BY <1>1, <1>5, Committed DEF Active, Reads, Wrote
  <1>6. CASE v \in Wrote(s, e) /\ ~ \E w \in Wrote(s, e) : s.wrote[e][w].active
    <2>1. Wrote(s, e) = {s.version} /\ s.version \notin Active(e)
      BY <1>1, <1>6, Committed DEF JobSound, Finished
    <2> QED BY <1>2, <1>6, <2>1
  <1> QED BY <1>4, <1>5, <1>6

(* The other job goes on as if alone: its rows are no one else's, and the  *)
(* pricing version is raised by the one administrator only.                *)
LEMMA CommitSound ==
    ASSUME OneAdministrator, CostsInv, NEW j \in Jobs, Commit(j),
           NEW k \in Jobs \ {j}, Open(k), NEW u, u = job[k]
    PROVE  JobSound(k, u)'
  <1>1. PICK s : s = job[j]
    OBVIOUS
  <1>2. JobSound(k, u) /\ u \in JobRecords
    BY OpenJob
  <1>3. Apart(u, s)
    BY <1>1 DEF CostsInv, Commit, In
  <1>4. \A e \in Events : \A v \in Wrote(u, e) : costs'[e][v] = costs[e][v]
    BY <1>1, <1>3, Committed DEF Apart, NoSharedRow, Wrote
  <1>5. \A e \in Events, v \in Versions : costs[e][v] # Absent => costs'[e][v] # Absent
    BY <1>1, Committed DEF Reads
  <1>6. InOrder(k, u)'
    <2>1. u.kind = "reprice" => version' = version
      <3>1. u.kind = "reprice" => k # Sweeper
        BY <1>2 DEF JobSound, InOrder
      <3>2. s.bumped => j # Sweeper
        BY <1>1, Committed DEF JobSound, InOrder
      <3> QED BY <1>1, <3>1, <3>2 DEF Commit, OneAdministrator
    <2> QED BY <1>2, <2>1 DEF JobSound, InOrder
  <1>7. Untouched(u)'
    BY <1>2 DEF JobSound, Untouched, Wrote
  <1>8. Faithful(u)'
    <2>1. u.kind = "revert" /\ u.event # Absent => Reads(u, u.event, u.version)' # Absent
      <3>1. u.event # Absent => u.event \in Events /\ u.version \in Versions
        BY <1>2 DEF JobRecords
      <3> QED BY <1>2, <1>5, <3>1 DEF JobSound, Faithful, Reads
    <2> QED BY <1>2, <1>4, <2>1 DEF JobSound, Faithful, Wrote
  <1>9. Finished(u)'
    <2> SUFFICES ASSUME NEW e \in Events, u.event # e, Wrote(u, e) # {}
                 PROVE  \/ \E v \in Wrote(u, e) : u.wrote[e][v].active
                        \/ /\ Wrote(u, e) = {u.version}
                           /\ u.version \notin Active(e)'
                           /\ Active(e)' # {}
      BY DEF Finished, Wrote
    <2>1. \/ \E v \in Wrote(u, e) : u.wrote[e][v].active
          \/ Wrote(u, e) = {u.version} /\ u.version \notin Active(e) /\ Active(e) # {}
      BY <1>2 DEF JobSound, Finished
    <2> QED BY <1>4, <2>1, CommitKeepsActive DEF Active
  <1>10. Between(u)'
    <2> DEFINE e == u.event
    <2>1. CASE ~ Midway(u)
      BY <2>1 DEF Between, Midway
    <2>2. CASE Midway(u)
      <3>1. e \in Events /\ u.version \in Versions
        BY <1>2, <2>2 DEF JobSound, InOrder, JobRecords, Midway
      <3>2. Wrote(u, e) \subseteq Active(e) /\ \A v \in Wrote(u, e) : ~ u.wrote[e][v].active
        BY <1>2, <2>2 DEF JobSound, Between
      <3>3. Wrote(u, e) \subseteq Active(e)'
        BY <1>4, <3>1, <3>2 DEF Active
      <3>4. ASSUME u.phase = "write", u.found # Absent
            PROVE  /\ Reads(u, e, u.version)' # Absent
                   /\ u.found.active => u.wrote[e][u.version] = Absent
        BY <1>2, <1>5, <3>1, <3>4 DEF JobSound, Between, Reads
      <3>5. ASSUME u.phase = "write", u.found # Absent, u.found.active,
                   u.version \notin Active(e)'
            PROVE  Wrote(u, e) = {} /\ Active(e)' # {}
        <4>1. /\ u.wrote[e][u.version] = Absent
              /\ u.version \notin Active(e) => Wrote(u, e) = {} /\ Active(e) # {}
          BY <1>2, <3>5 DEF JobSound, Between
        <4>2. CASE u.version \notin Active(e)
          BY <3>1, <4>1, <4>2, CommitKeepsActive
        <4>3. CASE u.version \in Active(e)
          <5>1. Touches(s, e)
            BY <1>1, <3>1, <3>5, <4>3, Committed DEF Active, Touches, Reads
          <5>2. Wrote(u, e) # {} => Active(e) \subseteq Wrote(u, e)
            BY <1>1, <1>3, <2>2, <3>1, <5>1, Committed DEF Apart, HoldsAll, FoundAll
          <5>3. u.version \notin Wrote(u, e)
            BY <4>1 DEF Wrote
          <5>4. Active(e)' # {}
            BY <3>1, <4>3, CommitKeepsActive
          <5> QED BY <4>3, <5>2, <5>3, <5>4
        <4> QED BY <4>2, <4>3
      <3> QED BY <2>2, <3>2, <3>3, <3>4, <3>5 DEF Between, Wrote, Midway
    <2> QED BY <2>1, <2>2
  <1> QED BY <1>6, <1>7, <1>8, <1>9, <1>10 DEF JobSound

LEMMA CommitInv ==
    ASSUME OneAdministrator, CostsInv, NEW j \in Jobs, Commit(j)
    PROVE  CostsInv'
  <1>1. PICK s : s = job[j]
    OBVIOUS
  <1>2. job'[j] = Absent /\ \A k \in Jobs \ {j} : job'[k] = job[k]
    BY DEF Commit, CostsInv, TypeOK
  <1>3. TypeOK'
    <2>1. version' \in Versions
      <3>1. s \in JobRecords
        BY <1>1, Committed
      <3> QED BY <1>1, <3>1 DEF Commit, CostsInv, TypeOK, JobRecords
    <2>2. job' \in [Jobs -> JobRecords \union {Absent}]
      BY DEF Commit, CostsInv, TypeOK
    <2> QED BY <1>1, <2>1, <2>2, Committed DEF Commit, CostsInv, TypeOK
  <1>4. ASSUME NEW k \in Jobs, Open(k)' PROVE JobSound(k, job[k])'
    <2>1. PICK u : u = job'[k]
      OBVIOUS
    <2>2. k # j /\ Open(k) /\ u = job[k]
      BY <1>2, <1>4, <2>1 DEF Open
    <2>3. JobSound(k, u)'
      BY <2>2, CommitSound
    <2> QED BY <2>1, <2>3
  <1>5. \A k, l \in Jobs : k # l => k = j \/ l = j
    BY DEF OneAdministrator
  <1>6. \A k, l \in Jobs : ~ (k # l /\ Open(k)' /\ Open(l)')
    BY <1>2, <1>5 DEF Open
  <1> QED BY <1>3, <1>4, <1>6 DEF CostsInv

-----------------------------------------------------------------------------
LEMMA CostsInitInv == Init => CostsInv
  BY CostsAssumption DEF Init, CostsInv, TypeOK, Versions, Amounts, Open

LEMMA CostsSame ==
    ASSUME CostsInv, UNCHANGED <<version, costs, job>>,
           rate' \in Amounts, finals' \subseteq Events, failures' \in 0 .. MaxFailures
    PROVE  CostsInv'
  <1>1. TypeOK'
    BY DEF CostsInv, TypeOK
  <1>2. ASSUME NEW k \in Jobs, Open(k)' PROVE JobSound(k, job[k])'
    <2>1. PICK u : u = job'[k]
      OBVIOUS
    <2>2. JobSound(k, u)
      BY <1>2, <2>1 DEF CostsInv, Open
    <2>3. JobSound(k, u)'
      BY <2>2, SameJob
    <2> QED BY <2>1, <2>3
  <1>3. ASSUME NEW k \in Jobs, NEW l \in Jobs, k # l, Open(k)', Open(l)'
        PROVE  Apart(job[k], job[l])'
    <2>1. PICK u, w : u = job'[k] /\ w = job'[l]
      OBVIOUS
    <2>2. Apart(u, w)
      BY <1>3, <2>1 DEF CostsInv, Open
    <2>3. Apart(u, w)'
      BY <2>2, SamePair
    <2> QED BY <2>1, <2>3
  <1> QED BY <1>1, <1>2, <1>3 DEF CostsInv

LEMMA CostsNextInv == OneAdministrator /\ CostsInv /\ [Next]_vars => CostsInv'
  <1> SUFFICES ASSUME OneAdministrator, CostsInv, [Next]_vars PROVE CostsInv'
    OBVIOUS
  <1>1. TypeOK
    BY DEF CostsInv
  <1>2. ASSUME NEW amount \in Amounts, RateChanges(amount) PROVE CostsInv'
    BY <1>1, <1>2, CostsSame DEF RateChanges, TypeOK
  <1>3. ASSUME NEW e \in Events, Ingest(e) PROVE CostsInv'
    BY <1>1, <1>3, CostsSame DEF Ingest, TypeOK
  <1>4. CASE Sweep
    BY <1>4, SweepSelectInv, SweepVersionInv DEF Sweep
  <1>5. ASSUME NEW j \in Jobs, RepriceRead(j) PROVE CostsInv'
    BY <1>5, RepriceReadInv
  <1>6. ASSUME NEW j \in Jobs, NEW v \in Versions, NEW range \in SUBSET Events,
               RevertSelect(j, v, range)
        PROVE  CostsInv'
    BY <1>6, RevertSelectInv
  <1>7. ASSUME NEW j \in Jobs, JobStep(j) PROVE CostsInv'
    <2>1. CASE Deadlock(j)
      BY <1>1, <2>1, JobDrop DEF Deadlock, Rollback, TypeOK
    <2> QED BY <1>7, <2>1, RepriceBumpInv, TakeEventInv, DeactivateOthersInv, LookUpInv,
               UpdateCostInv, InsertCostInv, ReactivateInv, CommitInv DEF JobStep
  <1>8. ASSUME NEW j \in Jobs, Fail(j) PROVE CostsInv'
    <2>1. failures + 1 \in 0 .. MaxFailures
      BY <1>1, <1>8, CostsAssumption DEF Fail, TypeOK
    <2>2. /\ job' = [job EXCEPT ![j] = Absent] /\ UNCHANGED <<rate, finals, version, costs>>
          /\ failures' = failures + 1
      BY <1>8 DEF Fail, Rollback
    <2> QED BY <2>1, <2>2, JobDrop
  <1>9. CASE UNCHANGED vars
    BY <1>1, <1>9, CostsSame DEF vars, TypeOK
  <1> QED BY <1>2, <1>3, <1>4, <1>5, <1>6, <1>7, <1>8, <1>9 DEF Next

-----------------------------------------------------------------------------
(* Only a commit changes the rows.                                         *)
LEMMA OnlyCommits ==
    ASSUME Next, costs' # costs
    PROVE  \E j \in Jobs : Commit(j)
  BY DEF Next, RateChanges, Ingest, Sweep, SweepSelect, SweepVersion, RepriceRead,
         RevertSelect, JobStep, RepriceBump, TakeEvent, DeactivateOthers, LookUp, UpdateCost,
         InsertCost, Reactivate, Deadlock, Fail, Rollback

LEMMA ActiveIsActive == \A e \in Events : HasActive(e) <=> Active(e) # {}
  BY DEF HasActive, Active

LEMMA ActiveIsActiveNext == \A e \in Events : HasActive(e)' <=> Active(e)' # {}
  BY DEF HasActive, Active

(* The rows of versions so far that a job wrote have their amounts.        *)
LEMMA CommitKeepsAmounts ==
    ASSUME CostsInv, NEW j \in Jobs \ {Sweeper}, Commit(j),
           NEW e \in Events, NEW v \in Versions, v <= version, costs[e][v] # Absent
    PROVE  costs'[e][v] # Absent /\ costs'[e][v].amount = costs[e][v].amount
  <1>1. PICK s : s = job[j]
    OBVIOUS
  <1>2. CASE v \notin Wrote(s, e)
    BY <1>1, <1>2, Committed
  <1>3. CASE v \in Wrote(s, e)
    <2>1. s \in JobRecords /\ JobSound(j, s)
      BY <1>1, Committed
    <2>2. s.kind = "reprice" => v # s.version
      <3>1. version \in Int /\ v \in Int
        BY CostsAssumption DEF CostsInv, TypeOK, Versions
      <3> QED BY <2>1, <3>1 DEF JobSound, InOrder
    <2>3. s.kind \in {"reprice", "revert"}
      BY <2>1 DEF JobSound, InOrder, JobRecords
    <2>4. costs[e][v].amount = s.wrote[e][v].amount
      BY <1>3, <2>1, <2>2, <2>3 DEF JobSound, Faithful
    <2>5. costs'[e][v] = s.wrote[e][v] /\ s.wrote[e][v] # Absent
      BY <1>1, <1>3, Committed DEF Reads, Wrote
    <2> QED BY <2>4, <2>5
  <1> QED BY <1>2, <1>3

(* A job that closes and is not at a commit was rolled back.               *)
LEMMA ClosingCommits ==
    ASSUME CostsInv, Next, costs' # costs, NEW j \in Jobs, Open(j), ~ Open(j)'
    PROVE  Commit(j)
  <1>1. PICK k \in Jobs : Commit(k)
    BY OnlyCommits
  <1>2. \A l \in Jobs \ {k} : job'[l] = job[l]
    BY <1>1 DEF Commit, CostsInv, TypeOK
  <1> QED BY <1>1, <1>2 DEF Open

(* Whatever the sweep and an administrator's reprices and reverts do, and  *)
(* whichever of them are rolled back: an event that has an active cost     *)
(* keeps one, and the amounts of the version that a reprice supersedes and *)
(* of those before stand, so that it can be taken back (computed_costs.py, *)
(* repricing.py:5-10).                                                     *)
THEOREM CostsKeepHistory == OneAdministrator => (Spec => CostHistoryKept)
  <1> SUFFICES ASSUME OneAdministrator PROVE Spec => CostHistoryKept
    OBVIOUS
  <1>1. OneAdministrator /\ CostsInv /\ [Next]_vars =>
           [\A e \in Events : HasActive(e) => HasActive(e)']_vars
    <2> SUFFICES ASSUME CostsInv, Next, NEW e \in Events, HasActive(e), costs' # costs
                 PROVE  HasActive(e)'
      BY DEF vars, HasActive
    <2>1. PICK j \in Jobs : Commit(j)
      BY OnlyCommits
    <2> QED BY <2>1, CommitKeepsActive, ActiveIsActive, ActiveIsActiveNext
  <1>2. OneAdministrator /\ CostsInv /\ [Next]_vars =>
           [\A j \in Jobs \ {Sweeper} : Open(j) /\ ~ Open(j)' =>
              \A e \in Events, v \in Versions :
                 v <= version /\ costs[e][v] # Absent =>
                    /\ costs'[e][v] # Absent
                    /\ costs'[e][v].amount = costs[e][v].amount]_vars
    BY ClosingCommits, CommitKeepsAmounts
  <1>3. Spec => []CostsInv
    BY CostsInitInv, CostsNextInv, PTL DEF Spec
  <1> QED BY <1>1, <1>2, <1>3, PTL DEF Spec, CostHistoryKept, CostNeverVanishes,
                                        PriorAmountsKept

-----------------------------------------------------------------------------
(* The rollups of a day, and where they count an attempt.                  *)
DayKeys(d) == {k \in Keys : k[1] = d}

HomeBy(bills, roots, d) == [a \in Attempts |-> <<d, GroupOf[roots][a], ModeOf(bills, a)>>]

At(home, ledger, d, k) == {a \in FinalsOn(ledger, d) : home[a] = k}

Tokens(ledger) == [a \in Attempts |-> IF ledger[a] = NoValue THEN 0 ELSE AllTokens(ledger, a)]

Housed(home, ledger, table, d) ==
    \A a \in FinalsOn(ledger, d) : /\ home[a] \in DayKeys(d)
                                   /\ home[a][2] \in {GroupOf[r][a] : r \in Roots}
                                   /\ table[home[a]] # NoValue

(* Each attempt has a rollup that counts it, if not only it.               *)
Covered(home, ledger, table, d) ==
    /\ Housed(home, ledger, table, d)
    /\ \A k \in DayKeys(d) : table[k] # NoValue =>
          table[k].tokens >= Total(Tokens(ledger), At(home, ledger, d, k))

Counted(home, ledger, table, d) ==
    /\ Housed(home, ledger, table, d)
    /\ \A k \in DayKeys(d) : table[k] # NoValue =>
          table[k].tokens = Total(Tokens(ledger), At(home, ledger, d, k))

LedgerTyped(ledger) ==
    /\ ledger \in [Attempts -> EventRows \union {NoValue}]
    /\ \A a \in Legacy : ledger[a] # NoValue => ledger[a].final

CostsTyped(bills) == bills \in [Attempts -> ActiveRows \union {NoValue}]

RollupsTyped(table) == table \in [Keys -> RollupRows \union {NoValue}]

(* A day that only collectors report: every attempt is covered, and as long *)
(* as none has moved they are counted exactly where they belong.           *)
DaySound(ledger, bills, table, exact, d) ==
    FinalsOn(ledger, d) \subseteq Legacy =>
        /\ \E home \in [Attempts -> Keys] : Covered(home, ledger, table, d)
        /\ exact => Counted(HomeBy(bills, "configured", d), ledger, table, d)

UsageTyped ==
    /\ LedgerTyped(rows)
    /\ CostsTyped(active)
    /\ RollupsTyped(rollup)
    /\ billing \in [Attempts -> Modes]
    /\ imported \in [UsageDays \X Groups -> Nat \union {NoValue}]

ViewTyped(v) ==
    LedgerTyped(v.rows) /\ CostsTyped(v.active) /\ v.billing \in [Attempts -> Modes]

(* A day that was last refreshed from an old view is not sound, and then    *)
(* there are attempts that this refresh has missed.                        *)
DaysSound(ledger, bills, table, exact, old) ==
    /\ exact => old = {}
    /\ \A d \in UsageDays \ old : DaySound(ledger, bills, table, exact, d)

UsageInv ==
    /\ UsageTyped
    /\ \A v \in views : ViewTyped(v)
    /\ DaysSound(rows, active, rollup, moved = {}, stale)

-----------------------------------------------------------------------------
LEMMA UsageFinite ==
    /\ IsFiniteSet(Attempts) /\ IsFiniteSet(Modes) /\ IsFiniteSet(Keys)
    /\ \A ledger, d : IsFiniteSet(FinalsOn(ledger, d))
    /\ \A ledger, bills, roots, k : IsFiniteSet(OfRollup(ledger, bills, roots, k))
  <1>1. IsFiniteSet(Attempts)
    BY UsageAssumption
  <1>2. IsFiniteSet(Modes)
    <2>1. /\ IsFiniteSet({} \union {"api_billed"})
          /\ IsFiniteSet(({} \union {"api_billed"}) \union {"subscription"})
      BY FS_EmptySet, FS_AddElement
    <2> QED BY <2>1 DEF Modes
  <1>3. IsFiniteSet(Keys)
    <2> DEFINE pairs == UsageDays \X (Groups \X Modes)
               flat == [p \in pairs |-> <<p[1], p[2][1], p[2][2]>>]
    <2>1. IsFiniteSet(Groups \X Modes)
      BY <1>2, UsageAssumption, FS_Product
    <2>2. IsFiniteSet(pairs)
      BY <2>1, UsageAssumption, FS_Product
    <2>3. ASSUME NEW k \in Keys
          PROVE  \E p \in pairs : flat[p] = k
      <3>1. /\ <<k[1], <<k[2], k[3]>>>> \in pairs
            /\ k = <<k[1], k[2], k[3]>>
        BY DEF Keys
      <3> QED BY <3>1
    <2>4. flat \in Surjection(pairs, Keys)
      <3>1. flat \in [pairs -> Keys]
        BY DEF Keys
      <3> HIDE DEF flat, pairs
      <3> QED BY <2>3, <3>1 DEF Surjection
    <2> HIDE DEF flat, pairs
    <2> QED BY <2>2, <2>4, FS_Surjection
  <1>4. \A ledger, d : IsFiniteSet(FinalsOn(ledger, d))
    BY <1>1, FS_Subset DEF FinalsOn
  <1>5. \A ledger, bills, roots, k : IsFiniteSet(OfRollup(ledger, bills, roots, k))
    BY <1>1, FS_Subset DEF OfRollup, Joined, FinalsOn
  <1> QED BY <1>1, <1>2, <1>3, <1>4, <1>5

LEMMA KnownType == \A x \in Money : Known(x) \in Nat
  BY DEF Known, Money

LEMMA BilledType ==
    ASSUME NEW bills, CostsTyped(bills), NEW a \in Attempts
    PROVE  /\ \A status : Billed(bills, a, status) \in Money
           /\ Equivalent(bills, a) \in Money
           /\ ModeOf(bills, a) \in Modes
  BY DEF CostsTyped, ActiveRows, Billed, Equivalent, ModeOf, Money, Modes

LEMMA MoneyColumn ==
    ASSUME NEW some, IsFiniteSet(some), NEW f, \A a \in some : f[a] \in Money
    PROVE  Total([a \in some |-> Known(f[a])], some) \in Nat
  <1> DEFINE g == [a \in some |-> Known(f[a])]
  <1>1. \A a \in some : g[a] \in Nat
    BY KnownType
  <1> HIDE DEF g
  <1>2. Total(g, some) \in Nat
    BY <1>1, TotalType
  <1> QED BY <1>2 DEF g

LEMMA TokensType ==
    ASSUME NEW ledger, LedgerTyped(ledger)
    PROVE  \A a \in Attempts : Tokens(ledger)[a] \in Nat
  BY DEF Tokens, AllTokens, LedgerTyped, EventRows

(* The row that _aggregate_day makes of the attempts of a group.           *)
LEMMA RowType ==
    ASSUME NEW ledger, LedgerTyped(ledger), NEW bills, CostsTyped(bills),
           NEW some \in SUBSET Attempts, \A a \in some : ledger[a] # NoValue
    PROVE  /\ RollupRow(ledger, bills, some) \in RollupRows
           /\ RollupRow(ledger, bills, some) # NoValue
           /\ RollupRow(ledger, bills, some).tokens = Total(Tokens(ledger), some)
  <1>1. IsFiniteSet(some)
    BY UsageFinite, FS_Subset
  <1>2. Total([a \in some |-> AllTokens(ledger, a)], some) = Total(Tokens(ledger), some)
    <2> DEFINE g == [a \in some |-> AllTokens(ledger, a)]
    <2>1. \A a \in some : g[a] = Tokens(ledger)[a]
      BY DEF Tokens
    <2> HIDE DEF g
    <2>2. Total(g, some) = Total(Tokens(ledger), some)
      BY <1>1, <2>1, TotalSame
    <2> QED BY <2>2 DEF g
  <1>3. Total(Tokens(ledger), some) \in Nat
    BY <1>1, TokensType, TotalType
  <1>4. Total([a \in some |-> Known(PricedOrV1(ledger, bills, a))], some) \in Nat
    <2> DEFINE f == [a \in some |-> PricedOrV1(ledger, bills, a)]
    <2>1. \A a \in some : f[a] \in Money
      BY BilledType DEF PricedOrV1, LedgerTyped, EventRows
    <2>2. [a \in some |-> Known(f[a])] = [a \in some |-> Known(PricedOrV1(ledger, bills, a))]
      OBVIOUS
    <2> HIDE DEF f
    <2>3. Total([a \in some |-> Known(f[a])], some) \in Nat
      BY <1>1, <2>1, MoneyColumn
    <2> QED BY <2>2, <2>3
  <1>5. ASSUME NEW status
        PROVE  Total([a \in some |-> Known(Billed(bills, a, status))], some) \in Nat
    <2> DEFINE f == [a \in some |-> Billed(bills, a, status)]
    <2>1. \A a \in some : f[a] \in Money
      BY BilledType
    <2>2. [a \in some |-> Known(f[a])] = [a \in some |-> Known(Billed(bills, a, status))]
      OBVIOUS
    <2> HIDE DEF f
    <2>3. Total([a \in some |-> Known(f[a])], some) \in Nat
      BY <1>1, <2>1, MoneyColumn
    <2> QED BY <2>2, <2>3
  <1>6. Total([a \in some |-> Known(Equivalent(bills, a))], some) \in Nat
    <2> DEFINE f == [a \in some |-> Equivalent(bills, a)]
    <2>1. \A a \in some : f[a] \in Money
      BY BilledType
    <2>2. [a \in some |-> Known(f[a])] = [a \in some |-> Known(Equivalent(bills, a))]
      OBVIOUS
    <2> HIDE DEF f
    <2>3. Total([a \in some |-> Known(f[a])], some) \in Nat
      BY <1>1, <2>1, MoneyColumn
    <2> QED BY <2>2, <2>3
  <1>7. NotPriced(bills, some) \in Nat
    BY <1>1, FS_Subset, FS_CardinalityType DEF NotPriced
  <1>8. RollupRow(ledger, bills, some) \in RollupRows
    <2>1. SumKnown(LAMBDA a : PricedOrV1(ledger, bills, a), some) \in Money
      BY <1>4 DEF SumKnown, Sum, Money
    <2>2. SumKnown(LAMBDA a : Billed(bills, a, "partial"), some) \in Money
      BY <1>5 DEF SumKnown, Sum, Money
    <2>3. SumKnown(LAMBDA a : Billed(bills, a, "estimated"), some) \in Money
      BY <1>5 DEF SumKnown, Sum, Money
    <2>4. SumKnown(LAMBDA a : Equivalent(bills, a), some) \in Money
      BY <1>6 DEF SumKnown, Sum, Money
    <2>5. Sum(LAMBDA a : AllTokens(ledger, a), some) \in Nat
      BY <1>2, <1>3 DEF Sum
    <2> QED BY <1>7, <2>1, <2>2, <2>3, <2>4, <2>5 DEF RollupRow, RollupRows
  <1>9. RollupRow(ledger, bills, some).tokens = Total(Tokens(ledger), some)
    BY <1>2 DEF RollupRow, Sum
  <1> QED BY <1>8, <1>9, UsageAssumption

LEMMA HomeType ==
    ASSUME NEW bills, CostsTyped(bills), NEW roots \in Roots, NEW d \in UsageDays
    PROVE  /\ HomeBy(bills, roots, d) \in [Attempts -> Keys]
           /\ \A a \in Attempts : /\ HomeBy(bills, roots, d)[a] \in DayKeys(d)
                                  /\ HomeBy(bills, roots, d)[a][2] = GroupOf[roots][a]
                                  /\ HomeBy(bills, roots, d)[a][3] = ModeOf(bills, a)
  BY BilledType, UsageAssumption DEF HomeBy, DayKeys, Keys

LEMMA OfRollupIsAt ==
    ASSUME NEW ledger, NEW bills, NEW roots, NEW d, NEW k \in DayKeys(d)
    PROVE  OfRollup(ledger, bills, roots, k) = At(HomeBy(bills, roots, d), ledger, d, k)
  <1>1. k = <<k[1], k[2], k[3]>> /\ k[1] = d
    BY DEF DayKeys, Keys
  <1>2. \A a \in FinalsOn(ledger, d) : a \in Attempts
    BY DEF FinalsOn
  <1>3. \A a \in Attempts :
           HomeBy(bills, roots, d)[a] = k <=>
              GroupOf[roots][a] = k[2] /\ ModeOf(bills, a) = k[3]
    BY <1>1 DEF HomeBy
  <1> QED BY <1>1, <1>2, <1>3 DEF OfRollup, Joined, At

(* refresh_rollups_for_days, key by key.                                   *)
LEMMA RefreshedKey ==
    ASSUME NEW ledger, LedgerTyped(ledger), NEW bills, CostsTyped(bills),
           NEW table, NEW roots, NEW days, NEW d, NEW k \in DayKeys(d)
    PROVE  /\ At(HomeBy(bills, roots, d), ledger, d, k) # {} /\ d \in days =>
                 /\ Refreshed(table, ledger, bills, roots, days)[k] \in RollupRows
                 /\ Refreshed(table, ledger, bills, roots, days)[k] # NoValue
                 /\ Refreshed(table, ledger, bills, roots, days)[k].tokens
                       = Total(Tokens(ledger), At(HomeBy(bills, roots, d), ledger, d, k))
           /\ At(HomeBy(bills, roots, d), ledger, d, k) = {} \/ d \notin days =>
                 Refreshed(table, ledger, bills, roots, days)[k] = table[k]
  <1> DEFINE members == At(HomeBy(bills, roots, d), ledger, d, k)
  <1>1. k \in Keys /\ k[1] = d
    BY DEF DayKeys
  <1>2. OfRollup(ledger, bills, roots, k) = members
    BY OfRollupIsAt
  <1>3. members \in SUBSET Attempts /\ \A a \in members : ledger[a] # NoValue
    BY DEF At, FinalsOn
  <1> HIDE DEF members
  <1>4. /\ RollupRow(ledger, bills, members) \in RollupRows
        /\ RollupRow(ledger, bills, members) # NoValue
        /\ RollupRow(ledger, bills, members).tokens = Total(Tokens(ledger), members)
    BY <1>3, RowType
  <1>5. Refreshed(table, ledger, bills, roots, days)[k] =
           IF d \in days /\ members # {} THEN RollupRow(ledger, bills, members) ELSE table[k]
    BY <1>1, <1>2 DEF Refreshed
  <1>6. /\ members # {} /\ d \in days =>
              /\ Refreshed(table, ledger, bills, roots, days)[k] \in RollupRows
              /\ Refreshed(table, ledger, bills, roots, days)[k] # NoValue
              /\ Refreshed(table, ledger, bills, roots, days)[k].tokens
                    = Total(Tokens(ledger), members)
        /\ members = {} \/ d \notin days =>
              Refreshed(table, ledger, bills, roots, days)[k] = table[k]
    BY <1>4, <1>5
  <1> QED BY <1>6 DEF members

LEMMA RefreshedType ==
    ASSUME NEW ledger, LedgerTyped(ledger), NEW bills, CostsTyped(bills),
           NEW table, RollupsTyped(table), NEW roots, NEW days
    PROVE  RollupsTyped(Refreshed(table, ledger, bills, roots, days))
  <1> SUFFICES ASSUME NEW k \in Keys
               PROVE  Refreshed(table, ledger, bills, roots, days)[k] \in RollupRows \union {NoValue}
    BY DEF RollupsTyped, Refreshed
  <1>1. k \in DayKeys(k[1])
    BY DEF DayKeys
  <1> QED BY <1>1, RefreshedKey DEF RollupsTyped

LEMMA RowTokens ==
    ASSUME NEW table, RollupsTyped(table)
    PROVE  \A k \in Keys : table[k] # NoValue => table[k].tokens \in Nat
  BY DEF RollupsTyped, RollupRows

LEMMA RowSame ==
    ASSUME NEW was, NEW billsWas, NEW ledger, NEW bills, NEW some,
           \A a \in some : ledger[a] = was[a] /\ bills[a] = billsWas[a]
    PROVE  RollupRow(ledger, bills, some) = RollupRow(was, billsWas, some)
  <1>1. \A a \in some : /\ AllTokens(ledger, a) = AllTokens(was, a)
                      /\ PricedOrV1(ledger, bills, a) = PricedOrV1(was, billsWas, a)
                      /\ \A status : Billed(bills, a, status) = Billed(billsWas, a, status)
                      /\ Equivalent(bills, a) = Equivalent(billsWas, a)
    BY DEF AllTokens, PricedOrV1, Billed, Equivalent
  <1>2. [a \in some |-> AllTokens(ledger, a)] = [a \in some |-> AllTokens(was, a)]
    BY <1>1
  <1>3. [a \in some |-> Known(PricedOrV1(ledger, bills, a))]
           = [a \in some |-> Known(PricedOrV1(was, billsWas, a))]
    BY <1>1
  <1>4. \A status : [a \in some |-> Known(Billed(bills, a, status))]
                       = [a \in some |-> Known(Billed(billsWas, a, status))]
    BY <1>1
  <1>5. [a \in some |-> Known(Equivalent(bills, a))]
           = [a \in some |-> Known(Equivalent(billsWas, a))]
    BY <1>1
  <1>6. NotPriced(bills, some) = NotPriced(billsWas, some)
    BY DEF NotPriced
  <1>7. SumKnown(LAMBDA a : PricedOrV1(ledger, bills, a), some)
           = SumKnown(LAMBDA a : PricedOrV1(was, billsWas, a), some)
    BY <1>1, <1>3 DEF SumKnown, Sum
  <1>8. SumKnown(LAMBDA a : Billed(bills, a, "partial"), some)
           = SumKnown(LAMBDA a : Billed(billsWas, a, "partial"), some)
    BY <1>1, <1>4 DEF SumKnown, Sum
  <1>9. SumKnown(LAMBDA a : Billed(bills, a, "estimated"), some)
           = SumKnown(LAMBDA a : Billed(billsWas, a, "estimated"), some)
    BY <1>1, <1>4 DEF SumKnown, Sum
  <1>10. SumKnown(LAMBDA a : Equivalent(bills, a), some)
            = SumKnown(LAMBDA a : Equivalent(billsWas, a), some)
    BY <1>1, <1>5 DEF SumKnown, Sum
  <1>11. Sum(LAMBDA a : AllTokens(ledger, a), some) = Sum(LAMBDA a : AllTokens(was, a), some)
    BY <1>2 DEF Sum
  <1> QED BY <1>6, <1>7, <1>8, <1>9, <1>10, <1>11 DEF RollupRow

(* A refresh from a view of which nothing of the day has changed since is   *)
(* one from what there is.                                                 *)
LEMMA DayFromView ==
    ASSUME NEW seen, NEW priced, NEW ledger, NEW bills, NEW days, NEW roots, NEW table,
           NEW d, d \in days,
           d \notin LeftStale(seen, days, ledger, Missed(seen, priced, days, ledger, bills))
    PROVE  /\ FinalsOn(seen, d) = FinalsOn(ledger, d)
           /\ \A a \in FinalsOn(ledger, d) : seen[a] = ledger[a] /\ priced[a] = bills[a]
           /\ \A k \in DayKeys(d) : Refreshed(table, seen, priced, roots, days)[k]
                                   = Refreshed(table, ledger, bills, roots, days)[k]
  <1>1. ASSUME NEW a \in Attempts, d \in DayOf(seen, a) \union DayOf(ledger, a)
        PROVE  seen[a] = ledger[a] /\ priced[a] = bills[a]
    <2> SUFFICES ASSUME seen[a] # ledger[a] \/ priced[a] # bills[a]
                 PROVE  d \in LeftStale(seen, days, ledger, Missed(seen, priced, days, ledger, bills))
      OBVIOUS
    <2>1. a \in Missed(seen, priced, days, ledger, bills)
      BY <1>1 DEF Missed
    <2> QED BY <1>1, <2>1 DEF LeftStale
  <1>2. \A a \in FinalsOn(seen, d) \union FinalsOn(ledger, d) :
           a \in Attempts /\ d \in DayOf(seen, a) \union DayOf(ledger, a)
    BY DEF FinalsOn, DayOf
  <1>3. \A a \in FinalsOn(seen, d) \union FinalsOn(ledger, d) :
           seen[a] = ledger[a] /\ priced[a] = bills[a]
    BY <1>1, <1>2
  <1>4. FinalsOn(seen, d) = FinalsOn(ledger, d)
    BY <1>3 DEF FinalsOn
  <1>5. ASSUME NEW k \in DayKeys(d)
        PROVE  Refreshed(table, seen, priced, roots, days)[k]
                  = Refreshed(table, ledger, bills, roots, days)[k]
    <2>1. k \in Keys /\ k[1] = d
      BY DEF DayKeys
    <2>2. OfRollup(seen, priced, roots, k) = OfRollup(ledger, bills, roots, k)
      BY <1>3, <1>4, <2>1 DEF OfRollup, Joined, ModeOf
    <2>3. \A a \in OfRollup(ledger, bills, roots, k) : a \in FinalsOn(ledger, d)
      BY <2>1 DEF OfRollup, Joined
    <2>4. RollupRow(seen, priced, OfRollup(ledger, bills, roots, k))
             = RollupRow(ledger, bills, OfRollup(ledger, bills, roots, k))
      BY <1>3, <2>3, RowSame
    <2> QED BY <2>1, <2>2, <2>4 DEF Refreshed
  <1> QED BY <1>3, <1>4, <1>5

(* If it misses nothing, no day is left stale.                             *)
LEMMA NoneStale ==
    \A seen, days, ledger : LeftStale(seen, days, ledger, {}) = {}
  BY DEF LeftStale

(* A day as refreshed: a group that has attempts counts them.              *)
Refreshes(new, table, home, ledger, d) ==
    \A k \in DayKeys(d) :
        /\ At(home, ledger, d, k) # {} =>
              /\ new[k] # NoValue
              /\ new[k].tokens = Total(Tokens(ledger), At(home, ledger, d, k))
        /\ At(home, ledger, d, k) = {} => new[k] = table[k]

LEMMA RefreshedDay ==
    ASSUME NEW ledger, LedgerTyped(ledger), NEW bills, CostsTyped(bills),
           NEW table, NEW roots, NEW days, NEW d, d \in days
    PROVE  Refreshes(Refreshed(table, ledger, bills, roots, days), table,
                     HomeBy(bills, roots, d), ledger, d)
  <1> SUFFICES ASSUME NEW k \in DayKeys(d)
               PROVE  /\ At(HomeBy(bills, roots, d), ledger, d, k) # {} =>
                            /\ Refreshed(table, ledger, bills, roots, days)[k] \in RollupRows
                            /\ Refreshed(table, ledger, bills, roots, days)[k] # NoValue
                            /\ Refreshed(table, ledger, bills, roots, days)[k].tokens
                                  = Total(Tokens(ledger), At(HomeBy(bills, roots, d), ledger, d, k))
                      /\ At(HomeBy(bills, roots, d), ledger, d, k) = {} =>
                            Refreshed(table, ledger, bills, roots, days)[k] = table[k]
    BY DEF Refreshes
  <1> QED BY RefreshedKey

LEMMA RefreshedFromView ==
    ASSUME NEW seen, NEW priced, NEW ledger, LedgerTyped(ledger), NEW bills, CostsTyped(bills),
           NEW table, NEW new, NEW roots, NEW days, NEW d, d \in days,
           new = Refreshed(table, seen, priced, roots, days),
           d \notin LeftStale(seen, days, ledger, Missed(seen, priced, days, ledger, bills))
    PROVE  Refreshes(new, table, HomeBy(bills, roots, d), ledger, d)
  <1>1. \A k \in DayKeys(d) : new[k] = Refreshed(table, ledger, bills, roots, days)[k]
    BY DayFromView
  <1>2. Refreshes(Refreshed(table, ledger, bills, roots, days), table,
                  HomeBy(bills, roots, d), ledger, d)
    BY RefreshedDay
  <1> QED BY <1>1, <1>2 DEF Refreshes

(* Every attempt of such a day has a rollup that counts it.                *)
LEMMA RefreshCovers ==
    ASSUME NEW ledger, NEW home, NEW table, NEW new, NEW d,
           RollupsTyped(new), Refreshes(new, table, home, ledger, d),
           \A a \in Attempts : /\ home[a] \in DayKeys(d)
                               /\ home[a][2] \in {GroupOf[r][a] : r \in Roots}
    PROVE  Covered(home, ledger, new, d)
  <1>1. Housed(home, ledger, new, d)
    <2> SUFFICES ASSUME NEW a \in FinalsOn(ledger, d)
                 PROVE  /\ home[a] \in DayKeys(d)
                        /\ home[a][2] \in {GroupOf[r][a] : r \in Roots}
                        /\ new[home[a]] # NoValue
      BY DEF Housed
    <2>1. a \in Attempts /\ a \in At(home, ledger, d, home[a])
      BY DEF At, FinalsOn
    <2> QED BY <2>1 DEF Refreshes
  <1>2. ASSUME NEW k \in DayKeys(d), new[k] # NoValue
        PROVE  new[k].tokens >= Total(Tokens(ledger), At(home, ledger, d, k))
    <2>1. new[k].tokens \in Nat
      BY <1>2, RowTokens DEF DayKeys
    <2>2. Total(Tokens(ledger), {}) = 0
      BY TotalEmpty
    <2> QED BY <2>1, <2>2 DEF Refreshes
  <1> QED BY <1>1, <1>2 DEF Covered

(* It goes on counting all exactly, if none has moved.                     *)
LEMMA RefreshCounts ==
    ASSUME NEW was, NEW ledger, NEW home, NEW table, NEW left, NEW new, NEW d,
           RollupsTyped(new), Refreshes(new, left, home, ledger, d),
           \A k \in DayKeys(d) : left[k] \in {table[k], NoValue},
           \A a \in Attempts : /\ home[a] \in DayKeys(d)
                               /\ home[a][2] \in {GroupOf[r][a] : r \in Roots},
           NEW homeWas, Counted(homeWas, was, table, d),
           \A a \in FinalsOn(was, d) : a \in FinalsOn(ledger, d) /\ home[a] = homeWas[a]
    PROVE  Counted(home, ledger, new, d)
  <1>1. Housed(home, ledger, new, d)
    BY RefreshCovers DEF Covered
  <1>2. ASSUME NEW k \in DayKeys(d), new[k] # NoValue
        PROVE  new[k].tokens = Total(Tokens(ledger), At(home, ledger, d, k))
    <2>1. CASE At(home, ledger, d, k) # {}
      BY <2>1 DEF Refreshes
    <2>2. CASE At(home, ledger, d, k) = {}
      <3>1. At(homeWas, was, d, k) = {}
        BY <2>2 DEF At
      <3>2. new[k] = table[k]
        BY <1>2, <2>2 DEF Refreshes
      <3>3. table[k].tokens = Total(Tokens(was), {})
        BY <1>2, <3>1, <3>2 DEF Counted
      <3> QED BY <2>2, <3>2, <3>3, TotalEmpty
    <2> QED BY <2>1, <2>2
  <1> QED BY <1>1, <1>2 DEF Counted

-----------------------------------------------------------------------------
(* A day that is not refreshed, of which at most attempts have gone.       *)
LEMMA StillCovered ==
    ASSUME NEW was, NEW ledger, LedgerTyped(was), NEW table, NEW new, NEW d, NEW home,
           RollupsTyped(table), Covered(home, was, table, d),
           \A k \in DayKeys(d) : new[k] = table[k],
           \A a \in FinalsOn(ledger, d) : /\ a \in FinalsOn(was, d)
                                          /\ Tokens(ledger)[a] = Tokens(was)[a]
    PROVE  Covered(home, ledger, new, d)
  <1>1. Housed(home, ledger, new, d)
    BY DEF Covered, Housed
  <1>2. ASSUME NEW k \in DayKeys(d), new[k] # NoValue
        PROVE  new[k].tokens >= Total(Tokens(ledger), At(home, ledger, d, k))
    <2> DEFINE now == At(home, ledger, d, k)
               before == At(home, was, d, k)
    <2>1. /\ now \subseteq before /\ before \subseteq Attempts
          /\ \A a \in now : Tokens(ledger)[a] = Tokens(was)[a]
      BY DEF At, FinalsOn
    <2>2. table[k].tokens >= Total(Tokens(was), before) /\ new[k] = table[k]
      BY <1>2 DEF Covered
    <2>3. table[k].tokens \in Nat
      BY <1>2, <2>2, RowTokens DEF DayKeys
    <2> HIDE DEF now, before
    <2>4. /\ IsFiniteSet(before) /\ IsFiniteSet(now)
          /\ \A a \in before : Tokens(was)[a] \in Nat
      BY <2>1, UsageFinite, FS_Subset, TokensType
    <2>5. /\ Total(Tokens(was), now) <= Total(Tokens(was), before)
          /\ Total(Tokens(was), now) \in Nat /\ Total(Tokens(was), before) \in Nat
      BY <2>1, <2>4, TotalSubset
    <2>6. Total(Tokens(ledger), now) = Total(Tokens(was), now)
      BY <2>1, <2>4, TotalSame
    <2>7. new[k].tokens >= Total(Tokens(ledger), now)
      BY <2>2, <2>3, <2>5, <2>6
    <2> QED BY <2>7 DEF now
  <1> QED BY <1>1, <1>2 DEF Covered

LEMMA StillCounted ==
    ASSUME NEW was, NEW ledger, NEW table, NEW new, NEW d, NEW homeWas, NEW home,
           Counted(homeWas, was, table, d),
           \A k \in DayKeys(d) : new[k] = table[k],
           FinalsOn(ledger, d) = FinalsOn(was, d),
           \A a \in FinalsOn(ledger, d) : /\ home[a] = homeWas[a]
                                          /\ Tokens(ledger)[a] = Tokens(was)[a]
    PROVE  Counted(home, ledger, new, d)
  <1>1. Housed(home, ledger, new, d)
    BY DEF Counted, Housed
  <1>2. ASSUME NEW k \in DayKeys(d), new[k] # NoValue
        PROVE  new[k].tokens = Total(Tokens(ledger), At(home, ledger, d, k))
    <2> DEFINE now == At(home, ledger, d, k)
    <2>1. /\ now = At(homeWas, was, d, k) /\ now \subseteq Attempts
          /\ \A a \in now : Tokens(ledger)[a] = Tokens(was)[a]
      BY DEF At, FinalsOn
    <2>2. new[k].tokens = Total(Tokens(was), At(homeWas, was, d, k))
      BY <1>2 DEF Counted
    <2> HIDE DEF now
    <2>3. IsFiniteSet(now)
      BY <2>1, UsageFinite, FS_Subset
    <2>4. Total(Tokens(ledger), now) = Total(Tokens(was), now)
      BY <2>1, <2>3, TotalSame
    <2>5. new[k].tokens = Total(Tokens(ledger), now)
      BY <2>1, <2>2, <2>4
    <2> QED BY <2>5 DEF now
  <1> QED BY <1>1, <1>2 DEF Counted

-----------------------------------------------------------------------------
LEMMA LedgerTokensAre ==
    ASSUME LedgerTyped(rows), NEW some \in SUBSET Attempts, \A a \in some : rows[a] # NoValue
    PROVE  LedgerTokens(some) = Total(Tokens(rows), some) /\ LedgerTokens(some) \in Nat
  <1> DEFINE g == [a \in some |-> AllTokens(rows, a)]
  <1>1. IsFiniteSet(some)
    BY UsageFinite, FS_Subset
  <1>2. \A a \in some : g[a] = Tokens(rows)[a] /\ Tokens(rows)[a] \in Nat
    BY TokensType DEF Tokens
  <1> HIDE DEF g
  <1>3. Total(g, some) = Total(Tokens(rows), some) /\ Total(Tokens(rows), some) \in Nat
    BY <1>1, <1>2, TotalSame, TotalType
  <1> QED BY <1>3 DEF g, LedgerTokens, Sum

(* What the rollups of a day, and of a group of it, add up to.             *)
LEMMA CoveredDay ==
    ASSUME UsageTyped, NEW d \in UsageDays, NEW home, Covered(home, rows, rollup, d)
    PROVE  DayTokens(d) >= LedgerTokens(FinalsOn(rows, d))
  <1> DEFINE counted == FinalsOn(rows, d)
             ks == {k \in Keys : rollup[k] # NoValue /\ k[1] = d}
             counts == [k \in ks |-> rollup[k].tokens]
             sums == [k \in ks |-> Total(Tokens(rows), {a \in counted : home[a] = k})]
  <1>1. /\ counted \in SUBSET Attempts /\ IsFiniteSet(counted)
        /\ \A a \in counted : rows[a] # NoValue /\ Tokens(rows)[a] \in Nat
    BY UsageFinite, TokensType DEF FinalsOn, UsageTyped
  <1>2. ks = {k \in DayKeys(d) : rollup[k] # NoValue}
    BY DEF DayKeys
  <1>3. IsFiniteSet(ks) /\ \A k \in ks : rollup[k].tokens \in Nat
    BY <1>2, UsageFinite, FS_Subset, RowTokens DEF DayKeys, UsageTyped
  <1>4. \A a \in counted : home[a] \in ks
    BY <1>2 DEF Covered, Housed
  <1>5. \A k \in ks : rollup[k].tokens >= Total(Tokens(rows), {a \in counted : home[a] = k})
    BY <1>2 DEF Covered, At
  <1> HIDE DEF counted, ks
  <1>6. /\ \A k \in ks : Total(Tokens(rows), {a \in counted : home[a] = k}) \in Nat
        /\ Total(Tokens(rows), counted) = Total(sums, ks)
    BY <1>1, <1>3, <1>4, TotalByGroup
  <1>7. \A k \in ks : sums[k] \in Nat /\ counts[k] \in Nat /\ sums[k] <= counts[k]
    BY <1>3, <1>5, <1>6
  <1> HIDE DEF sums
  <1>8. DayTokens(d) = Total(counts, ks)
    BY DEF DayTokens, Sum, ks
  <1> HIDE DEF counts
  <1>9. Total(sums, ks) <= Total(counts, ks)
    BY <1>3, <1>7, TotalGrows
  <1>10. LedgerTokens(counted) = Total(Tokens(rows), counted)
    BY <1>1, LedgerTokensAre DEF UsageTyped
  <1>11. Total(sums, ks) \in Nat /\ Total(counts, ks) \in Nat
    BY <1>3, <1>7, TotalType
  <1>12. DayTokens(d) >= LedgerTokens(counted)
    BY <1>6, <1>8, <1>9, <1>10, <1>11
  <1> QED BY <1>12 DEF counted

LEMMA GroupSums ==
    ASSUME UsageTyped, NEW d \in UsageDays, NEW g \in Groups, NEW home,
           Housed(home, rows, rollup, d),
           \A a \in FinalsOn(rows, d) : GroupIn(a) = g => home[a][2] = g
    PROVE  /\ Covered(home, rows, rollup, d) => V1Tokens(d, g) >= V2Tokens(d, g)
           /\ Counted(home, rows, rollup, d)
                 /\ (\A a \in FinalsOn(rows, d) : home[a][2] = g => GroupIn(a) = g)
                 => V1Tokens(d, g) = V2Tokens(d, g)
  <1> DEFINE counted == {a \in FinalsOn(rows, d) : GroupIn(a) = g}
             ms == {m \in Modes : rollup[d, g, m] # NoValue}
             modeOf == [a \in counted |-> home[a][3]]
             counts == [m \in ms |-> rollup[d, g, m].tokens]
             sums == [m \in ms |-> Total(Tokens(rows), {a \in counted : modeOf[a] = m})]
  <1>1. /\ counted \in SUBSET Attempts /\ IsFiniteSet(counted)
        /\ \A a \in counted : rows[a] # NoValue /\ Tokens(rows)[a] \in Nat
    <2>1. \A a \in Attempts : Tokens(rows)[a] \in Nat
      BY TokensType DEF UsageTyped
    <2>2. counted \in SUBSET Attempts /\ \A a \in counted : rows[a] # NoValue
      BY DEF FinalsOn
    <2>3. IsFiniteSet(counted)
      <3> HIDE DEF counted
      <3> QED BY <2>2, UsageFinite, FS_Subset
    <2> QED BY <2>1, <2>2, <2>3
  <1>2. \A m \in Modes : <<d, g, m>> \in DayKeys(d) /\ <<d, g, m>> \in Keys
    BY DEF DayKeys, Keys
  <1>3. IsFiniteSet(ms) /\ \A m \in ms : rollup[d, g, m] # NoValue /\ rollup[d, g, m].tokens \in Nat
    <2>1. ms \in SUBSET Modes /\ \A m \in ms : rollup[d, g, m] # NoValue
      OBVIOUS
    <2>2. \A k \in Keys : rollup[k] # NoValue => rollup[k].tokens \in Nat
      BY RowTokens DEF UsageTyped
    <2> HIDE DEF ms
    <2>3. IsFiniteSet(ms)
      BY <2>1, UsageFinite, FS_Subset
    <2> QED BY <1>2, <2>1, <2>2, <2>3
  <1>4. \A a \in counted : home[a] = <<d, g, modeOf[a]>> /\ modeOf[a] \in ms
    <2> SUFFICES ASSUME NEW a \in counted
                 PROVE  home[a] = <<d, g, home[a][3]>> /\ home[a][3] \in ms
      OBVIOUS
    <2>1. a \in FinalsOn(rows, d) /\ GroupIn(a) = g
      OBVIOUS
    <2>2. home[a] \in DayKeys(d) /\ rollup[home[a]] # NoValue /\ home[a][2] = g
      BY <2>1 DEF Housed
    <2>3. home[a] = <<d, g, home[a][3]>> /\ home[a][3] \in Modes
      BY <2>2 DEF DayKeys, Keys
    <2> QED BY <2>2, <2>3
  <1>5. \A m \in ms : {a \in counted : modeOf[a] = m} \subseteq At(home, rows, d, <<d, g, m>>)
    <2> SUFFICES ASSUME NEW m \in ms, NEW a \in counted, modeOf[a] = m
                 PROVE  a \in At(home, rows, d, <<d, g, m>>)
      OBVIOUS
    <2>1. a \in FinalsOn(rows, d) /\ home[a] = <<d, g, m>>
      BY <1>4
    <2> QED BY <2>1 DEF At
  <1>6. ASSUME \A a \in FinalsOn(rows, d) : home[a][2] = g => GroupIn(a) = g, NEW m \in ms
        PROVE  {a \in counted : modeOf[a] = m} = At(home, rows, d, <<d, g, m>>)
    <2> SUFFICES ASSUME NEW a \in At(home, rows, d, <<d, g, m>>)
                 PROVE  a \in counted /\ home[a][3] = m
      BY <1>5
    <2>1. a \in FinalsOn(rows, d) /\ home[a] = <<d, g, m>>
      BY DEF At
    <2>2. <<d, g, m>>[2] = g /\ <<d, g, m>>[3] = m
      OBVIOUS
    <2> QED BY <1>6, <2>1, <2>2
  <1>7. V1Tokens(d, g) = Total(counts, ms)
    BY DEF V1Tokens, Sum
  <1>8. V2Tokens(d, g) = LedgerTokens(counted)
    BY DEF V2Tokens
  <1>9. ASSUME NEW m \in ms
        PROVE  /\ IsFiniteSet(At(home, rows, d, <<d, g, m>>))
               /\ \A a \in At(home, rows, d, <<d, g, m>>) : Tokens(rows)[a] \in Nat
    BY UsageFinite, FS_Subset, TokensType DEF At, FinalsOn, UsageTyped
  <1> HIDE DEF counted, modeOf, ms
  <1>10. /\ \A m \in ms : Total(Tokens(rows), {a \in counted : modeOf[a] = m}) \in Nat
         /\ Total(Tokens(rows), counted) = Total(sums, ms)
    <2>1. \A a \in counted : modeOf[a] \in ms
      BY <1>4
    <2>2. IsFiniteSet(ms)
      BY <1>3
    <2> QED BY <1>1, <2>1, <2>2, TotalByGroup
  <1>11. LedgerTokens(counted) = Total(Tokens(rows), counted)
    BY <1>1, LedgerTokensAre DEF UsageTyped
  <1>12. \A m \in ms : <<d, g, m>> \in DayKeys(d) /\ rollup[<<d, g, m>>] # NoValue
    BY <1>2, <1>3 DEF ms
  <1>13. ASSUME Covered(home, rows, rollup, d) PROVE V1Tokens(d, g) >= V2Tokens(d, g)
    <2>1. ASSUME NEW m \in ms
          PROVE  sums[m] \in Nat /\ counts[m] \in Nat /\ sums[m] <= counts[m]
      <3>1. rollup[<<d, g, m>>].tokens >= Total(Tokens(rows), At(home, rows, d, <<d, g, m>>))
        BY <1>12, <1>13 DEF Covered
      <3>2. /\ Total(Tokens(rows), {a \in counted : modeOf[a] = m})
                  <= Total(Tokens(rows), At(home, rows, d, <<d, g, m>>))
            /\ Total(Tokens(rows), At(home, rows, d, <<d, g, m>>)) \in Nat
        BY <1>5, <1>9, TotalSubset
      <3>3. /\ rollup[<<d, g, m>>].tokens \in Nat
            /\ Total(Tokens(rows), {a \in counted : modeOf[a] = m}) \in Nat
        BY <1>3, <1>10
      <3>4. /\ sums[m] = Total(Tokens(rows), {a \in counted : modeOf[a] = m})
            /\ counts[m] = rollup[<<d, g, m>>].tokens
        OBVIOUS
      <3> HIDE DEF sums, counts
      <3> QED BY <3>1, <3>2, <3>3, <3>4
    <2> HIDE DEF sums, counts
    <2>2. Total(sums, ms) <= Total(counts, ms) /\ Total(sums, ms) \in Nat /\ Total(counts, ms) \in Nat
      BY <1>3, <2>1, TotalGrows, TotalType
    <2> QED BY <1>7, <1>8, <1>10, <1>11, <2>2
  <1>14. ASSUME Counted(home, rows, rollup, d),
                \A a \in FinalsOn(rows, d) : home[a][2] = g => GroupIn(a) = g
         PROVE  V1Tokens(d, g) = V2Tokens(d, g)
    <2>1. \A m \in ms : counts[m] = sums[m]
      <3> TAKE m \in ms
      <3>1. rollup[<<d, g, m>>].tokens = Total(Tokens(rows), At(home, rows, d, <<d, g, m>>))
        BY <1>12, <1>14 DEF Counted
      <3>2. {a \in counted : modeOf[a] = m} = At(home, rows, d, <<d, g, m>>)
        BY <1>6, <1>14
      <3> QED BY <3>1, <3>2
    <2> HIDE DEF sums, counts
    <2>2. Total(counts, ms) = Total(sums, ms)
      BY <1>3, <2>1, TotalSame
    <2> QED BY <1>7, <1>8, <1>10, <1>11, <2>2
  <1> QED BY <1>13, <1>14

LEMMA InvCounts == UsageInv => CollectedDaysCounted
  <1> SUFFICES ASSUME UsageInv, NEW d \in UsageDays \ stale, FinalsOn(rows, d) \subseteq Legacy
               PROVE  /\ DayTokens(d) >= LedgerTokens(FinalsOn(rows, d))
                      /\ \A g \in Groups :
                            /\ FoldAlike({a \in FinalsOn(rows, d) : GroupIn(a) = g})
                                  => V1Tokens(d, g) >= V2Tokens(d, g)
                            /\ moved = {} => V1Tokens(d, g) = V2Tokens(d, g)
    BY DEF CollectedDaysCounted
  <1>1. PICK home : Covered(home, rows, rollup, d)
    BY DEF UsageInv, DaysSound, DaySound
  <1>2. DayTokens(d) >= LedgerTokens(FinalsOn(rows, d))
    BY <1>1, CoveredDay DEF UsageInv
  <1>3. ASSUME NEW g \in Groups, FoldAlike({a \in FinalsOn(rows, d) : GroupIn(a) = g})
        PROVE  V1Tokens(d, g) >= V2Tokens(d, g)
    <2>1. \A a \in FinalsOn(rows, d) : GroupIn(a) = g => home[a][2] = g
      BY <1>1, <1>3 DEF Covered, Housed, FoldAlike, GroupIn, Roots
    <2> QED BY <1>1, <2>1, GroupSums DEF UsageInv, Covered
  <1>4. ASSUME NEW g \in Groups, moved = {}
        PROVE  V1Tokens(d, g) = V2Tokens(d, g)
    <2> DEFINE at == HomeBy(active, "configured", d)
    <2>1. Counted(at, rows, rollup, d)
      BY <1>4 DEF UsageInv, DaysSound, DaySound
    <2>2. \A a \in FinalsOn(rows, d) : at[a][2] = GroupIn(a)
      BY HomeType DEF UsageInv, UsageTyped, GroupIn, FinalsOn, Roots
    <2> HIDE DEF at
    <2> QED BY <2>1, <2>2, GroupSums DEF UsageInv, Counted
  <1> QED BY <1>2, <1>3, <1>4

-----------------------------------------------------------------------------
(* A day that is refreshed, and one that is not.                           *)
ExactWas(was, billsWas, table, exactWas, ledger, bills, roots, d) ==
    /\ exactWas /\ DaySound(was, billsWas, table, exactWas, d)
    /\ \A a \in FinalsOn(was, d) :
          /\ a \in FinalsOn(ledger, d)
          /\ HomeBy(bills, roots, d)[a] = HomeBy(billsWas, "configured", d)[a]
    /\ \A a \in FinalsOn(ledger, d) : GroupOf[roots][a] = GroupIn(a)

LEMMA DayRefreshes ==
    ASSUME NEW was, NEW billsWas, NEW table, NEW exactWas \in BOOLEAN,
           NEW ledger, NEW bills, NEW left, NEW new, NEW exact \in BOOLEAN,
           NEW d \in UsageDays, NEW roots \in Roots, CostsTyped(bills), RollupsTyped(new),
           Refreshes(new, left, HomeBy(bills, roots, d), ledger, d),
           \A k \in DayKeys(d) : left[k] \in {table[k], NoValue},
           exact => ExactWas(was, billsWas, table, exactWas, ledger, bills, roots, d)
    PROVE  DaySound(ledger, bills, new, exact, d)
  <1> DEFINE home == HomeBy(bills, roots, d)
             at == HomeBy(bills, "configured", d)
  <1>1. /\ home \in [Attempts -> Keys]
        /\ \A a \in Attempts : /\ home[a] \in DayKeys(d)
                               /\ home[a][2] \in {GroupOf[r][a] : r \in Roots}
    BY HomeType
  <1>2. ASSUME exact PROVE \A a \in FinalsOn(ledger, d) : at[a] = home[a]
    BY <1>2 DEF HomeBy, FinalsOn, GroupIn, ExactWas
  <1>3. ASSUME exact, FinalsOn(ledger, d) \subseteq Legacy
        PROVE  Counted(HomeBy(billsWas, "configured", d), was, table, d)
    BY <1>3 DEF DaySound, ExactWas
  <1>4. Refreshes(new, left, home, ledger, d)
    OBVIOUS
  <1>5. exact => \A a \in FinalsOn(was, d) :
           a \in FinalsOn(ledger, d) /\ home[a] = HomeBy(billsWas, "configured", d)[a]
    BY DEF ExactWas
  <1> HIDE DEF home, at
  <1>6. Covered(home, ledger, new, d)
    BY <1>1, <1>4, RefreshCovers
  <1>7. ASSUME exact, FinalsOn(ledger, d) \subseteq Legacy PROVE Counted(at, ledger, new, d)
    <2>1. Counted(home, ledger, new, d)
      BY <1>1, <1>3, <1>4, <1>5, <1>7, RefreshCounts
    <2> QED BY <1>2, <1>7, <2>1, StillCounted
  <1> QED BY <1>1, <1>6, <1>7 DEF DaySound, at

LEMMA DayStays ==
    ASSUME NEW was, NEW billsWas, NEW table, NEW exactWas \in BOOLEAN,
           NEW ledger, NEW bills, NEW new, NEW exact \in BOOLEAN, NEW d,
           DaySound(was, billsWas, table, exactWas, d), LedgerTyped(was), RollupsTyped(table),
           \A k \in DayKeys(d) : new[k] = table[k],
           FinalsOn(ledger, d) \subseteq Legacy =>
              /\ FinalsOn(was, d) \subseteq Legacy
              /\ \A a \in FinalsOn(ledger, d) : /\ a \in FinalsOn(was, d)
                                                /\ Tokens(ledger)[a] = Tokens(was)[a],
           exact /\ FinalsOn(ledger, d) \subseteq Legacy =>
              /\ exactWas
              /\ FinalsOn(was, d) \subseteq FinalsOn(ledger, d)
              /\ \A a \in FinalsOn(ledger, d) : ModeOf(bills, a) = ModeOf(billsWas, a)
    PROVE  DaySound(ledger, bills, new, exact, d)
  <1> DEFINE at == HomeBy(bills, "configured", d)
             atWas == HomeBy(billsWas, "configured", d)
  <1> SUFFICES ASSUME FinalsOn(ledger, d) \subseteq Legacy
               PROVE  /\ \E home \in [Attempts -> Keys] : Covered(home, ledger, new, d)
                      /\ exact => Counted(at, ledger, new, d)
    BY DEF DaySound
  <1>1. PICK home \in [Attempts -> Keys] : Covered(home, was, table, d)
    BY DEF DaySound
  <1>2. Covered(home, ledger, new, d)
    BY <1>1, StillCovered
  <1>3. ASSUME exact PROVE Counted(at, ledger, new, d)
    <2>1. Counted(atWas, was, table, d)
      BY <1>3 DEF DaySound
    <2>2. \A a \in FinalsOn(ledger, d) : at[a] = atWas[a]
      BY <1>3 DEF HomeBy, FinalsOn
    <2>3. FinalsOn(ledger, d) = FinalsOn(was, d)
      BY <1>3
    <2> HIDE DEF at, atWas
    <2> QED BY <2>1, <2>2, <2>3, StillCounted
  <1> QED BY <1>2, <1>3

-----------------------------------------------------------------------------
LEMMA UsageInitInv == UsageInit => UsageInv
  <1> SUFFICES ASSUME UsageInit PROVE UsageInv
    OBVIOUS
  <1>1. UsageTyped
    <2>1. LedgerTyped(rows)
      BY UsageAssumption DEF UsageInit, LedgerTyped
    <2>2. CostsTyped(active)
      BY DEF UsageInit, CostsTyped
    <2>3. RollupsTyped(rollup)
      BY DEF UsageInit, RollupsTyped
    <2>4. imported \in [UsageDays \X Groups -> Nat \union {NoValue}]
      BY DEF UsageInit
    <2> QED BY <2>1, <2>2, <2>3, <2>4 DEF UsageInit, UsageTyped
  <1>2. ASSUME NEW d \in UsageDays PROVE DaySound(rows, active, rollup, moved = {}, d)
    <2> DEFINE home == HomeBy(active, "configured", d)
    <2>1. home \in [Attempts -> Keys]
      BY <1>1, HomeType DEF UsageTyped, Roots
    <2>2. FinalsOn(rows, d) = {}
      BY DEF UsageInit, FinalsOn
    <2>3. \A k \in DayKeys(d) : rollup[k] = NoValue
      BY DEF UsageInit, DayKeys
    <2>4. Covered(home, rows, rollup, d) /\ Counted(home, rows, rollup, d)
      BY <2>2, <2>3 DEF Covered, Counted, Housed
    <2> QED BY <2>1, <2>4 DEF DaySound
  <1> QED BY <1>1, <1>2 DEF UsageInv, DaysSound, UsageInit

LEMMA CollectorKeeps ==
    ASSUME UsageInv, NEW v, ViewTyped(v), NEW a \in Attempts, NEW day \in UsageDays, NEW tokens \in Sizes,
           NEW cost \in V1Prices, CollectorReports(v, a, day, tokens, cost)
    PROVE  UsageInv'
  <1> DEFINE new == [final |-> TRUE, day |-> day, tokens |-> tokens, reasoning |-> 0, cost |-> cost]
             seen == [v.rows EXCEPT ![a] = IF rows'[a] = rows[a] THEN @ ELSE rows'[a]]
             missed == Missed(seen, v.active, {day}, rows', active)
  <1>1. new \in EventRows /\ new # NoValue
    <2>1. tokens \in Nat /\ cost \in Money
      BY UsageAssumption
    <2>2. new \in EventRows
      BY <2>1 DEF EventRows
    <2> HIDE DEF new
    <2> QED BY <2>2, UsageAssumption
  <1>2. /\ a \in Legacy /\ active' = active /\ billing' = billing
        /\ views' = views /\ imported' = imported
        /\ rows' = rows \/ rows' = [rows EXCEPT ![a] = new]
        /\ rows[a] = NoValue => rows' = [rows EXCEPT ![a] = new]
        /\ rollup' = Refreshed(rollup, seen, v.active, "configured", {day})
        /\ stale' = (stale \ {day}) \union LeftStale(seen, {day}, rows', missed)
        /\ moved' = {} => moved = {} /\ missed = {} /\ StoredDay(a) \subseteq {rows'[a].day}
    <2>1. rows \in [Attempts -> EventRows \union {NoValue}]
      BY DEF UsageInv, UsageTyped, LedgerTyped
    <2>2. /\ rows' = [rows EXCEPT ![a] = Report(a, day, tokens, cost)]
          /\ Report(a, day, tokens, cost) \in {new, rows[a]}
          /\ rows[a] = NoValue => Report(a, day, tokens, cost) = new
      BY DEF CollectorReports, Report
    <2>3. rows' = rows \/ rows' = [rows EXCEPT ![a] = new]
      BY <2>1, <2>2
    <2>4. moved' = moved \union missed \union {b \in {a} : ~ StoredDay(b) \subseteq {rows'[b].day}}
      BY DEF CollectorReports
    <2> HIDE DEF new, seen, missed
    <2>5. moved' = {} => moved = {} /\ missed = {} /\ StoredDay(a) \subseteq {rows'[a].day}
      BY <2>4
    <2> QED BY <2>2, <2>3, <2>5 DEF CollectorReports, seen, missed
  <1> HIDE DEF new
  <1>3. LedgerTyped(rows') /\ rows'[a] # NoValue /\ rows'[a].final
    <2>1. rows[a] # NoValue => rows[a].final
      BY <1>2 DEF UsageInv, UsageTyped, LedgerTyped
    <2>2. new.final
      BY DEF new
    <2>3. LedgerTyped(rows)
      BY DEF UsageInv, UsageTyped
    <2>4. CASE rows' = rows /\ rows[a] # NoValue
      BY <2>1, <2>3, <2>4
    <2>5. CASE rows' = [rows EXCEPT ![a] = new]
      BY <1>1, <2>2, <2>3, <2>5 DEF LedgerTyped
    <2> QED BY <1>2, <2>4, <2>5
  <1>4. RollupsTyped(rollup')
    <2>1. v.rows \in [Attempts -> EventRows \union {NoValue}]
      BY DEF ViewTyped, LedgerTyped
    <2>2. rows'[a] \in EventRows
      BY <1>3 DEF LedgerTyped
    <2>3. LedgerTyped(seen)
      <3>1. seen \in [Attempts -> EventRows \union {NoValue}]
        BY <2>1, <2>2
      <3>2. \A b \in Attempts : seen[b] = v.rows[b] \/ (b = a /\ seen[b] = rows'[a])
        BY <2>1
      <3>3. LedgerTyped(v.rows)
        BY DEF ViewTyped
      <3>4. seen[a] \in {v.rows[a], rows'[a]} /\ \A b \in Attempts \ {a} : seen[b] = v.rows[b]
        BY <3>2
      <3> HIDE DEF seen
      <3> QED BY <1>3, <3>1, <3>3, <3>4, UsageAssumption DEF LedgerTyped
    <2>4. CostsTyped(v.active)
      BY DEF ViewTyped
    <2> HIDE DEF seen
    <2> QED BY <1>2, <2>3, <2>4, RefreshedType DEF UsageInv, UsageTyped
  <1> HIDE DEF seen, missed
  <1>5. UsageTyped'
    BY <1>2, <1>3, <1>4 DEF UsageInv, UsageTyped
  <1>6. \A b \in Attempts \ {a} : rows'[b] = rows[b]
    BY <1>2 DEF UsageInv, UsageTyped, LedgerTyped
  <1>7. ASSUME NEW d \in UsageDays \ stale' PROVE DaySound(rows', active, rollup', moved' = {}, d)
    <2>1. /\ d \notin stale => DaySound(rows, active, rollup, moved = {}, d)
          /\ moved = {} => stale = {}
      BY DEF UsageInv, DaysSound
    <2>2. ASSUME moved' = {}, NEW b \in FinalsOn(rows, d) PROVE b \in FinalsOn(rows', d)
      BY <1>2, <1>3, <1>6, <2>2 DEF FinalsOn, StoredDay, DayOf
    <2>3. CASE d = day
      <3>1. Refreshes(rollup', rollup, HomeBy(active, "configured", d), rows', d)
        <4>1. d \in {day} /\ d \notin LeftStale(seen, {day}, rows', missed)
          BY <1>2, <2>3
        <4>2. CostsTyped(active)
          BY DEF UsageInv, UsageTyped
        <4> QED BY <1>2, <1>3, <4>1, <4>2, RefreshedFromView DEF missed
      <3>2. moved' = {} => ExactWas(rows, active, rollup, moved = {}, rows', active, "configured", d)
        BY <1>2, <2>1, <2>2 DEF GroupIn, ExactWas
      <3>3. CostsTyped(active) /\ "configured" \in Roots
        BY DEF UsageInv, UsageTyped, Roots
      <3>4. \A k \in DayKeys(d) : rollup[k] \in {rollup[k], NoValue}
        OBVIOUS
      <3> QED BY <1>4, <3>1, <3>2, <3>3, <3>4, DayRefreshes
    <2>4. CASE d # day
      <3>1. \A k \in DayKeys(d) : rollup'[k] = rollup[k]
        BY <1>2, <2>4 DEF Refreshed, DayKeys
      <3>2. rows' # rows => rows'[a].day = day
        BY <1>2 DEF new, UsageInv, UsageTyped, LedgerTyped
      <3>3. /\ FinalsOn(rows', d) \subseteq FinalsOn(rows, d)
            /\ \A b \in FinalsOn(rows', d) : rows'[b] = rows[b]
        BY <1>6, <2>4, <3>2 DEF FinalsOn
      <3>4. FinalsOn(rows', d) \subseteq Legacy =>
              /\ FinalsOn(rows, d) \subseteq Legacy
              /\ \A b \in FinalsOn(rows', d) : /\ b \in FinalsOn(rows, d)
                                               /\ Tokens(rows')[b] = Tokens(rows)[b]
        <4>1. \A b \in FinalsOn(rows, d) : b \in FinalsOn(rows', d) \/ b = a
          BY <1>6 DEF FinalsOn
        <4>2. \A b \in FinalsOn(rows', d) : Tokens(rows')[b] = Tokens(rows)[b]
          BY <3>3 DEF Tokens, AllTokens, FinalsOn
        <4> QED BY <1>2, <3>3, <4>1, <4>2
      <3>5. moved' = {} => moved = {} /\ FinalsOn(rows, d) \subseteq FinalsOn(rows', d)
        BY <1>2, <2>2
      <3>6. d \notin stale
        BY <1>2, <2>4
      <3> QED BY <2>1, <3>1, <3>4, <3>5, <3>6, DayStays DEF UsageInv, UsageTyped
    <2> QED BY <2>3, <2>4
  <1>8. moved' = {} => stale' = {}
    BY <1>2, NoneStale DEF UsageInv, DaysSound
  <1> QED BY <1>2, <1>5, <1>7, <1>8 DEF UsageInv, DaysSound

LEMMA SourceKeeps ==
    ASSUME UsageInv, NEW a \in Attempts, NEW day \in UsageDays, NEW final \in BOOLEAN,
           NEW size \in SourceSizes, SourceReports(a, day, final, size)
    PROVE  UsageInv'
  <1> DEFINE new == [final |-> final, day |-> day, tokens |-> size.tokens,
                     reasoning |-> size.reasoning, cost |-> NoValue]
  <1>1. new \in EventRows /\ new # NoValue /\ new.final = final /\ new.day = day
    BY UsageAssumption DEF EventRows, Money
  <1>2. /\ a \notin Legacy /\ StoredDay(a) \subseteq {day}
        /\ rows[a] # NoValue /\ rows[a].final => final
        /\ rows' = [rows EXCEPT ![a] = new]
        /\ active' = active /\ billing' = billing /\ rollup' = rollup /\ moved' = moved
        /\ imported' = imported /\ views' = views /\ stale' = stale
    BY DEF SourceReports
  <1> HIDE DEF new
  <1>3. UsageTyped'
    BY <1>1, <1>2 DEF UsageInv, UsageTyped, LedgerTyped
  <1>4. rows'[a] = new /\ \A b \in Attempts \ {a} : rows'[b] = rows[b]
    BY <1>2 DEF UsageInv, UsageTyped, LedgerTyped
  <1>5. ASSUME NEW d \in UsageDays \ stale PROVE DaySound(rows', active, rollup, moved = {}, d)
    <2>1. ASSUME FinalsOn(rows', d) \subseteq Legacy
          PROVE  /\ FinalsOn(rows, d) = FinalsOn(rows', d)
                 /\ \A b \in FinalsOn(rows', d) : rows'[b] = rows[b]
      <3>1. a \notin FinalsOn(rows', d)
        BY <1>2, <2>1
      <3>2. a \notin FinalsOn(rows, d)
        BY <1>1, <1>2, <1>4, <3>1 DEF FinalsOn, StoredDay, DayOf
      <3> QED BY <1>4, <3>1, <3>2 DEF FinalsOn
    <2>2. ASSUME FinalsOn(rows', d) \subseteq Legacy
          PROVE  \A b \in FinalsOn(rows', d) : Tokens(rows')[b] = Tokens(rows)[b]
      BY <2>1, <2>2 DEF Tokens, AllTokens, FinalsOn
    <2>3. DaySound(rows, active, rollup, moved = {}, d) /\ LedgerTyped(rows) /\ RollupsTyped(rollup)
      BY DEF UsageInv, UsageTyped, DaysSound
    <2> QED BY <2>1, <2>2, <2>3, DayStays
  <1> QED BY <1>2, <1>3, <1>5 DEF UsageInv, DaysSound

LEMMA RecordedType ==
    \A mode \in Modes, quote \in Quotes :
        Recorded(mode, quote) \in ActiveRows /\ Recorded(mode, quote).mode = mode
  BY UsageAssumption DEF Recorded, ActiveRows, Money

(* Costs that change leave a day alone as long as no attempt of it changes *)
(* its billing mode.                                                       *)
LEMMA CostsChange ==
    ASSUME NEW billsWas, NEW table, NEW exactWas \in BOOLEAN, NEW ledger, NEW bills,
           NEW exact \in BOOLEAN, NEW d,
           DaySound(ledger, billsWas, table, exactWas, d), LedgerTyped(ledger), RollupsTyped(table),
           exact => /\ exactWas
                    /\ \A a \in FinalsOn(ledger, d) : ModeOf(bills, a) = ModeOf(billsWas, a)
    PROVE  DaySound(ledger, bills, table, exact, d)
  BY DayStays

LEMMA PriceKeeps ==
    ASSUME UsageInv, NEW a \in Attempts, NEW quote \in Quotes, PriceUncosted(a, quote)
    PROVE  UsageInv'
  <1>1. /\ active[a] = NoValue
        /\ active' = [active EXCEPT ![a] = Recorded(billing[a], quote)]
        /\ rows' = rows /\ billing' = billing /\ rollup' = rollup
        /\ imported' = imported /\ views' = views /\ stale' = stale
        /\ moved' = {} => moved = {} /\ billing[a] = ModeOf(active, a)
    BY DEF PriceUncosted
  <1>2. Recorded(billing[a], quote) \in ActiveRows /\ Recorded(billing[a], quote).mode = billing[a]
    BY RecordedType DEF UsageInv, UsageTyped
  <1>3. CostsTyped(active')
    BY <1>1, <1>2 DEF UsageInv, UsageTyped, CostsTyped
  <1>4. ASSUME moved' = {} PROVE \A b \in Attempts : ModeOf(active', b) = ModeOf(active, b)
    <2>1. Recorded(billing[a], quote) # NoValue
      BY <1>2, UsageAssumption
    <2> QED BY <1>1, <1>2, <1>4, <2>1 DEF ModeOf, UsageInv, UsageTyped, CostsTyped
  <1>5. ASSUME NEW d \in UsageDays \ stale PROVE DaySound(rows, active', rollup, moved' = {}, d)
    <2>1. DaySound(rows, active, rollup, moved = {}, d) /\ LedgerTyped(rows) /\ RollupsTyped(rollup)
      BY DEF UsageInv, UsageTyped, DaysSound
    <2>2. moved' = {} =>
             /\ moved = {}
             /\ \A b \in FinalsOn(rows, d) : ModeOf(active', b) = ModeOf(active, b)
      BY <1>1, <1>4 DEF FinalsOn
    <2> QED BY <2>1, <2>2, CostsChange
  <1> QED BY <1>1, <1>3, <1>5 DEF UsageInv, UsageTyped, DaysSound

(* Finals of a day.                                                       *)
LEMMA FinalDay ==
    \A d \in UsageDays : \A a \in FinalsOn(rows, d) :
        a \in Attempts /\ a \in Finals /\ rows[a].day = d
  BY DEF Finals, FinalsIn, FinalsOn

LEMMA RepriceKeeps ==
    ASSUME UsageInv, NEW v, ViewTyped(v), NEW days \in SUBSET UsageDays, NEW quote \in Quotes,
           Reprice(v, days, quote)
    PROVE  UsageInv'
  <1> DEFINE priced == PricedIn(v.rows, days)
             touched == {v.rows[a].day : a \in priced}
             seen == [a \in Attempts |-> IF a \in priced THEN active'[a] ELSE v.active[a]]
             missed == Missed(v.rows, seen, touched, rows, active')
  <1>1. /\ active' = [a \in Attempts |-> IF a \in priced THEN Recorded(v.billing[a], quote)
                                         ELSE active[a]]
        /\ rollup' = Refreshed(rollup, v.rows, seen, "default", touched)
        /\ stale' = (stale \ touched) \union LeftStale(v.rows, touched, rows, missed)
        /\ rows' = rows /\ billing' = billing /\ imported' = imported /\ views' = views
        /\ moved' = {} => moved = {} /\ missed = {} /\ Moves(days, "default") = {}
    <2>1. moved' = moved \union missed \union Moves(days, "default")
      BY DEF Reprice
    <2> HIDE DEF missed
    <2>2. moved' = {} => moved = {} /\ missed = {} /\ Moves(days, "default") = {}
      BY <2>1
    <2> QED BY <2>2 DEF Reprice, Repriced, missed
  <1>2. CostsTyped(active')
    <2> HIDE DEF priced
    <2>1. \A a \in Attempts : Recorded(v.billing[a], quote) \in ActiveRows
      BY RecordedType DEF ViewTyped
    <2> QED BY <1>1, <2>1 DEF CostsTyped, UsageInv, UsageTyped
  <1>3. RollupsTyped(rollup')
    <2> HIDE DEF priced, touched
    <2>1. CostsTyped(seen) /\ LedgerTyped(v.rows)
      BY <1>2 DEF CostsTyped, ViewTyped
    <2> HIDE DEF seen
    <2> QED BY <1>1, <2>1, RefreshedType DEF UsageInv, UsageTyped
  <1>4. touched \subseteq days
    BY DEF PricedIn
  <1> HIDE DEF priced, touched, seen, missed
  <1>5. ASSUME moved' = {}, NEW d \in UsageDays, NEW a \in FinalsOn(rows, d)
        PROVE  /\ ModeOf(active', a) = ModeOf(active, a)
               /\ d \in days => GroupOf["default"][a] = GroupIn(a)
    BY <1>1, <1>5, FinalDay DEF Moves, GroupIn
  <1>6. ASSUME NEW d \in UsageDays \ stale' PROVE DaySound(rows, active', rollup', moved' = {}, d)
    <2>1. /\ d \notin stale => DaySound(rows, active, rollup, moved = {}, d)
          /\ moved = {} => stale = {}
          /\ LedgerTyped(rows) /\ RollupsTyped(rollup) /\ "default" \in Roots
      BY DEF UsageInv, UsageTyped, DaysSound, Roots
    <2>2. CASE d \in touched
      <3>1. Refreshes(rollup', rollup, HomeBy(active', "default", d), rows, d)
        <4>1. d \notin LeftStale(v.rows, touched, rows, missed)
          BY <1>1, <2>2
        <4> QED BY <1>1, <1>2, <2>1, <2>2, <4>1, RefreshedFromView DEF missed
      <3>2. moved' = {} => ExactWas(rows, active, rollup, moved = {}, rows, active', "default", d)
        <4>1. ASSUME moved' = {}
              PROVE  /\ moved = {} /\ DaySound(rows, active, rollup, moved = {}, d)
                     /\ \A a \in FinalsOn(rows, d) :
                           HomeBy(active', "default", d)[a] = HomeBy(active, "configured", d)[a]
                     /\ \A a \in FinalsOn(rows, d) : GroupOf["default"][a] = GroupIn(a)
          BY <1>1, <1>4, <1>5, <2>1, <2>2, <4>1, FinalDay DEF HomeBy, GroupIn
        <4> QED BY <4>1 DEF ExactWas
      <3>3. \A k \in DayKeys(d) : rollup[k] \in {rollup[k], NoValue}
        OBVIOUS
      <3> QED BY <1>2, <1>3, <2>1, <3>1, <3>2, <3>3, DayRefreshes
    <2>3. CASE d \notin touched
      <3>1. \A k \in DayKeys(d) : rollup'[k] = rollup[k]
        BY <1>1, <2>3 DEF Refreshed, DayKeys
      <3>2. moved' = {} => /\ moved = {}
                          /\ \A a \in FinalsOn(rows, d) : ModeOf(active', a) = ModeOf(active, a)
        BY <1>1, <1>5
      <3>3. DaySound(rows, active, rollup, moved = {}, d)
        BY <1>1, <2>1, <2>3
      <3> QED BY <2>1, <3>1, <3>2, <3>3, DayStays
    <2> QED BY <2>2, <2>3
  <1>7. moved' = {} => stale' = {}
    BY <1>1, NoneStale DEF UsageInv, DaysSound
  <1> QED BY <1>1, <1>2, <1>3, <1>6, <1>7 DEF UsageInv, UsageTyped, DaysSound

LEMMA RevertKeeps ==
    ASSUME UsageInv, NEW days \in SUBSET UsageDays, NEW mode \in Modes, NEW quote \in Quotes,
           Revert(days, mode, quote)
    PROVE  UsageInv'
  <1>1. /\ active' = [a \in Attempts |-> IF a \in PricedIn(rows, days)
                                         THEN Recorded(mode, quote) ELSE active[a]]
        /\ rows' = rows /\ billing' = billing /\ rollup' = rollup
        /\ imported' = imported /\ views' = views /\ stale' = stale
        /\ moved' = {} => moved = {} /\ Moves(days, "configured") = {}
    BY DEF Revert, Repriced
  <1>2. CostsTyped(active')
    BY <1>1, RecordedType DEF CostsTyped, UsageInv, UsageTyped
  <1>3. ASSUME NEW d \in UsageDays \ stale PROVE DaySound(rows, active', rollup, moved' = {}, d)
    <2>1. DaySound(rows, active, rollup, moved = {}, d) /\ LedgerTyped(rows) /\ RollupsTyped(rollup)
      BY DEF UsageInv, UsageTyped, DaysSound
    <2>2. ASSUME moved' = {}, NEW a \in FinalsOn(rows, d)
          PROVE  ModeOf(active', a) = ModeOf(active, a)
      BY <1>1, <2>2, FinalDay DEF Moves
    <2>3. moved' = {} => moved = {}
      BY <1>1
    <2> QED BY <2>1, <2>2, <2>3, CostsChange
  <1> QED BY <1>1, <1>2, <1>3 DEF UsageInv, UsageTyped, DaysSound

LEMMA RecomputeKeeps ==
    ASSUME UsageInv, NEW v, ViewTyped(v), NEW cost \in V1Prices, Recompute(v, cost)
    PROVE  UsageInv'
  <1> DEFINE changed == {a \in Attempts : v.rows[a] # NoValue /\ v.rows[a].cost # cost}
             seen == [a \in Attempts |-> IF a \in changed THEN rows'[a] ELSE v.rows[a]]
             missed == Missed(seen, v.active, UsageDays, rows', active)
  <1>1. /\ \A a \in changed : v.rows[a] = rows[a]
        /\ rows' = [a \in Attempts |-> IF a \in changed THEN [rows[a] EXCEPT !.cost = cost]
                                       ELSE rows[a]]
        /\ rollup' = Refreshed(rollup, seen, v.active, "configured", UsageDays)
        /\ stale' = LeftStale(seen, UsageDays, rows', missed)
        /\ active' = active /\ billing' = billing /\ imported' = imported /\ views' = views
        /\ moved' = moved \union missed
    BY DEF Recompute
  <1>2. \A a \in changed : rows[a] # NoValue
    BY <1>1
  <1> HIDE DEF missed, changed
  <1>3. ASSUME NEW a \in Attempts, rows[a] # NoValue
        PROVE  /\ rows'[a] \in EventRows /\ rows'[a] # NoValue
               /\ rows'[a].final = rows[a].final /\ rows'[a].day = rows[a].day
    <2>1. rows[a] \in EventRows /\ cost \in Money
      BY <1>3, UsageAssumption DEF UsageInv, UsageTyped, LedgerTyped
    <2>2. rows'[a] = [rows[a] EXCEPT !.cost = cost] \/ rows'[a] = rows[a]
      BY <1>1
    <2>3. /\ rows'[a] \in EventRows
          /\ rows'[a].final = rows[a].final /\ rows'[a].day = rows[a].day
      BY <2>1, <2>2 DEF EventRows
    <2> QED BY <2>3, UsageAssumption
  <1>4. \A a \in Attempts : rows[a] = NoValue => rows'[a] = NoValue
    BY <1>1, <1>2
  <1>5. LedgerTyped(rows')
    <2>1. rows' \in [Attempts -> EventRows \union {NoValue}]
      <3>1. \A a \in Attempts : rows'[a] \in EventRows \union {NoValue}
        BY <1>3, <1>4
      <3> QED BY <1>1, <3>1
    <2> QED BY <1>3, <1>4, <2>1, UsageAssumption DEF LedgerTyped, UsageInv, UsageTyped
  <1>6. RollupsTyped(rollup')
    <2>1. LedgerTyped(seen)
      <3>1. LedgerTyped(v.rows)
        BY DEF ViewTyped
      <3>2. \A a \in Attempts : seen[a] \in {rows'[a], v.rows[a]}
        OBVIOUS
      <3>3. seen \in [Attempts -> EventRows \union {NoValue}]
        BY <1>5, <3>1 DEF LedgerTyped
      <3> HIDE DEF seen
      <3> QED BY <1>5, <3>1, <3>2, <3>3, UsageAssumption DEF LedgerTyped
    <2> HIDE DEF seen
    <2> QED BY <1>1, <2>1, RefreshedType DEF UsageInv, UsageTyped, ViewTyped
  <1> HIDE DEF seen
  <1>7. ASSUME NEW d \in UsageDays \ stale' PROVE DaySound(rows', active, rollup', moved' = {}, d)
    <2>1. CostsTyped(active) /\ "configured" \in Roots
      BY DEF UsageInv, UsageTyped, Roots
    <2>2. FinalsOn(rows', d) = FinalsOn(rows, d)
      BY <1>3, <1>4 DEF FinalsOn
    <2>3. Refreshes(rollup', rollup, HomeBy(active, "configured", d), rows', d)
      <3>1. d \in UsageDays /\ d \notin LeftStale(seen, UsageDays, rows', missed)
        BY <1>1
      <3> QED BY <1>1, <1>5, <2>1, <3>1, RefreshedFromView DEF missed
    <2>4. \A a \in FinalsOn(rows', d) : GroupOf["configured"][a] = GroupIn(a)
      BY DEF GroupIn
    <2>5. moved' = {} => moved = {} /\ DaySound(rows, active, rollup, moved = {}, d)
      BY <1>1 DEF UsageInv, DaysSound
    <2>6. \A k \in DayKeys(d) : rollup[k] \in {rollup[k], NoValue}
      OBVIOUS
    <2>7. moved' = {} => ExactWas(rows, active, rollup, moved = {}, rows', active, "configured", d)
      BY <2>2, <2>4, <2>5 DEF ExactWas
    <2> QED BY <1>6, <2>1, <2>3, <2>6, <2>7, DayRefreshes
  <1>8. moved' = {} => stale' = {}
    <2>1. moved' = {} => missed = {}
      BY <1>1
    <2> QED BY <1>1, <2>1, NoneStale
  <1> QED BY <1>1, <1>5, <1>6, <1>7, <1>8 DEF UsageInv, UsageTyped, DaysSound

LEMMA RebuildKeeps ==
    ASSUME UsageInv, NEW v, ViewTyped(v), Rebuild(v)
    PROVE  UsageInv'
  <1> DEFINE left == [k \in Keys |-> IF v.rollup[k] = NoValue THEN rollup[k] ELSE NoValue]
             missed == Missed(v.rows, v.active, UsageDays, rows, active)
  <1>1. /\ rollup' = Refreshed(left, v.rows, v.active, "configured", UsageDays)
        /\ stale' = LeftStale(v.rows, UsageDays, rows, missed)
        /\ moved' = IF Undisturbed(v) THEN {} ELSE moved \union missed
        /\ rows' = rows /\ active' = active /\ billing' = billing
        /\ imported' = imported /\ views' = views
    BY DEF Rebuild, RebuiltFrom
  <1>2. /\ RollupsTyped(left)
        /\ \A k \in Keys : left[k] \in {rollup[k], NoValue}
        /\ Undisturbed(v) => \A k \in Keys : left[k] = NoValue
    BY DEF RollupsTyped, Undisturbed, UsageInv, UsageTyped
  <1>3. Undisturbed(v) => missed = {}
    BY DEF Undisturbed, Missed
  <1> HIDE DEF left, missed
  <1>4. RollupsTyped(rollup')
    BY <1>1, <1>2, RefreshedType DEF ViewTyped
  <1>5. moved' = {} => missed = {} /\ (Undisturbed(v) \/ moved = {})
    BY <1>1, <1>3
  <1>6. ASSUME NEW d \in UsageDays \ stale' PROVE DaySound(rows, active, rollup', moved' = {}, d)
    <2> DEFINE home == HomeBy(active, "configured", d)
    <2>1. LedgerTyped(rows) /\ CostsTyped(active) /\ "configured" \in Roots
      BY DEF UsageInv, UsageTyped, Roots
    <2>2. Refreshes(rollup', left, home, rows, d)
      <3>1. d \in UsageDays /\ d \notin LeftStale(v.rows, UsageDays, rows, missed)
        BY <1>1
      <3> QED BY <1>1, <2>1, <3>1, RefreshedFromView DEF missed
    <2>3. /\ home \in [Attempts -> Keys]
          /\ \A a \in Attempts : /\ home[a] \in DayKeys(d)
                                 /\ home[a][2] \in {GroupOf[r][a] : r \in Roots}
      BY <2>1, HomeType
    <2>4. CASE Undisturbed(v)
      <3> HIDE DEF home
      <3>1. Covered(home, rows, rollup', d)
        BY <1>4, <2>2, <2>3, RefreshCovers
      <3>2. Counted(home, rows, rollup', d)
        BY <1>2, <2>2, <2>4, <3>1 DEF Counted, Covered, Refreshes, DayKeys
      <3> QED BY <2>3, <3>1, <3>2 DEF DaySound, home
    <2>5. CASE ~ Undisturbed(v)
      <3>1. moved' = {} => moved = {} /\ DaySound(rows, active, rollup, moved = {}, d)
        BY <1>5, <2>5 DEF UsageInv, DaysSound
      <3>2. \A k \in DayKeys(d) : left[k] \in {rollup[k], NoValue}
        BY <1>2 DEF DayKeys
      <3>3. moved' = {} => ExactWas(rows, active, rollup, moved = {}, rows, active, "configured", d)
        BY <3>1 DEF ExactWas, GroupIn
      <3> QED BY <1>4, <2>1, <2>2, <3>2, <3>3, DayRefreshes
    <2> QED BY <2>4, <2>5
  <1>7. moved' = {} => stale' = {}
    BY <1>1, <1>5, NoneStale
  <1> QED BY <1>1, <1>4, <1>6, <1>7 DEF UsageInv, UsageTyped, DaysSound

LEMMA UsageStepInv == UsageInv /\ [UsageNext]_usageVars => UsageInv'
  <1> SUFFICES ASSUME UsageInv, [UsageNext]_usageVars PROVE UsageInv'
    OBVIOUS
  <1>1. ASSUME NEW a \in Attempts, NEW mode \in Modes, SetBilling(a, mode) PROVE UsageInv'
    BY <1>1 DEF SetBilling, UsageInv, UsageTyped
  <1>3. ASSUME OpenTransaction \/ (\E v \in views : EndTransaction(v)) PROVE UsageInv'
    <2>1. ViewTyped(Now)
      BY DEF ViewTyped, Now, UsageInv, UsageTyped
    <2>2. /\ views' \subseteq views \union {Now}
          /\ rows' = rows /\ active' = active /\ billing' = billing /\ rollup' = rollup
          /\ imported' = imported /\ stale' = stale /\ moved' = moved
      BY <1>3 DEF OpenTransaction, EndTransaction, database
    <2> QED BY <2>1, <2>2 DEF UsageInv, UsageTyped
  <1>4. ASSUME NEW i \in Imports, ImportHistory(i) PROVE UsageInv'
    <2>1. i.tokens \in Nat
      BY UsageAssumption
    <2>2. imported' \in [UsageDays \X Groups -> Nat \union {NoValue}]
      BY <1>4, <2>1 DEF ImportHistory, UsageInv, UsageTyped
    <2> QED BY <1>4, <2>2 DEF ImportHistory, database, UsageInv, UsageTyped
  <1>5. ASSUME NEW v \in views \union {Now}, RefreshRequest(v) PROVE UsageInv'
    <2>1. ViewTyped(v)
      BY DEF ViewTyped, Now, UsageInv, UsageTyped
    <2> QED BY <1>5, <2>1, CollectorKeeps, RepriceKeeps, RecomputeKeeps, RebuildKeeps
            DEF RefreshRequest
  <1>2. CASE UNCHANGED usageVars
    BY <1>2 DEF usageVars, database, UsageInv, UsageTyped
  <1> QED BY <1>1, <1>2, <1>3, <1>4, <1>5, SourceKeeps, PriceKeeps, RevertKeeps DEF UsageNext

(* Whatever collectors report, workers price and administrators do: the    *)
(* rollups of a day that only collectors report never count less than the  *)
(* ledger, and exactly as much while nothing has moved (services/rollups.py,*)
(* ingest.py, repricing.py).                                               *)
THEOREM CollectedCounted == UsageSpec => []CollectedDaysCounted
  <1>1. UsageSpec => []UsageInv
    BY UsageInitInv, UsageStepInv, PTL DEF UsageSpec
  <1> QED BY <1>1, InvCounts, PTL

-----------------------------------------------------------------------------
(* An active cost belongs to a final, and has one amount that says what its *)
(* mode and status say.                                                    *)
WellPriced(cost) ==
    /\ cost.mode = "subscription" => cost.amount = NoValue
    /\ cost.mode # "subscription" => cost.equivalent = NoValue
    /\ cost.amount # NoValue => cost.status \in {"priced", "partial", "estimated"}

CostsSound == \A a \in Attempts : active[a] # NoValue => a \in Finals /\ WellPriced(active[a])

(* What a rebuild makes of a group.                                        *)
FreshRow(ledger, bills, k) ==
    IF OfRollup(ledger, bills, "configured", k) = {} THEN NoValue
    ELSE RollupRow(ledger, bills, OfRollup(ledger, bills, "configured", k))

AsRebuilt(ledger, bills, table, d) == \A k \in DayKeys(d) : table[k] = FreshRow(ledger, bills, k)

RebuiltFresh == rebuilt \subseteq UsageDays /\ \A d \in rebuilt : AsRebuilt(rows, active, rollup, d)

(* What was final when a transaction read it is final now.                 *)
ViewsKnown == \A v \in views : FinalsIn(v.rows) \subseteq Finals

QueryInv == UsageInv /\ CostsSound /\ RebuiltFresh /\ ViewsKnown

-----------------------------------------------------------------------------
(* A rebuilt day stays so while nothing of it changes.                     *)
LEMMA StillFresh ==
    ASSUME NEW was, NEW billsWas, NEW table, NEW ledger, NEW bills, NEW new, NEW d,
           AsRebuilt(was, billsWas, table, d),
           \A k \in DayKeys(d) : new[k] = table[k],
           FinalsOn(ledger, d) = FinalsOn(was, d),
           \A a \in FinalsOn(ledger, d) : ledger[a] = was[a] /\ bills[a] = billsWas[a]
    PROVE  AsRebuilt(ledger, bills, new, d)
  <1> SUFFICES ASSUME NEW k \in DayKeys(d)
               PROVE  FreshRow(ledger, bills, k) = FreshRow(was, billsWas, k)
    BY DEF AsRebuilt
  <1>1. k[1] = d
    BY DEF DayKeys
  <1>2. OfRollup(ledger, bills, "configured", k) = OfRollup(was, billsWas, "configured", k)
    BY <1>1 DEF OfRollup, Joined, ModeOf
  <1>3. \A a \in OfRollup(ledger, bills, "configured", k) : a \in FinalsOn(ledger, d)
    BY <1>1 DEF OfRollup, Joined
  <1>4. RollupRow(ledger, bills, OfRollup(ledger, bills, "configured", k))
           = RollupRow(was, billsWas, OfRollup(ledger, bills, "configured", k))
    BY <1>3, RowSame
  <1> QED BY <1>2, <1>4 DEF FreshRow

LEMMA QueryInitInv == UsageInit => QueryInv
  <1> SUFFICES ASSUME UsageInit PROVE QueryInv
    OBVIOUS
  <1>1. CostsSound /\ RebuiltFresh /\ ViewsKnown
    BY DEF UsageInit, CostsSound, RebuiltFresh, ViewsKnown
  <1> QED BY <1>1, UsageInitInv DEF QueryInv

LEMMA RecordedSound == \A mode \in Modes, quote \in Quotes : WellPriced(Recorded(mode, quote))
  BY UsageAssumption DEF Recorded, WellPriced, CostStatuses

(* A refresh of a rebuilt day from what there is leaves it so.             *)
LEMMA RefreshedFresh ==
    ASSUME NEW ledger, NEW bills, NEW table, NEW days, NEW d, AsRebuilt(ledger, bills, table, d)
    PROVE  \A k \in DayKeys(d) : Refreshed(table, ledger, bills, "configured", days)[k] = table[k]
  <1> SUFFICES ASSUME NEW k \in DayKeys(d)
               PROVE  Refreshed(table, ledger, bills, "configured", days)[k] = table[k]
    OBVIOUS
  <1>1. k \in Keys /\ table[k] = FreshRow(ledger, bills, k)
    BY DEF DayKeys, AsRebuilt
  <1> QED BY <1>1 DEF Refreshed, FreshRow

LEMMA CollectorFresh ==
    ASSUME QueryInv, NEW v, NEW a \in Attempts, NEW day \in UsageDays, NEW tokens \in Sizes,
           NEW cost \in V1Prices, CollectorReports(v, a, day, tokens, cost)
    PROVE  CostsSound' /\ RebuiltFresh' /\ Finals \subseteq Finals'
  <1> DEFINE new == [final |-> TRUE, day |-> day, tokens |-> tokens, reasoning |-> 0, cost |-> cost]
             seen == [v.rows EXCEPT ![a] = IF rows'[a] = rows[a] THEN @ ELSE rows'[a]]
             missed == Missed(seen, v.active, {day}, rows', active)
  <1>1. /\ a \in Legacy /\ active' = active
        /\ rows' = rows \/ rows' = [rows EXCEPT ![a] = new]
        /\ rollup' = Refreshed(rollup, seen, v.active, "configured", {day})
        /\ LeftStale(seen, {day}, rows', missed) \subseteq stale'
        /\ rows' = rows => rebuilt' = rebuilt \ stale'
        /\ rows' # rows => rebuilt' = (rebuilt \ ({day} \union StoredDay(a))) \ stale'
    <2>1. rows \in [Attempts -> EventRows \union {NoValue}]
      BY DEF QueryInv, UsageInv, UsageTyped, LedgerTyped
    <2>2. /\ rows' = [rows EXCEPT ![a] = Report(a, day, tokens, cost)]
          /\ Report(a, day, tokens, cost) \in {new, rows[a]}
      BY DEF CollectorReports, Report
    <2>3. rows' = rows \/ rows' = [rows EXCEPT ![a] = new]
      BY <2>1, <2>2
    <2> HIDE DEF new
    <2> QED BY <2>3 DEF CollectorReports
  <1>2. new \in EventRows
    BY UsageAssumption DEF EventRows
  <1>3. new # NoValue /\ new.final /\ new.day = day
    BY <1>2, UsageAssumption
  <1>4. DOMAIN rows = Attempts
    BY DEF QueryInv, UsageInv, UsageTyped, LedgerTyped
  <1> HIDE DEF new, seen, missed
  <1>5. \A b \in Attempts \ {a} : rows'[b] = rows[b]
    BY <1>1, <1>4
  <1>6. rows' # rows => rows'[a] = new
    BY <1>1, <1>4
  <1>7. Finals \subseteq Finals'
    BY <1>3, <1>5, <1>6 DEF Finals, FinalsIn
  <1>8. ASSUME NEW d \in rebuilt' PROVE AsRebuilt(rows', active', rollup', d)
    <2>1. d \in rebuilt /\ d \notin stale' /\ AsRebuilt(rows, active, rollup, d)
      BY <1>1 DEF QueryInv, RebuiltFresh
    <2>2. CASE rows' = rows
      <3>1. ASSUME NEW k \in DayKeys(d) PROVE rollup'[k] = rollup[k]
        <4>1. CASE d = day
          <5>1. d \in {day} /\ d \notin LeftStale(seen, {day}, rows', missed)
            BY <1>1, <2>1, <4>1
          <5>2. Refreshed(rollup, seen, v.active, "configured", {day})[k]
                   = Refreshed(rollup, rows', active, "configured", {day})[k]
            BY <5>1, DayFromView DEF missed
          <5>3. Refreshed(rollup, rows, active, "configured", {day})[k] = rollup[k]
            BY <2>1, RefreshedFresh
          <5> QED BY <1>1, <2>2, <5>2, <5>3
        <4>2. CASE d # day
          BY <1>1, <4>2 DEF Refreshed, DayKeys
        <4> QED BY <4>1, <4>2
      <3> QED BY <1>1, <2>1, <2>2, <3>1, StillFresh
    <2>3. CASE rows' # rows
      <3>1. d # day /\ d \notin StoredDay(a)
        BY <1>1, <2>3
      <3>2. a \notin FinalsOn(rows, d) /\ a \notin FinalsOn(rows', d)
        BY <1>3, <1>6, <2>3, <3>1 DEF FinalsOn, StoredDay, DayOf
      <3>3. /\ FinalsOn(rows', d) = FinalsOn(rows, d)
            /\ \A b \in FinalsOn(rows', d) : rows'[b] = rows[b]
        BY <1>5, <3>2 DEF FinalsOn
      <3>4. \A k \in DayKeys(d) : rollup'[k] = rollup[k]
        BY <1>1, <3>1 DEF Refreshed, DayKeys
      <3> QED BY <1>1, <2>1, <3>3, <3>4, StillFresh
    <2> QED BY <2>2, <2>3
  <1> QED BY <1>1, <1>7, <1>8 DEF QueryInv, CostsSound, RebuiltFresh

LEMMA SourceFresh ==
    ASSUME QueryInv, NEW a \in Attempts, NEW day \in UsageDays, NEW final \in BOOLEAN,
           NEW size \in SourceSizes, SourceReports(a, day, final, size)
    PROVE  CostsSound' /\ RebuiltFresh' /\ Finals \subseteq Finals'
  <1> DEFINE new == [final |-> final, day |-> day, tokens |-> size.tokens,
                     reasoning |-> size.reasoning, cost |-> NoValue]
  <1>1. /\ StoredDay(a) \subseteq {day}
        /\ rows[a] # NoValue /\ rows[a].final => final
        /\ rows' = [rows EXCEPT ![a] = new]
        /\ active' = active /\ rollup' = rollup /\ rebuilt' = rebuilt \ {day}
    BY DEF SourceReports
  <1>2. new \in EventRows /\ new.final = final /\ new.day = day
    BY UsageAssumption DEF EventRows, Money
  <1> HIDE DEF new
  <1>3. new # NoValue
    BY <1>2, UsageAssumption
  <1>4. rows'[a] = new /\ \A b \in Attempts \ {a} : rows'[b] = rows[b]
    BY <1>1 DEF QueryInv, UsageInv, UsageTyped, LedgerTyped
  <1>5. Finals \subseteq Finals'
    BY <1>1, <1>2, <1>3, <1>4 DEF Finals, FinalsIn
  <1>6. ASSUME NEW d \in rebuilt' PROVE AsRebuilt(rows', active', rollup', d)
    <2>1. d \in rebuilt /\ d # day /\ AsRebuilt(rows, active, rollup, d)
      BY <1>1 DEF QueryInv, RebuiltFresh
    <2>2. a \notin FinalsOn(rows, d) /\ a \notin FinalsOn(rows', d)
      BY <1>1, <1>2, <1>4, <2>1 DEF FinalsOn, StoredDay, DayOf
    <2>3. /\ FinalsOn(rows', d) = FinalsOn(rows, d)
          /\ \A b \in FinalsOn(rows', d) : rows'[b] = rows[b]
      BY <1>4, <2>2 DEF FinalsOn
    <2> QED BY <1>1, <2>1, <2>3, StillFresh
  <1> QED BY <1>1, <1>5, <1>6 DEF QueryInv, CostsSound, RebuiltFresh

LEMMA PriceFresh ==
    ASSUME QueryInv, NEW a \in Attempts, NEW quote \in Quotes, PriceUncosted(a, quote)
    PROVE  CostsSound' /\ RebuiltFresh' /\ Finals \subseteq Finals'
  <1>1. /\ a \in Finals
        /\ active' = [active EXCEPT ![a] = Recorded(billing[a], quote)]
        /\ rows' = rows /\ rollup' = rollup /\ rebuilt' = rebuilt \ StoredDay(a)
    BY DEF PriceUncosted
  <1>2. /\ active'[a] = Recorded(billing[a], quote)
        /\ \A b \in Attempts \ {a} : active'[b] = active[b]
    BY <1>1 DEF QueryInv, UsageInv, UsageTyped, CostsTyped
  <1>3. WellPriced(Recorded(billing[a], quote))
    BY RecordedSound DEF QueryInv, UsageInv, UsageTyped
  <1>4. CostsSound' /\ Finals' = Finals
    <2>1. Finals' = Finals
      BY <1>1 DEF Finals
    <2> QED BY <1>1, <1>2, <1>3, <2>1 DEF QueryInv, CostsSound
  <1>5. ASSUME NEW d \in rebuilt' PROVE AsRebuilt(rows', active', rollup', d)
    <2>1. d \in rebuilt /\ d \notin StoredDay(a) /\ AsRebuilt(rows, active, rollup, d)
      BY <1>1 DEF QueryInv, RebuiltFresh
    <2>2. a \notin FinalsOn(rows, d)
      BY <2>1 DEF FinalsOn, StoredDay, DayOf
    <2>3. \A b \in FinalsOn(rows, d) : active'[b] = active[b]
      BY <1>2, <2>2 DEF FinalsOn
    <2> QED BY <1>1, <2>1, <2>3, StillFresh
  <1> QED BY <1>1, <1>4, <1>5 DEF QueryInv, RebuiltFresh

(* Reprices and reverts write the costs of days that are no longer rebuilt.*)
LEMMA RepriceFresh ==
    ASSUME QueryInv, NEW v, ViewTyped(v), FinalsIn(v.rows) \subseteq Finals,
           NEW days \in SUBSET UsageDays, NEW quote \in Quotes, Reprice(v, days, quote)
    PROVE  CostsSound' /\ RebuiltFresh' /\ Finals \subseteq Finals'
  <1> DEFINE priced == PricedIn(v.rows, days)
             touched == {v.rows[a].day : a \in priced}
             seen == [a \in Attempts |-> IF a \in priced THEN active'[a] ELSE v.active[a]]
  <1>1. /\ rows' = rows
        /\ rebuilt' = rebuilt \ (days \union {rows[a].day : a \in priced})
        /\ active' = [a \in Attempts |-> IF a \in priced THEN Recorded(v.billing[a], quote)
                                         ELSE active[a]]
        /\ rollup' = Refreshed(rollup, v.rows, seen, "default", touched)
    BY DEF Reprice, Repriced
  <1>2. touched \subseteq days /\ priced \subseteq Finals
    BY DEF PricedIn
  <1> HIDE DEF priced, touched, seen
  <1>3. \A a \in Attempts : WellPriced(Recorded(v.billing[a], quote))
    BY RecordedSound DEF ViewTyped
  <1>4. Finals' = Finals
    BY <1>1 DEF Finals
  <1>5. CostsSound'
    BY <1>1, <1>2, <1>3, <1>4 DEF QueryInv, CostsSound
  <1>6. ASSUME NEW d \in rebuilt' PROVE AsRebuilt(rows', active', rollup', d)
    <2>1. /\ d \in rebuilt /\ d \notin days /\ AsRebuilt(rows, active, rollup, d)
          /\ d \notin {rows[a].day : a \in priced}
      BY <1>1 DEF QueryInv, RebuiltFresh
    <2>2. \A a \in FinalsOn(rows, d) : active'[a] = active[a]
      BY <1>1, <2>1 DEF FinalsOn
    <2>3. \A k \in DayKeys(d) : rollup'[k] = rollup[k]
      BY <1>1, <1>2, <2>1 DEF DayKeys, Refreshed
    <2> QED BY <1>1, <2>1, <2>2, <2>3, StillFresh
  <1> QED BY <1>1, <1>4, <1>5, <1>6 DEF QueryInv, RebuiltFresh

LEMMA RevertFresh ==
    ASSUME QueryInv, NEW days \in SUBSET UsageDays, NEW mode \in Modes, NEW quote \in Quotes,
           Revert(days, mode, quote)
    PROVE  CostsSound' /\ RebuiltFresh' /\ Finals \subseteq Finals'
  <1>1. /\ rows' = rows /\ rebuilt' = rebuilt \ days /\ rollup' = rollup
        /\ \A a \in Attempts : a \notin PricedIn(rows, days) => active'[a] = active[a]
        /\ \A a \in PricedIn(rows, days) : active'[a] = Recorded(mode, quote)
    BY DEF Revert, Repriced, PricedIn, FinalsIn
  <1>2. WellPriced(Recorded(mode, quote))
    BY RecordedSound
  <1>3. Finals' = Finals
    BY <1>1 DEF Finals
  <1>4. CostsSound'
    BY <1>1, <1>2, <1>3 DEF QueryInv, CostsSound, PricedIn, Finals
  <1>5. ASSUME NEW d \in rebuilt' PROVE AsRebuilt(rows', active', rollup', d)
    <2>1. d \in rebuilt /\ d \notin days /\ AsRebuilt(rows, active, rollup, d)
      BY <1>1 DEF QueryInv, RebuiltFresh
    <2>2. \A a \in FinalsOn(rows, d) : active'[a] = active[a]
      BY <1>1, <2>1 DEF FinalsOn, PricedIn
    <2> QED BY <1>1, <2>1, <2>2, StillFresh
  <1> QED BY <1>1, <1>3, <1>4, <1>5 DEF QueryInv, RebuiltFresh

LEMMA RecomputeFresh ==
    ASSUME QueryInv, NEW v, NEW cost \in V1Prices, Recompute(v, cost)
    PROVE  CostsSound' /\ RebuiltFresh' /\ Finals \subseteq Finals'
  <1> DEFINE changed == {a \in Attempts : v.rows[a] # NoValue /\ v.rows[a].cost # cost}
  <1>1. /\ rows' = [a \in Attempts |-> IF a \in changed THEN [rows[a] EXCEPT !.cost = cost]
                                       ELSE rows[a]]
        /\ active' = active /\ rebuilt' = {}
    BY DEF Recompute
  <1> HIDE DEF changed
  <1>2. ASSUME NEW a \in Finals PROVE a \in Finals'
    <2>1. rows[a] \in EventRows /\ rows[a] # NoValue /\ rows[a].final /\ a \in Attempts
      BY DEF Finals, FinalsIn, QueryInv, UsageInv, UsageTyped, LedgerTyped
    <2>2. rows'[a] \in {rows[a], [rows[a] EXCEPT !.cost = cost]} /\ cost \in Money
      BY <1>1, <2>1, UsageAssumption
    <2>3. rows'[a] \in EventRows /\ rows'[a].final
      BY <2>1, <2>2 DEF EventRows
    <2> QED BY <2>1, <2>3, UsageAssumption DEF Finals, FinalsIn
  <1> QED BY <1>1, <1>2 DEF QueryInv, CostsSound, RebuiltFresh

(* A rebuild that nobody disturbs makes all days anew.                     *)
LEMMA RebuildFresh ==
    ASSUME QueryInv, NEW v, Rebuild(v)
    PROVE  CostsSound' /\ RebuiltFresh' /\ Finals \subseteq Finals'
  <1> DEFINE left == [k \in Keys |-> IF v.rollup[k] = NoValue THEN rollup[k] ELSE NoValue]
  <1>1. /\ rollup' = Refreshed(left, v.rows, v.active, "configured", UsageDays)
        /\ rebuilt' = (IF Undisturbed(v) THEN UsageDays ELSE {})
        /\ rows' = rows /\ active' = active
    BY DEF Rebuild, RebuiltFrom
  <1>2. CostsSound' /\ Finals' = Finals
    BY <1>1 DEF Finals, QueryInv, CostsSound
  <1>3. ASSUME Undisturbed(v) PROVE RebuiltFresh'
    <2>1. rollup' = Refreshed(left, rows, active, "configured", UsageDays)
      BY <1>1, <1>3 DEF Undisturbed
    <2>2. \A k \in Keys : left[k] = NoValue
      BY <1>3 DEF Undisturbed
    <2> HIDE DEF left
    <2>3. \A k \in Keys : rollup'[k] = FreshRow(rows, active, k)
      <3> TAKE k \in Keys
      <3>1. k[1] \in UsageDays
        BY DEF Keys
      <3> QED BY <2>1, <2>2, <3>1 DEF Refreshed, FreshRow
    <2>4. \A d \in rebuilt' : AsRebuilt(rows', active', rollup', d)
      BY <1>1, <2>3 DEF AsRebuilt, DayKeys
    <2> QED BY <1>1, <1>3, <2>4 DEF RebuiltFresh
  <1>4. ASSUME ~ Undisturbed(v) PROVE RebuiltFresh'
    BY <1>1, <1>4 DEF RebuiltFresh
  <1> QED BY <1>2, <1>3, <1>4

LEMMA QueryStepInv == QueryInv /\ [UsageNext]_usageVars => QueryInv'
  <1> SUFFICES ASSUME QueryInv, [UsageNext]_usageVars PROVE QueryInv'
    OBVIOUS
  <1>9. ASSUME /\ CostsSound' /\ RebuiltFresh' /\ Finals \subseteq Finals'
               /\ views' \subseteq views \union {Now}
        PROVE  QueryInv'
    <2>1. UsageInv'
      BY UsageStepInv DEF QueryInv
    <2>2. FinalsIn(Now.rows) = Finals
      BY DEF Now, Finals
    <2>3. ViewsKnown'
      BY <1>9, <2>2 DEF QueryInv, ViewsKnown
    <2> QED BY <1>9, <2>1, <2>3 DEF QueryInv
  <1>1. ASSUME NEW v \in views \union {Now}, RefreshRequest(v)
        PROVE  CostsSound' /\ RebuiltFresh' /\ Finals \subseteq Finals' /\ views' = views
    <2>1. ViewTyped(v) /\ FinalsIn(v.rows) \subseteq Finals
      BY DEF ViewTyped, Now, Finals, QueryInv, ViewsKnown, UsageInv, UsageTyped
    <2>2. views' = views
      BY <1>1 DEF RefreshRequest, CollectorReports, Reprice, Recompute, Rebuild
    <2> QED BY <1>1, <2>1, <2>2, CollectorFresh, RepriceFresh, RecomputeFresh, RebuildFresh
            DEF RefreshRequest
  <1>2. ASSUME NEW a \in Attempts, NEW mode \in Modes, SetBilling(a, mode)
        PROVE  CostsSound' /\ RebuiltFresh' /\ Finals \subseteq Finals' /\ views' = views
    BY <1>2 DEF SetBilling, QueryInv, CostsSound, RebuiltFresh, Finals
  <1>3. ASSUME OpenTransaction \/ (\E v \in views : EndTransaction(v))
        PROVE  /\ CostsSound' /\ RebuiltFresh' /\ Finals \subseteq Finals'
               /\ views' \subseteq views \union {Now}
    <2>1. /\ views' \subseteq views \union {Now}
          /\ rows' = rows /\ active' = active /\ rollup' = rollup /\ rebuilt' = rebuilt
      BY <1>3 DEF OpenTransaction, EndTransaction, database
    <2> QED BY <2>1 DEF QueryInv, CostsSound, RebuiltFresh, Finals
  <1>4. ASSUME NEW i \in Imports, ImportHistory(i)
        PROVE  CostsSound' /\ RebuiltFresh' /\ Finals \subseteq Finals' /\ views' = views
    BY <1>4 DEF ImportHistory, database, QueryInv, CostsSound, RebuiltFresh, Finals
  <1>5. ASSUME UNCHANGED usageVars
        PROVE  CostsSound' /\ RebuiltFresh' /\ Finals \subseteq Finals' /\ views' = views
    BY <1>5 DEF usageVars, database, QueryInv, CostsSound, RebuiltFresh, Finals
  <1>6. ASSUME NEW a \in Attempts, NEW day \in UsageDays, NEW final \in BOOLEAN,
               NEW size \in SourceSizes, SourceReports(a, day, final, size)
        PROVE  CostsSound' /\ RebuiltFresh' /\ Finals \subseteq Finals' /\ views' = views
    BY <1>6, SourceFresh DEF SourceReports
  <1>7. ASSUME NEW a \in Attempts, NEW quote \in Quotes, PriceUncosted(a, quote)
        PROVE  CostsSound' /\ RebuiltFresh' /\ Finals \subseteq Finals' /\ views' = views
    BY <1>7, PriceFresh DEF PriceUncosted
  <1>8. ASSUME NEW days \in SUBSET UsageDays, NEW mode \in Modes, NEW quote \in Quotes,
               Revert(days, mode, quote)
        PROVE  CostsSound' /\ RebuiltFresh' /\ Finals \subseteq Finals' /\ views' = views
    BY <1>8, RevertFresh DEF Revert
  <1>10. /\ CostsSound' /\ RebuiltFresh' /\ Finals \subseteq Finals'
         /\ views' \subseteq views \union {Now}
    BY <1>1, <1>2, <1>3, <1>4, <1>5, <1>6, <1>7, <1>8 DEF UsageNext
  <1> QED BY <1>9, <1>10

-----------------------------------------------------------------------------
(* The columns of single attempts.                                         *)
PricedOf == [a \in Attempts |-> Known(PricedOrV1(rows, active, a))]
BilledOf(status) == [a \in Attempts |-> Known(Billed(active, a, status))]
EquivalentOf == [a \in Attempts |-> Known(Equivalent(active, a))]
V1CostOf == [a \in Attempts |-> Known(rows[a].cost)]
UnpricedOf ==
    [a \in Attempts |-> IF active[a] # NoValue /\ active[a].status \in {"unpriced", "error"}
                        THEN 1 ELSE 0]

LEMMA ColumnTypes ==
    ASSUME UsageTyped
    PROVE  /\ \A a \in Attempts : /\ \A status : BilledOf(status)[a] \in Nat
                                  /\ EquivalentOf[a] \in Nat
                                  /\ UnpricedOf[a] \in Nat
                                  /\ Tokens(rows)[a] \in Nat
           /\ \A a \in Attempts : rows[a] # NoValue => PricedOf[a] \in Nat /\ V1CostOf[a] \in Nat
  <1>1. LedgerTyped(rows) /\ CostsTyped(active)
    BY DEF UsageTyped
  <1>2. \A a \in Attempts : /\ \A status : Billed(active, a, status) \in Money
                            /\ Equivalent(active, a) \in Money
    BY <1>1, BilledType
  <1>3. \A a \in Attempts : rows[a] # NoValue => rows[a].cost \in Money
    BY <1>1 DEF LedgerTyped, EventRows
  <1>4. \A a \in Attempts : rows[a] # NoValue => PricedOrV1(rows, active, a) \in Money
    BY <1>2, <1>3 DEF PricedOrV1
  <1> QED BY <1>1, <1>2, <1>3, <1>4, KnownType, TokensType
          DEF BilledOf, EquivalentOf, UnpricedOf, PricedOf, V1CostOf

(* A SUM, read as zero where it is NULL.                                   *)
LEMMA KnownSum ==
    ASSUME NEW some, IsFiniteSet(some), NEW f, NEW g, NEW t,
           \A a \in some : f[a] \in Money /\ g[a] = Known(f[a]),
           t = IF \A a \in some : f[a] = NoValue THEN NoValue ELSE Total(g, some)
    PROVE  Known(t) = Total(g, some)
  <1>1. \A a \in some : g[a] \in Nat
    BY KnownType
  <1>2. Total(g, some) \in Nat
    BY <1>1, TotalType
  <1>3. CASE \A a \in some : f[a] = NoValue
    <2>1. \A a \in some : g[a] = 0
      BY <1>3 DEF Known
    <2>2. {} \in SUBSET some /\ \A a \in some \ {} : g[a] = 0
      BY <2>1
    <2>3. Total(g, {}) = Total(g, some)
      BY <1>1, <2>2, TotalSubset
    <2>4. Total(g, some) = 0 /\ t = NoValue
      BY <1>3, <2>3, TotalEmpty
    <2> QED BY <2>4 DEF Known
  <1>4. CASE ~ \A a \in some : f[a] = NoValue
    <2>1. t = Total(g, some) /\ t # NoValue
      BY <1>2, <1>4, UsageAssumption
    <2> QED BY <2>1 DEF Known
  <1> QED BY <1>3, <1>4

(* Sums that queries write over a set are sums of the columns.             *)
LEMMA SameSum ==
    ASSUME NEW some, IsFiniteSet(some), NEW f, NEW g, \A a \in some : f[a] = g[a]
    PROVE  Total([a \in some |-> f[a]], some) = Total(g, some)
  <1> DEFINE h == [a \in some |-> f[a]]
  <1>1. \A a \in some : h[a] = g[a]
    OBVIOUS
  <1> HIDE DEF h
  <1>2. Total(h, some) = Total(g, some)
    BY <1>1, TotalSame
  <1> QED BY <1>2 DEF h

LEMMA NotPricedSum ==
    ASSUME NEW some \in SUBSET Attempts
    PROVE  NotPriced(active, some) = Total(UnpricedOf, some)
  <1> DEFINE bad == {a \in some : active[a] # NoValue /\ active[a].status \in {"unpriced", "error"}}
  <1>1. IsFiniteSet(some) /\ IsFiniteSet(bad) /\ bad \in SUBSET some
    BY UsageFinite, FS_Subset
  <1>2. \A a \in bad : UnpricedOf[a] = 1
    BY DEF UnpricedOf
  <1>3. \A a \in some \ bad : UnpricedOf[a] = 0
    BY DEF UnpricedOf
  <1>4. \A a \in some : UnpricedOf[a] \in Nat
    BY DEF UnpricedOf
  <1>5. NotPriced(active, some) = Cardinality(bad)
    BY DEF NotPriced
  <1> HIDE DEF bad
  <1>6. Total(UnpricedOf, bad) = Cardinality(bad)
    BY <1>1, <1>2, TotalOfOnes
  <1>7. Total(UnpricedOf, bad) = Total(UnpricedOf, some)
    BY <1>1, <1>3, <1>4, TotalSubset
  <1> QED BY <1>5, <1>6, <1>7

(* The columns of a rollup.                                                *)
LEMMA RowColumns ==
    ASSUME UsageTyped, NEW some \in SUBSET Attempts, \A a \in some : rows[a] # NoValue,
           NEW row, row = RollupRow(rows, active, some)
    PROVE  /\ row \in RollupRows /\ row # NoValue
           /\ row.tokens = Total(Tokens(rows), some)
           /\ Known(row.priced) = Total(PricedOf, some)
           /\ Known(row.partial) = Total(BilledOf("partial"), some)
           /\ Known(row.estimated) = Total(BilledOf("estimated"), some)
           /\ row.unpriced = Total(UnpricedOf, some)
           /\ Known(row.subscription) = Total(EquivalentOf, some)
  <1>1. IsFiniteSet(some)
    BY UsageFinite, FS_Subset
  <1>2. /\ row \in RollupRows /\ row # NoValue
        /\ row.tokens = Total(Tokens(rows), some)
    BY RowType DEF UsageTyped
  <1>3. row.unpriced = Total(UnpricedOf, some)
    BY NotPricedSum DEF RollupRow
  <1>4. \A a \in some : /\ \A status : Billed(active, a, status) \in Money
                      /\ Equivalent(active, a) \in Money
                      /\ PricedOrV1(rows, active, a) \in Money
    BY BilledType DEF PricedOrV1, UsageTyped, LedgerTyped, EventRows
  <1>5. Known(row.priced) = Total(PricedOf, some)
    <2> DEFINE f == [a \in some |-> PricedOrV1(rows, active, a)]
               h == [a \in some |-> Known(PricedOrV1(rows, active, a))]
    <2>1. \A a \in some : /\ f[a] \in Money /\ PricedOf[a] = Known(f[a]) /\ h[a] = PricedOf[a]
                        /\ f[a] = PricedOrV1(rows, active, a)
      BY <1>4 DEF PricedOf
    <2>2. row.priced = IF \A a \in some : PricedOrV1(rows, active, a) = NoValue
                       THEN NoValue ELSE Total(h, some)
      BY DEF RollupRow, SumKnown, Sum
    <2> HIDE DEF f, h
    <2>3. Total(h, some) = Total(PricedOf, some)
      BY <1>1, <2>1, TotalSame
    <2>4. row.priced = IF \A a \in some : f[a] = NoValue THEN NoValue ELSE Total(PricedOf, some)
      BY <2>1, <2>2, <2>3
    <2> QED BY <1>1, <2>1, <2>4, KnownSum
  <1>6. ASSUME NEW status, NEW t,
               t = SumKnown(LAMBDA a : Billed(active, a, status), some)
        PROVE  Known(t) = Total(BilledOf(status), some)
    <2> DEFINE f == [a \in some |-> Billed(active, a, status)]
               h == [a \in some |-> Known(Billed(active, a, status))]
               g == BilledOf(status)
    <2>1. \A a \in some : /\ f[a] \in Money /\ g[a] = Known(f[a])
                        /\ h[a] = g[a] /\ f[a] = Billed(active, a, status)
      BY <1>4 DEF BilledOf
    <2>2. t = IF \A a \in some : Billed(active, a, status) = NoValue
              THEN NoValue ELSE Total(h, some)
      BY <1>6 DEF SumKnown, Sum
    <2> HIDE DEF f, g, h
    <2>3. Total(h, some) = Total(g, some)
      BY <1>1, <2>1, TotalSame
    <2>4. t = IF \A a \in some : f[a] = NoValue THEN NoValue ELSE Total(g, some)
      BY <2>1, <2>2, <2>3
    <2>5. \A a \in some : f[a] \in Money /\ g[a] = Known(f[a])
      BY <2>1
    <2>6. Known(t) = Total(g, some)
      BY ONLY <1>1, <2>4, <2>5, KnownSum
    <2> QED BY <2>6 DEF g
  <1>7. Known(row.subscription) = Total(EquivalentOf, some)
    <2> DEFINE f == [a \in some |-> Equivalent(active, a)]
               h == [a \in some |-> Known(Equivalent(active, a))]
    <2>1. \A a \in some : /\ f[a] \in Money /\ EquivalentOf[a] = Known(f[a])
                        /\ h[a] = EquivalentOf[a] /\ f[a] = Equivalent(active, a)
      BY <1>4 DEF EquivalentOf
    <2>2. row.subscription = IF \A a \in some : Equivalent(active, a) = NoValue
                             THEN NoValue ELSE Total(h, some)
      BY DEF RollupRow, SumKnown, Sum
    <2> HIDE DEF f, h
    <2>3. Total(h, some) = Total(EquivalentOf, some)
      BY <1>1, <2>1, TotalSame
    <2>4. row.subscription = IF \A a \in some : f[a] = NoValue THEN NoValue
                             ELSE Total(EquivalentOf, some)
      BY <2>1, <2>2, <2>3
    <2> QED BY <1>1, <2>1, <2>4, KnownSum
  <1>8. /\ row.partial = SumKnown(LAMBDA a : Billed(active, a, "partial"), some)
        /\ row.estimated = SumKnown(LAMBDA a : Billed(active, a, "estimated"), some)
    BY DEF RollupRow
  <1>9. /\ Known(row.partial) = Total(BilledOf("partial"), some)
        /\ Known(row.estimated) = Total(BilledOf("estimated"), some)
    BY <1>6, <1>8
  <1> QED BY <1>2, <1>3, <1>5, <1>7, <1>9

AmountOf == [a \in Attempts |-> Known(active[a].amount)]

(* What queries sum of the ledger and of the active costs.                 *)
LEMMA SplitColumns ==
    ASSUME NEW some \in SUBSET Attempts
    PROVE  /\ Split(some).priced = Total(BilledOf("priced"), some)
           /\ Split(some).partial = Total(BilledOf("partial"), some)
           /\ Split(some).estimated = Total(BilledOf("estimated"), some)
           /\ Split(some).unpriced = Total(UnpricedOf, some)
           /\ Split(some).subscription = Total(EquivalentOf, some)
  <1>1. IsFiniteSet(some)
    BY UsageFinite, FS_Subset
  <1>2. ASSUME NEW status
        PROVE  Sum(LAMBDA a : Known(Billed(active, a, status)), some)
                  = Total(BilledOf(status), some)
    <2> DEFINE h == [a \in some |-> Known(Billed(active, a, status))]
               g == BilledOf(status)
    <2>1. \A a \in some : h[a] = g[a]
      BY DEF BilledOf
    <2>2. Sum(LAMBDA a : Known(Billed(active, a, status)), some) = Total(h, some)
      BY DEF Sum
    <2> HIDE DEF h, g
    <2>3. Total(h, some) = Total(g, some)
      BY <1>1, <2>1, TotalSame
    <2> QED BY <2>2, <2>3 DEF g
  <1>3. Sum(LAMBDA a : Known(Equivalent(active, a)), some) = Total(EquivalentOf, some)
    <2> DEFINE h == [a \in some |-> Known(Equivalent(active, a))]
    <2>1. \A a \in some : h[a] = EquivalentOf[a]
      BY DEF EquivalentOf
    <2>2. Sum(LAMBDA a : Known(Equivalent(active, a)), some) = Total(h, some)
      BY DEF Sum
    <2> HIDE DEF h
    <2> QED BY <1>1, <2>1, <2>2, TotalSame
  <1> QED BY <1>2, <1>3, NotPricedSum DEF Split

LEMMA AmountColumn ==
    ASSUME NEW some \in SUBSET Attempts
    PROVE  /\ Sum(LAMBDA a : Known(active[a].amount), some) = Total(AmountOf, some)
           /\ \A a \in some : active[a] # NoValue /\ active[a].mode = "subscription" =>
                 EquivalentOf[a] = Known(active[a].equivalent)
  <1>1. IsFiniteSet(some)
    BY UsageFinite, FS_Subset
  <1> DEFINE h == [a \in some |-> Known(active[a].amount)]
  <1>2. \A a \in some : h[a] = AmountOf[a]
    BY DEF AmountOf
  <1>3. Sum(LAMBDA a : Known(active[a].amount), some) = Total(h, some)
    BY DEF Sum
  <1> HIDE DEF h
  <1>4. Total(h, some) = Total(AmountOf, some)
    BY <1>1, <1>2, TotalSame
  <1> QED BY <1>3, <1>4 DEF EquivalentOf, Equivalent

(* The amount of a cost is in one of three columns, or there is none.      *)
LEMMA AmountSplits ==
    ASSUME QueryInv, NEW a \in Attempts, active[a] # NoValue
    PROVE  /\ AmountOf[a] \in Nat
           /\ AmountOf[a] = BilledOf("priced")[a]
                               + (BilledOf("partial")[a] + BilledOf("estimated")[a])
           /\ active[a].mode = "subscription" => AmountOf[a] = 0
           /\ active[a].mode # "subscription" => EquivalentOf[a] = 0
  <1>1. WellPriced(active[a]) /\ active[a] \in ActiveRows
    BY DEF QueryInv, CostsSound, UsageInv, UsageTyped, CostsTyped
  <1>2. active[a].amount \in Money
    BY <1>1 DEF ActiveRows
  <1>3. AmountOf[a] \in Nat /\ AmountOf[a] = Known(active[a].amount)
    BY <1>2, KnownType DEF AmountOf
  <1>4. \A status : BilledOf(status)[a] =
            IF active[a].mode # "subscription" /\ active[a].status = status THEN AmountOf[a] ELSE 0
    BY <1>3 DEF BilledOf, Billed, Known
  <1>5. active[a].mode = "subscription" => AmountOf[a] = 0
    BY <1>1, <1>3 DEF WellPriced, Known
  <1>6. active[a].mode # "subscription" => EquivalentOf[a] = 0
    BY DEF EquivalentOf, Equivalent, Known
  <1>7. AmountOf[a] # 0 => active[a].status \in {"priced", "partial", "estimated"}
    BY <1>1, <1>3 DEF WellPriced, Known
  <1> QED BY <1>3, <1>4, <1>5, <1>6, <1>7

(* The spend is what the three columns add up to.                          *)
LEMMA SpendSplits ==
    ASSUME QueryInv, NEW some \in SUBSET Attempts, \A a \in some : active[a] # NoValue
    PROVE  Spend(some) = Split(some).priced + Split(some).partial + Split(some).estimated
  <1>1. IsFiniteSet(some)
    BY UsageFinite, FS_Subset
  <1> DEFINE billed == {a \in some : active[a].mode # "subscription"}
             priced == BilledOf("priced")
             partial == BilledOf("partial")
             estimated == BilledOf("estimated")
             rest == [a \in some |-> partial[a] + estimated[a]]
  <1>2. \A a \in some : /\ priced[a] \in Nat /\ partial[a] \in Nat /\ estimated[a] \in Nat
                      /\ AmountOf[a] \in Nat /\ AmountOf[a] = priced[a] + rest[a]
                      /\ rest[a] = partial[a] + estimated[a]
    BY AmountSplits, ColumnTypes DEF QueryInv, UsageInv
  <1>3. billed \in SUBSET some /\ \A a \in some \ billed : AmountOf[a] = 0
    BY AmountSplits
  <1>4. Spend(some) = Total(AmountOf, billed)
    BY AmountColumn DEF Spend
  <1>5. /\ Split(some).priced = Total(priced, some) /\ Split(some).partial = Total(partial, some)
        /\ Split(some).estimated = Total(estimated, some)
    BY SplitColumns
  <1> HIDE DEF billed, priced, partial, estimated, rest
  <1>6. Total(AmountOf, billed) = Total(AmountOf, some)
    BY <1>1, <1>2, <1>3, TotalSubset
  <1>7. ASSUME NEW a \in some PROVE rest[a] \in Nat
    <2>1. partial[a] \in Nat /\ estimated[a] \in Nat /\ rest[a] = partial[a] + estimated[a]
      BY <1>2
    <2> QED BY <2>1
  <1>8. Total(AmountOf, some) = Total(priced, some) + Total(rest, some)
    BY <1>1, <1>2, <1>7, TotalPlus
  <1>9. Total(rest, some) = Total(partial, some) + Total(estimated, some)
    BY <1>1, <1>2, TotalPlus
  <1>10. /\ Total(priced, some) \in Nat /\ Total(partial, some) \in Nat
         /\ Total(estimated, some) \in Nat
    BY <1>1, <1>2, TotalType
  <1>11. Spend(some) = Total(priced, some) + Total(partial, some) + Total(estimated, some)
    <2> DEFINE p == Total(priced, some)
               q == Total(partial, some)
               e == Total(estimated, some)
               t == Total(rest, some)
    <2>1. Spend(some) = p + t /\ t = q + e /\ p \in Nat /\ q \in Nat /\ e \in Nat
      BY <1>4, <1>6, <1>8, <1>9, <1>10
    <2> HIDE DEF p, q, e, t
    <2>2. Spend(some) = p + q + e
      BY <2>1
    <2> QED BY <2>2 DEF p, q, e
  <1> QED BY <1>5, <1>11

LEMMA SubscriptionValue ==
    ASSUME QueryInv, NEW some \in SUBSET Attempts, \A a \in some : active[a] # NoValue
    PROVE  Split(some).subscription =
              Sum(LAMBDA a : Known(active[a].equivalent),
                  {a \in some : active[a].mode = "subscription"})
  <1>1. IsFiniteSet(some)
    BY UsageFinite, FS_Subset
  <1> DEFINE subscribed == {a \in some : active[a].mode = "subscription"}
             h == [a \in subscribed |-> Known(active[a].equivalent)]
  <1>2. /\ subscribed \in SUBSET some /\ \A a \in subscribed : h[a] = EquivalentOf[a]
        /\ \A a \in some \ subscribed : EquivalentOf[a] = 0
    BY AmountColumn, AmountSplits
  <1>3. Sum(LAMBDA a : Known(active[a].equivalent), subscribed) = Total(h, subscribed)
    BY DEF Sum
  <1>4. \A a \in some : EquivalentOf[a] \in Nat
    BY ColumnTypes DEF QueryInv, UsageInv
  <1>5. IsFiniteSet(subscribed)
    BY <1>1, FS_Subset
  <1> HIDE DEF h
  <1>6. Sum(LAMBDA a : Known(active[a].equivalent), subscribed) = Total(EquivalentOf, subscribed)
    BY <1>2, <1>3, <1>5, TotalSame
  <1> HIDE DEF subscribed
  <1>7. Total(EquivalentOf, subscribed) = Total(EquivalentOf, some)
    BY <1>1, <1>2, <1>4, TotalSubset
  <1>8. Split(some).subscription = Total(EquivalentOf, some)
    BY SplitColumns
  <1> QED BY <1>6, <1>7, <1>8 DEF subscribed

LEMMA CostsDoAgree == QueryInv => CostsAgree
  <1> SUFFICES ASSUME QueryInv, NEW r \in Ranges
               PROVE  LET some == Costed(r[1], r[2])
                          split == Split(some)
                      IN /\ Spend(some) = Dual(r[1], r[2]).spend
                         /\ Spend(some) = split.priced + split.partial + split.estimated
                         /\ split.subscription = Dual(r[1], r[2]).value
                         /\ \A a \in some : a \in FinalsOf(r[1], r[2])
                         /\ split.unpriced > 0 /\ Warned(r[1], r[2]) = {} =>
                               \E a \in some : active[a].status = "error"
    BY DEF CostsAgree
  <1> DEFINE some == Costed(r[1], r[2])
  <1>1. some \in SUBSET Attempts /\ \A a \in some : active[a] # NoValue /\ active[a].mode \in Modes
    BY DEF Costed, Viewed, QueryInv, UsageInv, UsageTyped, CostsTyped, ActiveRows
  <1>2. Spend(some) = Dual(r[1], r[2]).spend
    <2>1. {a \in some : active[a].mode # "subscription"}
             = {a \in some : active[a].mode = "api_billed"}
      BY <1>1 DEF Modes
    <2> QED BY <2>1 DEF Spend, Dual
  <1>3. Split(some).subscription = Dual(r[1], r[2]).value
    BY <1>1, SubscriptionValue DEF Dual
  <1>4. \A a \in some : a \in FinalsOf(r[1], r[2])
    BY DEF Costed, FinalsOf, QueryInv, CostsSound, Viewed
  <1>5. ASSUME Split(some).unpriced > 0, Warned(r[1], r[2]) = {}
        PROVE  \E a \in some : active[a].status = "error"
    <2> SUFFICES ASSUME \A a \in some : active[a].status # "error" PROVE FALSE
      OBVIOUS
    <2>1. {a \in some : active[a] # NoValue /\ active[a].status \in {"unpriced", "error"}} = {}
      BY <1>5 DEF Warned
    <2>2. Split(some).unpriced = 0
      BY <2>1, FS_EmptySet DEF Split, NotPriced
    <2> QED BY <1>5, <2>2
  <1> QED BY <1>1, <1>2, <1>3, <1>4, <1>5, SpendSplits

-----------------------------------------------------------------------------
(* Rollups of days that nothing has changed on: each is of the attempts    *)
(* whose grain it is.                                                      *)
Ours(days) == {a \in Finals : rows[a].day \in days}

KeysOf(days) == {k \in Keys : rollup[k] # NoValue /\ k[1] \in days}

Home == [a \in Attempts |-> <<rows[a].day, GroupIn(a), ModeOf(active, a)>>]

InKey(days, k) == {a \in Ours(days) : Home[a] = k}

LEMMA OursTyped ==
    ASSUME UsageTyped, NEW days
    PROVE  /\ Ours(days) \in SUBSET Attempts /\ IsFiniteSet(Ours(days))
           /\ KeysOf(days) \in SUBSET Keys /\ IsFiniteSet(KeysOf(days))
           /\ \A a \in Ours(days) : /\ rows[a] # NoValue /\ rows[a] \in EventRows
                                    /\ Home[a][1] = rows[a].day /\ Home[a][2] = GroupIn(a)
                                    /\ Home[a] \in DayKeys(rows[a].day)
  <1>1. Ours(days) \in SUBSET Attempts /\ KeysOf(days) \in SUBSET Keys
    BY DEF Ours, KeysOf, Finals, FinalsIn
  <1>2. IsFiniteSet(Ours(days)) /\ IsFiniteSet(KeysOf(days))
    BY <1>1, UsageFinite, FS_Subset
  <1>3. ASSUME NEW a \in Ours(days)
        PROVE  /\ rows[a] # NoValue /\ rows[a] \in EventRows
               /\ Home[a][1] = rows[a].day /\ Home[a][2] = GroupIn(a)
               /\ Home[a] \in DayKeys(rows[a].day)
    <2>1. a \in Attempts /\ rows[a] # NoValue /\ rows[a] \in EventRows
      BY DEF Ours, Finals, FinalsIn, UsageTyped, LedgerTyped
    <2>2. rows[a].day \in UsageDays
      BY <2>1 DEF EventRows
    <2>3. GroupIn(a) \in Groups
      BY <2>1, UsageAssumption DEF GroupIn, Roots
    <2>4. ModeOf(active, a) \in Modes
      BY <2>1 DEF ModeOf, UsageTyped, CostsTyped, ActiveRows, Modes
    <2>5. Home[a] = <<rows[a].day, GroupIn(a), ModeOf(active, a)>>
      BY <2>1 DEF Home
    <2>6. Home[a][1] = rows[a].day /\ Home[a][2] = GroupIn(a)
      BY <2>5
    <2>7. Home[a] \in Keys
      BY <2>2, <2>3, <2>4, <2>5 DEF Keys
    <2> QED BY <2>1, <2>6, <2>7 DEF DayKeys
  <1> QED BY <1>1, <1>2, <1>3

LEMMA RolledKeys ==
    ASSUME QueryInv, NEW days \in SUBSET rebuilt
    PROVE  /\ \A a \in Ours(days) : Home[a] \in KeysOf(days)
           /\ \A k \in KeysOf(days) : /\ InKey(days, k) # {}
                                      /\ rollup[k] = RollupRow(rows, active, InKey(days, k))
  <1>1. UsageTyped /\ \A d \in days : AsRebuilt(rows, active, rollup, d)
    BY DEF QueryInv, UsageInv, RebuiltFresh
  <1>2. ASSUME NEW d \in days, NEW k \in DayKeys(d)
        PROVE  OfRollup(rows, active, "configured", k) = InKey(days, k)
    <2>1. k \in Keys /\ k[1] = d /\ k = <<k[1], k[2], k[3]>>
      BY DEF DayKeys, Keys
    <2>2. ASSUME NEW a \in Attempts
          PROVE  Home[a] = k <=> rows[a].day = d /\ GroupIn(a) = k[2] /\ ModeOf(active, a) = k[3]
      BY <2>1 DEF Home
    <2> QED BY <2>1, <2>2 DEF OfRollup, Joined, FinalsOn, InKey, Ours, Finals, FinalsIn, GroupIn
  <1>3. ASSUME NEW d \in days, NEW k \in DayKeys(d)
        PROVE  rollup[k] = IF InKey(days, k) = {} THEN NoValue
                           ELSE RollupRow(rows, active, InKey(days, k))
    BY <1>1, <1>2, <1>3 DEF AsRebuilt, FreshRow
  <1>4. ASSUME NEW a \in Ours(days) PROVE Home[a] \in KeysOf(days)
    <2>1. /\ rows[a].day \in days /\ Home[a] \in DayKeys(rows[a].day)
          /\ a \in InKey(days, Home[a])
      BY <1>1, OursTyped DEF Ours, InKey
    <2>2. rollup[Home[a]] = RollupRow(rows, active, InKey(days, Home[a]))
      BY <1>3, <2>1
    <2>3. rollup[Home[a]] # NoValue
      <3>1. /\ InKey(days, Home[a]) \in SUBSET Attempts
            /\ \A b \in InKey(days, Home[a]) : rows[b] # NoValue
        BY <1>1, OursTyped DEF InKey
      <3> QED BY <1>1, <2>2, <3>1, RowColumns
    <2> QED BY <2>1, <2>3 DEF KeysOf, DayKeys
  <1>5. ASSUME NEW k \in KeysOf(days)
        PROVE  InKey(days, k) # {} /\ rollup[k] = RollupRow(rows, active, InKey(days, k))
    <2>1. k[1] \in days /\ k \in DayKeys(k[1]) /\ rollup[k] # NoValue
      BY DEF KeysOf, DayKeys
    <2> QED BY <1>3, <2>1
  <1> QED BY <1>4, <1>5

(* A column summed over rollups is summed over their attempts.             *)
LEMMA ColumnSum ==
    ASSUME QueryInv, NEW days \in SUBSET rebuilt, NEW ks \in SUBSET KeysOf(days),
           NEW f, \A a \in Ours(days) : f[a] \in Nat,
           NEW g, \A k \in ks : g[k] = Total(f, InKey(days, k))
    PROVE  Total(g, ks) = Total(f, {a \in Ours(days) : Home[a] \in ks})
  <1> DEFINE some == {a \in Ours(days) : Home[a] \in ks}
  <1>1. IsFiniteSet(some) /\ IsFiniteSet(ks)
    <2>1. UsageTyped
      BY DEF QueryInv, UsageInv
    <2>2. IsFiniteSet(Ours(days)) /\ IsFiniteSet(KeysOf(days))
      BY <2>1, OursTyped
    <2> QED BY <2>2, FS_Subset
  <1>2. \A k \in ks : {a \in some : Home[a] = k} = InKey(days, k)
    BY DEF InKey
  <1>3. InGroups(some, f, ks, Home, g)
    BY <1>2 DEF InGroups
  <1> QED BY <1>1, <1>3, TotalOfGroups

LEMMA KeyColumns ==
    ASSUME QueryInv, NEW days \in SUBSET rebuilt, NEW k \in KeysOf(days)
    PROVE  /\ Rollup(k) \in RollupRows
           /\ Rollup(k).tokens = Total(Tokens(rows), InKey(days, k))
           /\ Known(Rollup(k).priced) = Total(PricedOf, InKey(days, k))
           /\ Known(Rollup(k).partial) = Total(BilledOf("partial"), InKey(days, k))
           /\ Known(Rollup(k).estimated) = Total(BilledOf("estimated"), InKey(days, k))
           /\ Rollup(k).unpriced = Total(UnpricedOf, InKey(days, k))
           /\ Known(Rollup(k).subscription) = Total(EquivalentOf, InKey(days, k))
  <1>1. UsageTyped
    BY DEF QueryInv, UsageInv
  <1>2. InKey(days, k) \in SUBSET Attempts /\ \A a \in InKey(days, k) : rows[a] # NoValue
    BY <1>1, OursTyped DEF InKey
  <1>3. Rollup(k) = RollupRow(rows, active, InKey(days, k))
    <2>1. Rollup(k) = rollup[k]
      BY DEF Rollup, KeysOf
    <2> QED BY <2>1, RolledKeys
  <1> QED BY <1>1, <1>2, <1>3, RowColumns

LEMMA OursColumns ==
    ASSUME QueryInv, NEW days
    PROVE  \A a \in Ours(days) : /\ Tokens(rows)[a] \in Nat /\ PricedOf[a] \in Nat
                                 /\ \A status : BilledOf(status)[a] \in Nat
                                 /\ UnpricedOf[a] \in Nat /\ EquivalentOf[a] \in Nat
                                 /\ V1CostOf[a] \in Nat
  <1>1. UsageTyped
    BY DEF QueryInv, UsageInv
  <1> QED BY <1>1, OursTyped, ColumnTypes

LEMMA LedgerColumn ==
    ASSUME NEW some \in SUBSET Attempts, \A a \in some : rows[a] # NoValue
    PROVE  LedgerTokens(some) = Total(Tokens(rows), some)
  <1> DEFINE h == [a \in some |-> AllTokens(rows, a)]
             g == Tokens(rows)
  <1>1. IsFiniteSet(some)
    BY UsageFinite, FS_Subset
  <1>2. \A a \in some : h[a] = g[a]
    BY DEF Tokens
  <1>3. LedgerTokens(some) = Total(h, some)
    BY DEF LedgerTokens, Sum
  <1> HIDE DEF h, g
  <1>4. Total(h, some) = Total(g, some)
    BY <1>1, <1>2, TotalSame
  <1> QED BY <1>3, <1>4 DEF g

LEMMA BucketTokens ==
    ASSUME QueryInv, NEW days \in SUBSET rebuilt, NEW ks \in SUBSET KeysOf(days)
    PROVE  Bucket(ks).tokens = LedgerTokens({a \in Ours(days) : Home[a] \in ks})
  <1> DEFINE h == [k \in ks |-> Rollup(k).tokens]
             f == Tokens(rows)
             some == {a \in Ours(days) : Home[a] \in ks}
  <1>1. Bucket(ks).tokens = Total(h, ks)
    BY DEF Bucket, Sum
  <1>2. \A k \in ks : h[k] = Total(f, InKey(days, k))
    BY KeyColumns
  <1>3. \A a \in Ours(days) : f[a] \in Nat
    BY OursColumns
  <1>4. UsageTyped
    BY DEF QueryInv, UsageInv
  <1>5. some \in SUBSET Attempts /\ \A a \in some : rows[a] # NoValue
    BY <1>4, OursTyped
  <1>6. LedgerTokens(some) = Total(f, some)
    BY <1>5, LedgerColumn
  <1> HIDE DEF h, f
  <1>7. Total(h, ks) = Total(f, some)
    BY <1>2, <1>3, ColumnSum
  <1> QED BY <1>1, <1>6, <1>7

(* The costs of whole days.                                                *)
LEMMA AllColumnSum ==
    ASSUME QueryInv, NEW days \in SUBSET rebuilt,
           NEW f, \A a \in Ours(days) : f[a] \in Nat,
           NEW g, \A k \in KeysOf(days) : g[k] = Total(f, InKey(days, k))
    PROVE  Total(g, KeysOf(days)) = Total(f, Ours(days))
  <1>1. {a \in Ours(days) : Home[a] \in KeysOf(days)} = Ours(days)
    BY RolledKeys
  <1> DEFINE ks == KeysOf(days)
  <1>2. ks \in SUBSET KeysOf(days) /\ \A k \in ks : g[k] = Total(f, InKey(days, k))
    OBVIOUS
  <1>3. Total(g, ks) = Total(f, {a \in Ours(days) : Home[a] \in ks})
    <2> HIDE DEF ks
    <2> QED BY <1>2, ColumnSum
  <1> QED BY <1>1, <1>3

LEMMA RollupSplit ==
    ASSUME QueryInv, NEW days \in SUBSET rebuilt
    PROVE  /\ SplitOfRollups(KeysOf(days)).priced = Total(PricedOf, Ours(days))
           /\ SplitOfRollups(KeysOf(days)).partial = Total(BilledOf("partial"), Ours(days))
           /\ SplitOfRollups(KeysOf(days)).estimated = Total(BilledOf("estimated"), Ours(days))
           /\ SplitOfRollups(KeysOf(days)).unpriced = Total(UnpricedOf, Ours(days))
           /\ SplitOfRollups(KeysOf(days)).subscription = Total(EquivalentOf, Ours(days))
  <1> DEFINE ks == KeysOf(days)
  <1>1. SplitOfRollups(ks).priced = Total(PricedOf, Ours(days))
    <2> DEFINE g == [k \in ks |-> Known(Rollup(k).priced)]
    <2>1. SplitOfRollups(ks).priced = Total(g, ks)
      BY DEF SplitOfRollups, Sum
    <2>2. /\ \A k \in KeysOf(days) : g[k] = Total(PricedOf, InKey(days, k))
          /\ \A a \in Ours(days) : PricedOf[a] \in Nat
      BY KeyColumns, OursColumns
    <2> HIDE DEF g
    <2> QED BY <2>1, <2>2, AllColumnSum
  <1>2. SplitOfRollups(ks).partial = Total(BilledOf("partial"), Ours(days))
    <2> DEFINE g == [k \in ks |-> Known(Rollup(k).partial)]
               f == BilledOf("partial")
    <2>1. SplitOfRollups(ks).partial = Total(g, ks)
      BY DEF SplitOfRollups, Sum
    <2>2. /\ \A k \in KeysOf(days) : g[k] = Total(f, InKey(days, k))
          /\ \A a \in Ours(days) : f[a] \in Nat
      BY KeyColumns, OursColumns
    <2> HIDE DEF f, g
    <2>3. Total(g, ks) = Total(f, Ours(days))
      BY <2>2, AllColumnSum
    <2> QED BY <2>1, <2>3 DEF f
  <1>3. SplitOfRollups(ks).estimated = Total(BilledOf("estimated"), Ours(days))
    <2> DEFINE g == [k \in ks |-> Known(Rollup(k).estimated)]
               f == BilledOf("estimated")
    <2>1. SplitOfRollups(ks).estimated = Total(g, ks)
      BY DEF SplitOfRollups, Sum
    <2>2. /\ \A k \in KeysOf(days) : g[k] = Total(f, InKey(days, k))
          /\ \A a \in Ours(days) : f[a] \in Nat
      BY KeyColumns, OursColumns
    <2> HIDE DEF f, g
    <2>3. Total(g, ks) = Total(f, Ours(days))
      BY <2>2, AllColumnSum
    <2> QED BY <2>1, <2>3 DEF f
  <1>4. SplitOfRollups(ks).unpriced = Total(UnpricedOf, Ours(days))
    <2> DEFINE g == [k \in ks |-> Rollup(k).unpriced]
    <2>1. SplitOfRollups(ks).unpriced = Total(g, ks)
      BY DEF SplitOfRollups, Sum
    <2>2. /\ \A k \in KeysOf(days) : g[k] = Total(UnpricedOf, InKey(days, k))
          /\ \A a \in Ours(days) : UnpricedOf[a] \in Nat
      BY KeyColumns, OursColumns
    <2> HIDE DEF g
    <2> QED BY <2>1, <2>2, AllColumnSum
  <1>5. SplitOfRollups(ks).subscription = Total(EquivalentOf, Ours(days))
    <2> DEFINE g == [k \in ks |-> Known(Rollup(k).subscription)]
    <2>1. SplitOfRollups(ks).subscription = Total(g, ks)
      BY DEF SplitOfRollups, Sum
    <2>2. /\ \A k \in KeysOf(days) : g[k] = Total(EquivalentOf, InKey(days, k))
          /\ \A a \in Ours(days) : EquivalentOf[a] \in Nat
      BY KeyColumns, OursColumns
    <2> HIDE DEF g
    <2> QED BY <2>1, <2>2, AllColumnSum
  <1> QED BY <1>1, <1>2, <1>3, <1>4, <1>5

(* The active costs of the days, and the attempts without one.             *)
CostedOf(days) == {a \in Ours(days) : active[a] # NoValue}

LEMMA CostedPart ==
    ASSUME QueryInv, NEW days
    PROVE  /\ Total(PricedOf, Ours(days))
                 = Total(BilledOf("priced"), CostedOf(days)) + V1Costs(Ours(days))
           /\ Total(BilledOf("partial"), Ours(days)) = Total(BilledOf("partial"), CostedOf(days))
           /\ Total(BilledOf("estimated"), Ours(days))
                 = Total(BilledOf("estimated"), CostedOf(days))
           /\ Total(UnpricedOf, Ours(days)) = Total(UnpricedOf, CostedOf(days))
           /\ Total(EquivalentOf, Ours(days)) = Total(EquivalentOf, CostedOf(days))
           /\ V1Costs(Ours(days)) \in Nat
  <1> DEFINE ours == Ours(days)
             costed == CostedOf(days)
             others == ours \ costed
             priced == BilledOf("priced")
             partial == BilledOf("partial")
             estimated == BilledOf("estimated")
             h == [a \in others |-> Known(rows[a].cost)]
  <1>1. IsFiniteSet(ours) /\ costed \in SUBSET ours /\ ours \in SUBSET Attempts
    BY OursTyped DEF QueryInv, UsageInv, CostedOf
  <1>2. IsFiniteSet(costed) /\ IsFiniteSet(others)
    BY <1>1, FS_Subset
  <1>3. \A a \in ours : /\ PricedOf[a] \in Nat /\ UnpricedOf[a] \in Nat /\ EquivalentOf[a] \in Nat
                        /\ priced[a] \in Nat /\ partial[a] \in Nat /\ estimated[a] \in Nat
                        /\ V1CostOf[a] \in Nat
    BY OursColumns
  <1>4. \A a \in costed : PricedOf[a] = priced[a]
    BY <1>1 DEF PricedOf, BilledOf, PricedOrV1, CostedOf
  <1>5. \A a \in others : /\ a \in Attempts /\ active[a] = NoValue /\ rows[a] # NoValue
                          /\ rows[a].cost \in Money
    BY <1>1, OursTyped DEF QueryInv, UsageInv, CostedOf, EventRows
  <1>6. \A a \in others : /\ PricedOf[a] = V1CostOf[a] /\ h[a] = V1CostOf[a]
                          /\ partial[a] = 0 /\ estimated[a] = 0
                          /\ UnpricedOf[a] = 0 /\ EquivalentOf[a] = 0
    BY <1>5 DEF PricedOf, V1CostOf, PricedOrV1, BilledOf, Billed, UnpricedOf, EquivalentOf,
                Equivalent, Known
  <1>7. V1Costs(ours) = Total(h, others)
    <2>1. {a \in ours : active[a] = NoValue} = others
      BY <1>5 DEF CostedOf
    <2> QED BY <2>1 DEF V1Costs, Sum
  <1> HIDE DEF ours, costed, priced, partial, estimated, h
  <1>8. Total(PricedOf, ours) = Total(PricedOf, costed) + Total(PricedOf, others)
    BY <1>1, <1>3, TotalSplit
  <1>9. Total(PricedOf, costed) = Total(priced, costed)
    BY <1>2, <1>4, TotalSame
  <1>10. Total(PricedOf, others) = Total(h, others)
    BY <1>2, <1>6, TotalSame
  <1>11. Total(PricedOf, others) \in Nat
    BY <1>2, <1>3, TotalType
  <1>12. Total(partial, ours) = Total(partial, costed)
    BY <1>1, <1>3, <1>6, TotalSubset
  <1>13. Total(estimated, ours) = Total(estimated, costed)
    BY <1>1, <1>3, <1>6, TotalSubset
  <1>14. Total(UnpricedOf, ours) = Total(UnpricedOf, costed)
    BY <1>1, <1>3, <1>6, TotalSubset
  <1>15. Total(EquivalentOf, ours) = Total(EquivalentOf, costed)
    BY <1>1, <1>3, <1>6, TotalSubset
  <1> QED BY <1>7, <1>8, <1>9, <1>10, <1>11, <1>12, <1>13, <1>14, <1>15
          DEF ours, costed, priced, partial, estimated

LEMMA SplitsAgree ==
    ASSUME QueryInv, NEW days \in SUBSET rebuilt
    PROVE  SplitOfRollups(KeysOf(days))
              = [Split(CostedOf(days)) EXCEPT !.priced = @ + V1Costs(Ours(days))]
  <1>1. CostedOf(days) \in SUBSET Attempts
    BY OursTyped DEF QueryInv, UsageInv, CostedOf
  <1> DEFINE rolled == SplitOfRollups(KeysOf(days))
             split == Split(CostedOf(days))
  <1>2. /\ rolled.priced = split.priced + V1Costs(Ours(days))
        /\ rolled.partial = split.partial /\ rolled.estimated = split.estimated
        /\ rolled.unpriced = split.unpriced /\ rolled.subscription = split.subscription
    BY <1>1, RollupSplit, CostedPart, SplitColumns
  <1>3. rolled = [priced |-> rolled.priced, partial |-> rolled.partial,
                  estimated |-> rolled.estimated, unpriced |-> rolled.unpriced,
                  subscription |-> rolled.subscription]
    BY DEF SplitOfRollups
  <1>4. split = [priced |-> split.priced, partial |-> split.partial,
                 estimated |-> split.estimated, unpriced |-> split.unpriced,
                 subscription |-> split.subscription]
    BY DEF Split
  <1> HIDE DEF rolled, split
  <1>5. rolled = [split EXCEPT !.priced = @ + V1Costs(Ours(days))]
    BY <1>2, <1>3, <1>4
  <1> QED BY <1>5 DEF rolled, split

(* One cost for everything, where v1 has one.                              *)
LEMMA CostUsdColumns ==
    ASSUME QueryInv, NEW k \in KeysOf(rebuilt)
    PROVE  /\ CostUsd(k) \in Money
           /\ Known(Rollup(k).priced) \in Nat /\ Known(Rollup(k).partial) \in Nat
           /\ Known(Rollup(k).estimated) \in Nat
           /\ Known(CostUsd(k)) = Known(Rollup(k).priced)
                                     + (Known(Rollup(k).partial) + Known(Rollup(k).estimated))
  <1>1. Rollup(k) \in RollupRows
    BY KeyColumns
  <1>2. /\ Rollup(k).priced \in Money /\ Rollup(k).partial \in Money
        /\ Rollup(k).estimated \in Money
    BY <1>1 DEF RollupRows
  <1> DEFINE p == Known(Rollup(k).priced)
             q == Known(Rollup(k).partial)
             e == Known(Rollup(k).estimated)
  <1>3. p \in Nat /\ q \in Nat /\ e \in Nat
    BY <1>2, KnownType
  <1>4. CASE Rollup(k).priced = NoValue /\ Rollup(k).partial = NoValue
             /\ Rollup(k).estimated = NoValue
    BY <1>3, <1>4 DEF CostUsd, Known, Money
  <1>5. CASE ~ (Rollup(k).priced = NoValue /\ Rollup(k).partial = NoValue
                /\ Rollup(k).estimated = NoValue)
    <2>1. CostUsd(k) = p + q + e
      BY <1>5 DEF CostUsd
    <2> HIDE DEF p, q, e
    <2>2. CostUsd(k) \in Nat /\ CostUsd(k) = p + (q + e)
      BY <1>3, <2>1
    <2>3. CostUsd(k) # NoValue
      BY <2>2, UsageAssumption
    <2>4. Known(CostUsd(k)) = p + (q + e)
      BY <2>2, <2>3 DEF Known
    <2> QED BY <1>3, <2>2, <2>4 DEF p, q, e, Money
  <1> QED BY <1>4, <1>5

LEMMA TotalCostAgrees ==
    ASSUME QueryInv, NEW days \in SUBSET rebuilt
    PROVE  Known(Bucket(KeysOf(days)).cost) = Spend(CostedOf(days)) + V1Costs(Ours(days))
  <1> DEFINE ks == KeysOf(days)
             f == [k \in ks |-> CostUsd(k)]
             g == [k \in ks |-> Known(CostUsd(k))]
             p == [k \in ks |-> Known(Rollup(k).priced)]
             q == [k \in ks |-> Known(Rollup(k).partial)]
             e == [k \in ks |-> Known(Rollup(k).estimated)]
             rest == [k \in ks |-> q[k] + e[k]]
             t == Bucket(ks).cost
             costed == CostedOf(days)
             split == Split(costed)
             rolled == SplitOfRollups(ks)
  <1>1. UsageTyped /\ IsFiniteSet(ks) /\ \A k \in ks : k \in KeysOf(rebuilt)
    BY OursTyped DEF QueryInv, UsageInv, KeysOf
  <1>2. \A k \in ks : /\ f[k] \in Money /\ g[k] = Known(f[k])
                      /\ p[k] \in Nat /\ q[k] \in Nat /\ e[k] \in Nat
                      /\ g[k] = p[k] + rest[k] /\ rest[k] = q[k] + e[k]
    BY <1>1, CostUsdColumns
  <1>3. t = IF \A k \in ks : f[k] = NoValue THEN NoValue ELSE Total(g, ks)
    BY DEF Bucket, SumKnown, Sum
  <1>4. rolled.priced = Total(p, ks) /\ rolled.partial = Total(q, ks)
        /\ rolled.estimated = Total(e, ks)
    BY DEF SplitOfRollups, Sum
  <1>5. costed \in SUBSET Attempts /\ \A a \in costed : active[a] # NoValue
    BY <1>1, OursTyped DEF CostedOf
  <1>6. Spend(costed) = split.priced + split.partial + split.estimated
    BY <1>5, SpendSplits
  <1>7. /\ rolled.priced = split.priced + V1Costs(Ours(days))
        /\ rolled.partial = split.partial /\ rolled.estimated = split.estimated
    BY <1>5, RollupSplit, CostedPart, SplitColumns
  <1>8. /\ split.priced \in Nat /\ split.partial \in Nat /\ split.estimated \in Nat
        /\ V1Costs(Ours(days)) \in Nat
    <2>1. IsFiniteSet(costed)
      BY <1>5, UsageFinite, FS_Subset
    <2>2. \A a \in costed : \A status : BilledOf(status)[a] \in Nat
      BY <1>1, <1>5, ColumnTypes
    <2>3. \A status : Total(BilledOf(status), costed) \in Nat
      BY <2>1, <2>2, TotalType
    <2> QED BY <1>5, <2>3, SplitColumns, CostedPart
  <1> HIDE DEF ks, f, g, p, q, e, rest, t, costed, split, rolled
  <1>9. Known(t) = Total(g, ks)
    <2>1. \A k \in ks : f[k] \in Money /\ g[k] = Known(f[k])
      BY <1>2
    <2> QED BY ONLY <1>1, <1>3, <2>1, KnownSum
  <1>10. Total(g, ks) = Total(p, ks) + Total(rest, ks)
    <2>1. \A k \in ks : p[k] \in Nat /\ rest[k] \in Nat /\ g[k] = p[k] + rest[k]
      <3> TAKE k \in ks
      <3>1. q[k] \in Nat /\ e[k] \in Nat /\ rest[k] = q[k] + e[k]
        BY <1>2
      <3> QED BY <1>2, <3>1
    <2> QED BY <1>1, <2>1, TotalPlus
  <1>11. Total(rest, ks) = Total(q, ks) + Total(e, ks)
    BY <1>1, <1>2, TotalPlus
  <1>12. Known(t) = (split.priced + V1Costs(Ours(days))) + (split.partial + split.estimated)
    BY <1>4, <1>7, <1>9, <1>10, <1>11
  <1>13. Known(t) = (split.priced + split.partial + split.estimated) + V1Costs(Ours(days))
    BY <1>8, <1>12
  <1> QED BY <1>6, <1>13 DEF t, ks, costed

-----------------------------------------------------------------------------
(* Buckets per day, group or session add up to what is put in them.        *)
LEMMA AddsUp ==
    ASSUME NEW some, IsFiniteSet(some), NEW f, NEW h, NEW buckets,
           \A a \in some : f[a] \in Nat,
           DOMAIN buckets = {h[a] : a \in some},
           \A x \in DOMAIN buckets : buckets[x] = Total(f, {a \in some : h[a] = x})
    PROVE  Adds(buckets) = Total(f, some)
  <1> DEFINE found == DOMAIN buckets
             sums == [x \in found |-> buckets[x]]
  <1>1. IsFiniteSet(found)
    <2> DEFINE onto == [a \in some |-> h[a]]
    <2>1. onto \in Surjection(some, found)
      BY DEF Surjection
    <2> QED BY <2>1, FS_Surjection
  <1>2. InGroups(some, f, found, h, sums)
    BY DEF InGroups
  <1>3. Adds(buckets) = Total(sums, found)
    BY DEF Adds, Sum
  <1> HIDE DEF found, sums
  <1>4. IsFiniteSet(some)
    OBVIOUS
  <1>5. Total(f, some) = Total(sums, found)
    BY ONLY <1>1, <1>2, <1>4, TotalOfGroups
  <1> QED BY <1>3, <1>5

(* Queries of whole days find the days and groups of the ledger.           *)
LEMMA ByDayAgrees ==
    ASSUME QueryInv, NEW days \in SUBSET rebuilt
    PROVE  TokensOf(PerKey(KeysOf(days), LAMBDA k : k[1], Bucket))
              = PerKey(Ours(days), LAMBDA a : rows[a].day, LedgerTokens)
  <1>1. UsageTyped
    BY DEF QueryInv, UsageInv
  <1>2. {k[1] : k \in KeysOf(days)} = {rows[a].day : a \in Ours(days)}
    <2>1. ASSUME NEW k \in KeysOf(days) PROVE \E a \in Ours(days) : rows[a].day = k[1]
      <3>1. PICK a \in Ours(days) : Home[a] = k
        BY RolledKeys DEF InKey
      <3> QED BY <1>1, <3>1, OursTyped
    <2>2. ASSUME NEW a \in Ours(days) PROVE \E k \in KeysOf(days) : k[1] = rows[a].day
      <3>1. Home[a] \in KeysOf(days) /\ Home[a][1] = rows[a].day
        BY <1>1, RolledKeys, OursTyped
      <3> QED BY <3>1
    <2> QED BY <2>1, <2>2
  <1>3. ASSUME NEW x
        PROVE  Bucket({k \in KeysOf(days) : k[1] = x}).tokens
                  = LedgerTokens({a \in Ours(days) : rows[a].day = x})
    <2> DEFINE ks == {k \in KeysOf(days) : k[1] = x}
    <2>1. {a \in Ours(days) : Home[a] \in ks} = {a \in Ours(days) : rows[a].day = x}
      BY <1>1, RolledKeys, OursTyped
    <2>2. Bucket(ks).tokens = LedgerTokens({a \in Ours(days) : Home[a] \in ks})
      BY BucketTokens
    <2> QED BY <2>1, <2>2
  <1> QED BY <1>2, <1>3 DEF TokensOf, PerKey

LEMMA ByGroupAgrees ==
    ASSUME QueryInv, NEW days \in SUBSET rebuilt
    PROVE  TokensOf(PerKey(KeysOf(days), LAMBDA k : k[2], Bucket))
              = PerKey(Ours(days), GroupIn, LedgerTokens)
  <1>1. UsageTyped
    BY DEF QueryInv, UsageInv
  <1>2. {k[2] : k \in KeysOf(days)} = {GroupIn(a) : a \in Ours(days)}
    <2>1. ASSUME NEW k \in KeysOf(days) PROVE \E a \in Ours(days) : GroupIn(a) = k[2]
      <3>1. PICK a \in Ours(days) : Home[a] = k
        BY RolledKeys DEF InKey
      <3> QED BY <1>1, <3>1, OursTyped
    <2>2. ASSUME NEW a \in Ours(days) PROVE \E k \in KeysOf(days) : k[2] = GroupIn(a)
      <3>1. Home[a] \in KeysOf(days) /\ Home[a][2] = GroupIn(a)
        BY <1>1, RolledKeys, OursTyped
      <3> QED BY <3>1
    <2> QED BY <2>1, <2>2
  <1>3. ASSUME NEW x
        PROVE  Bucket({k \in KeysOf(days) : k[2] = x}).tokens
                  = LedgerTokens({a \in Ours(days) : GroupIn(a) = x})
    <2> DEFINE ks == {k \in KeysOf(days) : k[2] = x}
    <2>1. {a \in Ours(days) : Home[a] \in ks} = {a \in Ours(days) : GroupIn(a) = x}
      BY <1>1, RolledKeys, OursTyped
    <2>2. Bucket(ks).tokens = LedgerTokens({a \in Ours(days) : Home[a] \in ks})
      BY BucketTokens
    <2> QED BY <2>1, <2>2
  <1> QED BY <1>2, <1>3 DEF TokensOf, PerKey

LEMMA HeatmapAdds ==
    ASSUME QueryInv, NEW days, NEW to
    PROVE  /\ Adds(PerKey(Ours(days), LAMBDA a : rows[a].day, LedgerTokens))
                 = Total(Tokens(rows), Ours(days))
           /\ Adds(PerKey(InTime(Ours(days), to), LAMBDA a : rows[a].day, LedgerTokens))
                    + LedgerTokens(Ours(days) \ InTime(Ours(days), to))
                 = Total(Tokens(rows), Ours(days))
  <1> DEFINE f == Tokens(rows)
             ours == Ours(days)
             shown == InTime(ours, to)
             late == ours \ shown
             h == [a \in ours |-> rows[a].day]
  <1>1. /\ ours \in SUBSET Attempts /\ IsFiniteSet(ours)
        /\ \A a \in ours : rows[a] # NoValue /\ f[a] \in Nat
    BY OursTyped, OursColumns DEF QueryInv, UsageInv
  <1>2. shown \in SUBSET ours
    BY DEF InTime
  <1>3. ASSUME NEW some \in SUBSET ours
        PROVE  Adds(PerKey(some, LAMBDA a : rows[a].day, LedgerTokens)) = Total(f, some)
    <2> DEFINE buckets == PerKey(some, LAMBDA a : rows[a].day, LedgerTokens)
    <2>1. IsFiniteSet(some) /\ \A a \in some : f[a] \in Nat /\ h[a] = rows[a].day
      BY <1>1, FS_Subset
    <2>2. buckets = [x \in {h[a] : a \in some} |-> LedgerTokens({a \in some : h[a] = x})]
      BY <2>1 DEF PerKey
    <2>3. \A x : LedgerTokens({a \in some : h[a] = x}) = Total(f, {a \in some : h[a] = x})
      BY <1>1, LedgerColumn
    <2> HIDE DEF h, f, buckets
    <2>4. /\ DOMAIN buckets = {h[a] : a \in some}
          /\ \A x \in DOMAIN buckets : buckets[x] = Total(f, {a \in some : h[a] = x})
      BY <2>2, <2>3
    <2>5. Adds(buckets) = Total(f, some)
      BY <2>1, <2>4, AddsUp
    <2> QED BY <2>5 DEF buckets
  <1>4. LedgerTokens(late) = Total(f, late)
    BY <1>1, LedgerColumn
  <1>5. Total(f, ours) = Total(f, shown) + Total(f, late)
    <2> HIDE DEF f, ours, shown
    <2> QED BY <1>1, <1>2, TotalSplit
  <1> QED BY <1>2, <1>3, <1>4, <1>5

(* What was imported has keys of its own.                                  *)
LEMMA ImportsTyped ==
    ASSUME QueryInv
    PROVE  /\ IsFiniteSet(ImportKeys) /\ ImportKeys \cap Keys = {}
           /\ \A k \in ImportKeys : k[1] \in UsageDays /\ imported[k[1], k[2]] \in Nat
  <1>1. imported \in [UsageDays \X Groups -> Nat \union {NoValue}]
    BY DEF QueryInv, UsageInv, UsageTyped
  <1> DEFINE kept == {i \in DOMAIN imported : imported[i] # NoValue}
             key == [i \in kept |-> <<i[1], i[2], "imported">>]
  <1>2. IsFiniteSet(kept)
    <2>1. IsFiniteSet(UsageDays \X Groups)
      BY UsageAssumption, FS_Product
    <2> QED BY <1>1, <2>1, FS_Subset
  <1>3. IsFiniteSet(ImportKeys)
    <2>1. key \in Surjection(kept, ImportKeys)
      BY DEF Surjection, ImportKeys
    <2> QED BY <1>2, <2>1, FS_Surjection
  <1>4. ASSUME NEW k \in ImportKeys
        PROVE  k \notin Keys /\ k[1] \in UsageDays /\ imported[k[1], k[2]] \in Nat
    <2>1. PICK i \in kept : k = <<i[1], i[2], "imported">>
      BY DEF ImportKeys
    <2>2. i \in UsageDays \X Groups /\ i = <<i[1], i[2]>> /\ imported[i] \in Nat
      BY <1>1
    <2>3. k[3] = "imported"
      BY <2>1
    <2> QED BY <2>1, <2>2, <2>3 DEF Keys, Modes
  <1> QED BY <1>3, <1>4

(* A rebuilt day counts the ledger, and on top of it what was imported.    *)
LEMMA ImportsOnTop ==
    ASSUME QueryInv, NEW day \in rebuilt
    PROVE  Bucket(RollupsOf(day, day)).tokens
              = LedgerTokens(FinalsOn(rows, day)) + ImportedTokens(day)
  <1> DEFINE days == {day}
             derived == KeysOf(days)
             extra == {k \in ImportKeys : k[1] = day}
             ks == RollupsOf(day, day)
             f == [k \in ks |-> Rollup(k).tokens]
             g == [k \in derived |-> Rollup(k).tokens]
             h == [k \in extra |-> imported[k[1], k[2]]]
  <1>1. UsageTyped /\ day \in UsageDays /\ days \in SUBSET rebuilt /\ day \in Nat
    BY UsageAssumption DEF QueryInv, UsageInv, RebuiltFresh
  <1>2. Within(day, day) = days
    <2>1. \A d \in UsageDays : d \in Nat
      BY UsageAssumption
    <2>2. \A d \in UsageDays : day <= d /\ d <= day <=> d = day
      BY <1>1, <2>1
    <2> QED BY <1>1, <2>2 DEF Within
  <1>3. ks = derived \union extra /\ derived \cap extra = {}
    BY <1>2, ImportsTyped DEF RollupsOf, DailyRollups, KeysOf
  <1>4. IsFiniteSet(derived) /\ IsFiniteSet(extra)
    BY <1>1, OursTyped, ImportsTyped, FS_Subset
  <1>5. \A k \in derived : Rollup(k).tokens \in Nat
    BY <1>1, KeyColumns DEF RollupRows
  <1>6. \A k \in extra : Rollup(k).tokens = imported[k[1], k[2]] /\ imported[k[1], k[2]] \in Nat
    BY ImportsTyped DEF Rollup
  <1>7. Bucket(derived).tokens = LedgerTokens(FinalsOn(rows, day))
    <2>1. {a \in Ours(days) : Home[a] \in derived} = Ours(days)
      BY <1>1, RolledKeys
    <2>2. Ours(days) = FinalsOn(rows, day)
      BY DEF Ours, Finals, FinalsIn, FinalsOn
    <2>3. Bucket(derived).tokens = LedgerTokens({a \in Ours(days) : Home[a] \in derived})
      BY <1>1, BucketTokens
    <2> QED BY <2>1, <2>2, <2>3
  <1>8. Bucket(ks).tokens = Total(f, ks) /\ Bucket(derived).tokens = Total(g, derived)
    BY DEF Bucket, Sum
  <1>9. ImportedTokens(day) = Total(h, extra)
    BY DEF ImportedTokens, Sum
  <1>10. /\ \A k \in ks : f[k] \in Nat
         /\ \A k \in derived : f[k] = g[k]
         /\ \A k \in extra : f[k] = h[k]
    BY <1>3, <1>5, <1>6
  <1>11. IsFiniteSet(ks) /\ derived \in SUBSET ks /\ ks \ derived = extra
    BY <1>3, <1>4, FS_Union
  <1> HIDE DEF days, derived, extra, ks, f, g, h
  <1>12. Total(f, ks) = Total(f, derived) + Total(f, extra)
    BY <1>10, <1>11, TotalSplit
  <1>13. Total(f, derived) = Total(g, derived) /\ Total(f, extra) = Total(h, extra)
    BY <1>4, <1>10, TotalSame
  <1> QED BY <1>7, <1>8, <1>9, <1>12, <1>13 DEF ks

LEMMA WholeDayQueries ==
    ASSUME QueryInv, NEW from, NEW to, Within(from, to) \subseteq rebuilt \ ImportedDays
    PROVE  WholeDaysAgree(from, to)
  <1> DEFINE days == Within(from, to)
  <1>1. days \in SUBSET rebuilt
    OBVIOUS
  <1>2. /\ RollupsOf(from, to) = KeysOf(days) /\ FinalsOf(from, to) = Ours(days)
        /\ Costed(from, to) = CostedOf(days)
    <2>1. RollupsOf(from, to) = KeysOf(days)
      BY DEF RollupsOf, DailyRollups, KeysOf, ImportedDays
    <2> QED BY <2>1 DEF FinalsOf, Ours, Costed, CostedOf, Viewed, Finals, FinalsIn, QueryInv, CostsSound
  <1> HIDE DEF days
  <1>3. TokensOf(UsageByDay(from, to)) = GroupedByDay(from, to)
    BY <1>1, <1>2, ByDayAgrees DEF UsageByDay, GroupedByDay
  <1>4. TokensOf(UsageByGroup(from, to)) = GroupedByGroup(from, to)
    BY <1>1, <1>2, ByGroupAgrees DEF UsageByGroup, GroupedByGroup
  <1>5. SplitOfRollups(RollupsOf(from, to))
           = [Split(Costed(from, to)) EXCEPT !.priced = @ + V1Costs(FinalsOf(from, to))]
    BY <1>1, <1>2, SplitsAgree
  <1>6. TotalCost(from, to) = Spend(Costed(from, to)) + V1Costs(FinalsOf(from, to))
    BY <1>1, <1>2, TotalCostAgrees DEF TotalCost
  <1>7. Adds(Heatmap(from, to)) + LedgerTokens(FinalsOf(from, to) \ InTime(FinalsOf(from, to), to))
           = Adds(GroupedByDay(from, to))
    BY <1>2, HeatmapAdds DEF Heatmap, GroupedByDay
  <1> QED BY <1>3, <1>4, <1>5, <1>6, <1>7 DEF WholeDaysAgree

-----------------------------------------------------------------------------
(* Queries of events, where all are finals without reasoning tokens.       *)
LEMMA SameTokens ==
    ASSUME QueryInv, NEW some \in SUBSET Finals, \A a \in some : rows[a].reasoning = 0
    PROVE  ViewTokens(some) = Total(Tokens(rows), some) /\ LedgerTokens(some) = ViewTokens(some)
  <1> DEFINE f == Tokens(rows)
             h == [a \in some |-> rows[a].tokens]
  <1>1. some \in SUBSET Attempts /\ \A a \in some : rows[a] # NoValue /\ rows[a] \in EventRows
    BY DEF Finals, FinalsIn, QueryInv, UsageInv, UsageTyped, LedgerTyped
  <1>2. \A a \in some : rows[a].tokens \in Nat /\ rows[a].reasoning = 0
    BY <1>1 DEF EventRows
  <1>3. \A a \in some : h[a] = f[a]
    BY <1>1, <1>2 DEF Tokens, AllTokens
  <1>4. ViewTokens(some) = Total(h, some)
    BY DEF ViewTokens, Sum
  <1>5. IsFiniteSet(some)
    BY <1>1, UsageFinite, FS_Subset
  <1> HIDE DEF h, f
  <1>6. Total(h, some) = Total(f, some)
    BY <1>3, <1>5, TotalSame
  <1> QED BY <1>1, <1>4, <1>6, LedgerColumn DEF f

(* Sums over sessions are sums over what is in them.                       *)
LEMMA SessionSum ==
    ASSUME QueryInv, NEW some \in SUBSET Finals, \A a \in some : rows[a].reasoning = 0,
           NEW sessions \in SUBSET SessionsOf(some)
    PROVE  Sum(ViewTokens, sessions) = Total(Tokens(rows), UNION sessions)
  <1> DEFINE f == Tokens(rows)
             scored == InSession(some)
             mine == [a \in scored |-> {b \in scored : SessionOf[b] = SessionOf[a]}]
             within == UNION sessions
             g == [s \in sessions |-> ViewTokens(s)]
  <1>1. /\ IsFiniteSet(some) /\ \A a \in some : f[a] \in Nat
    <2>1. \A a \in some : a \in Attempts /\ rows[a] # NoValue
      BY DEF Finals, FinalsIn
    <2> QED BY <2>1, UsageFinite, FS_Subset, ColumnTypes DEF QueryInv, UsageInv
  <1>2. scored \in SUBSET some
    BY DEF InSession
  <1>3. \A s \in sessions : s \in SUBSET scored
    BY DEF SessionsOf
  <1>4. \A s \in sessions : \A a \in scored : a \in s <=> mine[a] = s
    <2> TAKE s \in sessions
    <2>1. PICK x \in {SessionOf[a] : a \in scored} : s = {a \in scored : SessionOf[a] = x}
      BY DEF SessionsOf
    <2> TAKE a \in scored
    <2>2. mine[a] = {b \in scored : SessionOf[b] = SessionOf[a]} /\ a \in mine[a]
      OBVIOUS
    <2> HIDE DEF mine, scored
    <2> QED BY <2>1, <2>2
  <1>5. IsFiniteSet(sessions)
    <2> DEFINE all == SessionsOf(some)
    <2>1. all = {mine[a] : a \in scored}
      BY DEF SessionsOf
    <2>2. mine \in Surjection(scored, all)
      BY <2>1 DEF Surjection
    <2>3. IsFiniteSet(scored)
      BY <1>1, <1>2, FS_Subset
    <2> HIDE DEF mine, scored, all
    <2>4. IsFiniteSet(all)
      BY <2>2, <2>3, FS_Surjection
    <2> QED BY <2>4, FS_Subset DEF all
  <1>6. IsFiniteSet(within) /\ within \in SUBSET scored
    BY <1>1, <1>2, <1>3, FS_Subset
  <1>7. \A s \in sessions : g[s] = Total(f, s)
    BY <1>2, <1>3, SameTokens
  <1>8. Sum(ViewTokens, sessions) = Total(g, sessions)
    BY DEF Sum
  <1> HIDE DEF mine, scored, f, g
  <1>9. InGroups(within, f, sessions, mine, g)
    <2>1. \A a \in within : f[a] \in Nat /\ mine[a] \in sessions
      BY <1>1, <1>2, <1>4, <1>6
    <2>2. \A s \in sessions : {a \in within : mine[a] = s} = s
      BY <1>3, <1>4, <1>6
    <2> QED BY <1>7, <2>1, <2>2 DEF InGroups
  <1>10. Total(f, within) = Total(g, sessions)
    BY <1>5, <1>6, <1>9, TotalOfGroups
  <1> QED BY <1>8, <1>10 DEF f

LEMMA SessionsAdd ==
    ASSUME QueryInv, NEW some \in SUBSET Finals, \A a \in some : rows[a].reasoning = 0
    PROVE  Adds(PerKey(some, LAMBDA a : SessionOf[a], ViewTokens)) = Total(Tokens(rows), some)
  <1> DEFINE f == Tokens(rows)
             h == SessionOf
             buckets == PerKey(some, LAMBDA a : SessionOf[a], ViewTokens)
  <1>1. IsFiniteSet(some) /\ \A a \in some : f[a] \in Nat
    <2>1. \A a \in some : a \in Attempts /\ rows[a] # NoValue
      BY DEF Finals, FinalsIn
    <2> QED BY <2>1, UsageFinite, FS_Subset, ColumnTypes DEF QueryInv, UsageInv
  <1>2. buckets = [x \in {h[a] : a \in some} |-> ViewTokens({a \in some : h[a] = x})]
    BY DEF PerKey
  <1>3. \A x : ViewTokens({a \in some : h[a] = x}) = Total(f, {a \in some : h[a] = x})
    BY SameTokens
  <1> HIDE DEF h, f, buckets
  <1>4. /\ DOMAIN buckets = {h[a] : a \in some}
        /\ \A x \in DOMAIN buckets : buckets[x] = Total(f, {a \in some : h[a] = x})
    BY <1>2, <1>3
  <1>5. Adds(buckets) = Total(f, some)
    BY <1>1, <1>4, AddsUp
  <1> QED BY <1>5 DEF buckets, f

(* What has a session and what has none.                                   *)
LEMMA ScoredAndNot ==
    ASSUME QueryInv, NEW some \in SUBSET Finals, \A a \in some : rows[a].reasoning = 0,
           NEW scored \in SUBSET some
    PROVE  Total(Tokens(rows), scored) + ViewTokens(some \ scored) = Total(Tokens(rows), some)
  <1> DEFINE f == Tokens(rows)
  <1>1. IsFiniteSet(some) /\ \A a \in some : f[a] \in Nat
    <2>1. \A a \in some : a \in Attempts /\ rows[a] # NoValue
      BY DEF Finals, FinalsIn
    <2> QED BY <2>1, UsageFinite, FS_Subset, ColumnTypes DEF QueryInv, UsageInv
  <1>2. ViewTokens(some \ scored) = Total(f, some \ scored)
    BY SameTokens
  <1> HIDE DEF f
  <1>3. Total(f, some) = Total(f, scored) + Total(f, some \ scored)
    BY <1>1, TotalSplit
  <1> QED BY <1>2, <1>3 DEF f

(* Projects of sessions that each are in one.                              *)
LEMMA ProjectsAgree ==
    ASSUME QueryInv, NEW some \in SUBSET Finals, \A a \in some : rows[a].reasoning = 0,
           \A a, b \in InSession(some) : SessionOf[a] = SessionOf[b] => GroupIn(a) = GroupIn(b)
    PROVE  PerKey(SessionsOf(some), ProjectOf, LAMBDA sessions : Sum(ViewTokens, sessions))
              = PerKey(InSession(some), GroupIn, LedgerTokens)
  <1> DEFINE scored == InSession(some)
             found == SessionsOf(some)
  <1>1. scored \in SUBSET some
    BY DEF InSession
  <1>2. \A s \in found : /\ s \in SUBSET scored /\ s # {}
                         /\ \A a \in s : ProjectOf(s) = GroupIn(a)
    <2> TAKE s \in found
    <2>1. PICK x \in {SessionOf[a] : a \in scored} : s = {a \in scored : SessionOf[a] = x}
      BY DEF SessionsOf
    <2>2. PICK a \in s : TRUE
      BY <2>1
    <2>3. \A b \in s : GroupIn(b) = GroupIn(a)
      BY <2>1, <2>2
    <2>4. {GroupIn(b) : b \in s} = {GroupIn(a)}
      BY <2>2, <2>3
    <2>5. ProjectOf(s) = GroupIn(a)
      BY <2>4 DEF ProjectOf
    <2> QED BY <2>1, <2>2, <2>3, <2>5
  <1>3. \A a \in scored : \E s \in found : a \in s
    <2> TAKE a \in scored
    <2> DEFINE s == {b \in scored : SessionOf[b] = SessionOf[a]}
    <2>1. s \in found /\ a \in s
      BY DEF SessionsOf
    <2> QED BY <2>1
  <1>4. {ProjectOf(s) : s \in found} = {GroupIn(a) : a \in scored}
    <2> HIDE DEF found, scored
    <2>1. \A s \in found : \E a \in scored : ProjectOf(s) = GroupIn(a)
      BY <1>2
    <2>2. \A a \in scored : \E s \in found : ProjectOf(s) = GroupIn(a)
      BY <1>2, <1>3
    <2> QED BY <2>1, <2>2
  <1>5. ASSUME NEW x
        PROVE  Sum(ViewTokens, {s \in found : ProjectOf(s) = x})
                  = LedgerTokens({a \in scored : GroupIn(a) = x})
    <2> DEFINE sessions == {s \in found : ProjectOf(s) = x}
               mine == {a \in scored : GroupIn(a) = x}
    <2>1. UNION sessions = mine
      BY <1>2, <1>3
    <2>2. Sum(ViewTokens, sessions) = Total(Tokens(rows), UNION sessions)
      BY SessionSum
    <2>3. mine \in SUBSET Finals /\ \A a \in mine : rows[a].reasoning = 0
      BY <1>1
    <2>4. LedgerTokens(mine) = Total(Tokens(rows), mine)
      BY <2>3, SameTokens
    <2> QED BY <2>1, <2>2, <2>4
  <1> QED BY <1>4, <1>5 DEF PerKey

LEMMA EventQueries ==
    ASSUME QueryInv, NEW from, NEW to, Within(from, to) \subseteq rebuilt \ ImportedDays,
           Plain(from, to)
    PROVE  EventsAgree(from, to)
  <1> DEFINE days == Within(from, to)
             ours == Ours(days)
             scored == InSession(ours)
  <1>1. days \in SUBSET rebuilt
    OBVIOUS
  <1>2. /\ FinalsOf(from, to) = ours /\ EventsOf(from, to) = ours
        /\ \A a \in ours : rows[a].reasoning = 0
    BY DEF Plain, FinalsOf, EventsOf, InTime, Ours, Viewed, Finals, FinalsIn
  <1>3. ours \in SUBSET Finals /\ scored \in SUBSET ours
    BY DEF Ours, InSession
  <1> HIDE DEF days, ours
  <1>4. ASSUME NEW some \in SUBSET ours PROVE ViewTokens(some) = LedgerTokens(some)
    BY <1>2, <1>3, SameTokens
  <1>5. WholeDaysAgree(from, to)
    BY WholeDayQueries
  <1>6. /\ TokensOf(UsageByDay(from, to)) = GroupedByDay(from, to)
        /\ TokensOf(UsageByGroup(from, to)) = GroupedByGroup(from, to)
    BY <1>5 DEF WholeDaysAgree
  <1>7. DailyTrend(from, to) = GroupedByDay(from, to)
    <2>1. \A x : ViewTokens({a \in ours : rows[a].day = x})
                    = LedgerTokens({a \in ours : rows[a].day = x})
      BY <1>4
    <2> QED BY <1>2, <2>1 DEF DailyTrend, GroupedByDay, PerKey
  <1>8. ASSUME NEW g \in DOMAIN UsageByGroup(from, to)
        PROVE  PunchCard(from, to, g) = UsageByGroup(from, to)[g].tokens
    <2>1. UsageByGroup(from, to)[g].tokens = GroupedByGroup(from, to)[g]
      BY <1>6 DEF TokensOf
    <2>2. g \in DOMAIN GroupedByGroup(from, to)
      BY <1>6 DEF TokensOf
    <2>3. GroupedByGroup(from, to)[g] = LedgerTokens({a \in ours : GroupIn(a) = g})
      BY <1>2, <2>2 DEF GroupedByGroup, PerKey
    <2>4. PunchCard(from, to, g) = ViewTokens({a \in ours : GroupIn(a) = g})
      BY <1>2 DEF PunchCard
    <2> QED BY <1>4, <2>1, <2>3, <2>4
  <1>9. Adds(GroupedByDay(from, to)) = Total(Tokens(rows), ours)
    BY <1>2, HeatmapAdds DEF GroupedByDay, ours
  <1>10. Adds(UsageBySession(from, to)) = Total(Tokens(rows), ours)
    BY <1>2, <1>3, SessionsAdd DEF UsageBySession
  <1>11. Scorecard(from, to) = Total(Tokens(rows), scored)
    <2> DEFINE sessions == SessionsOf(ours)
    <2>1. UNION sessions = scored
      BY DEF SessionsOf
    <2>2. Sum(ViewTokens, sessions) = Total(Tokens(rows), UNION sessions)
      BY <1>2, <1>3, SessionSum
    <2> QED BY <1>2, <2>1, <2>2 DEF Scorecard
  <1>12. Scorecard(from, to) + ViewTokens(ours \ scored) = Adds(GroupedByDay(from, to))
    <2> HIDE DEF scored
    <2> QED BY <1>2, <1>3, <1>9, <1>11, ScoredAndNot
  <1>13. (\A a, b \in scored : SessionOf[a] = SessionOf[b] => GroupIn(a) = GroupIn(b))
            => ReportProjects(from, to) = PerKey(scored, GroupIn, LedgerTokens)
    BY <1>2, <1>3, ProjectsAgree DEF ReportProjects
  <1> QED BY <1>2, <1>6, <1>7, <1>8, <1>9, <1>10, <1>12, <1>13 DEF EventsAgree

LEMMA AllTimeQueries ==
    ASSUME QueryInv, rebuilt \ ImportedDays = UsageDays, \A r \in Ranges : Plain(r[1], r[2])
    PROVE  AllTimeAgrees
  <1>1. ASSUME NEW a \in Viewed
        PROVE  a \in Finals /\ rows[a].day \in UsageDays /\ rows[a].reasoning = 0
    <2>1. a \in Attempts /\ rows[a] \in EventRows /\ rows[a] # NoValue
      BY DEF Viewed, QueryInv, UsageInv, UsageTyped, LedgerTyped
    <2> DEFINE d == rows[a].day
               r == <<d, d>>
    <2>2. d \in UsageDays /\ d \in Nat
      BY <2>1, UsageAssumption DEF EventRows
    <2>3. r \in Ranges /\ r[1] = d /\ r[2] = d
      BY <2>2 DEF Ranges
    <2>4. Plain(d, d)
      BY <2>3
    <2>5. d \in Within(d, d)
      BY <2>2 DEF Within
    <2> QED BY <2>1, <2>2, <2>4, <2>5 DEF Plain, Finals, FinalsIn
  <1>2. /\ Viewed \in SUBSET Finals /\ Viewed = Ours(UsageDays)
        /\ \A a \in Viewed : rows[a].reasoning = 0
    BY <1>1 DEF Ours, Viewed, Finals, FinalsIn
  <1>3. DailyRollups = KeysOf(UsageDays)
    <2>1. {k \in Keys : rollup[k] # NoValue} = KeysOf(UsageDays)
      BY DEF KeysOf, Keys
    <2>2. ImportKeys = {}
      <3>1. \A k \in ImportKeys : k[1] \in ImportedDays /\ k[1] \in UsageDays
        BY ImportsTyped DEF ImportedDays
      <3> QED BY <3>1
    <2> QED BY <2>1, <2>2 DEF DailyRollups
  <1>4. Overview.bucket.tokens = LedgerTokens(Viewed)
    <2> DEFINE days == UsageDays
               ks == KeysOf(days)
    <2>1. days \in SUBSET rebuilt /\ ks \in SUBSET KeysOf(days)
      OBVIOUS
    <2>2. {a \in Ours(days) : Home[a] \in ks} = Ours(days)
      BY <2>1, RolledKeys
    <2>3. Bucket(ks).tokens = LedgerTokens({a \in Ours(days) : Home[a] \in ks})
      BY <2>1, BucketTokens
    <2>4. Overview.bucket.tokens = Bucket(ks).tokens
      BY <1>3 DEF Overview
    <2> QED BY <1>2, <2>2, <2>3, <2>4
  <1>5. LedgerTokens(Viewed) = Total(Tokens(rows), Viewed)
    BY <1>2, SameTokens
  <1>6. Overview.sessions = Cardinality(DOMAIN ListedSessions)
    BY DEF Overview, ListedSessions, PerKey
  <1>7. Adds(ListedSessions) + ViewTokens(Viewed \ InSession(Viewed)) = LedgerTokens(Viewed)
    <2> DEFINE scored == InSession(Viewed)
    <2>1. scored \in SUBSET Viewed
      BY DEF InSession
    <2> HIDE DEF scored
    <2>2. Adds(PerKey(scored, LAMBDA a : SessionOf[a], ViewTokens)) = Total(Tokens(rows), scored)
      BY <1>2, <2>1, SessionsAdd
    <2>3. Total(Tokens(rows), scored) + ViewTokens(Viewed \ scored) = Total(Tokens(rows), Viewed)
      BY <1>2, <2>1, ScoredAndNot
    <2> QED BY <1>5, <2>2, <2>3 DEF ListedSessions, scored
  <1>8. MachineTokens + ViewTokens(Viewed \ Registered) = LedgerTokens(Viewed)
    <2> DEFINE ours == Viewed \cap Registered
    <2>1. ours \in SUBSET Viewed /\ Viewed \ ours = Viewed \ Registered
      OBVIOUS
    <2> HIDE DEF ours
    <2>2. Total(Tokens(rows), ours) + ViewTokens(Viewed \ ours) = Total(Tokens(rows), Viewed)
      BY <1>2, <2>1, ScoredAndNot
    <2>3. ViewTokens(ours) = Total(Tokens(rows), ours)
      BY <1>2, <2>1, SameTokens
    <2> QED BY <1>5, <2>1, <2>2, <2>3 DEF MachineTokens, ours
  <1> QED BY <1>4, <1>6, <1>7, <1>8 DEF AllTimeAgrees

(* Two ways of asking for the same total get the same answer, whatever was *)
(* reported, priced, repriced, reverted and imported before: v1 and v2 of   *)
(* days that nothing has changed on since a rebuild that nobody disturbed,  *)
(* but for what was imported, which v1 alone counts; /costs and the dual    *)
(* metrics of any range (services/queries.py, queries_v2.py,               *)
(* cost_queries.py).                                                       *)
THEOREM QueriesTellOneStory == UsageSpec => []QueriesAgree
  <1>1. QueryInv => QueriesAgree
    <2> SUFFICES ASSUME QueryInv PROVE RebuiltDaysAgree
      BY CostsDoAgree DEF QueriesAgree
    <2> QED BY WholeDayQueries, EventQueries, AllTimeQueries, ImportsOnTop DEF RebuiltDaysAgree
  <1>2. UsageSpec => []QueryInv
    BY QueryInitInv, QueryStepInv, PTL DEF UsageSpec
  <1> QED BY <1>1, <1>2, PTL
=============================================================================
