--------------------------- MODULE StorageProofs ---------------------------
(***************************************************************************)
(* Proofs about what is stored for long.  RetentionSweep, for any finite   *)
(* set of rows, any policies, day length and batch size: what a sweep      *)
(* removes had expired under the policy it began with, and the status it   *)
(* leaves is true.  Upgrade, for any finite set of events, machines and    *)
(* models and any prices: an upgrade loses nothing.  History, for any      *)
(* finite sets of attempts and groups, any writers, imports and criteria:  *)
(* the rollups tell what was used, and the sweep of raw events deletes     *)
(* nothing they do not count.  Limits, for any windows, accounts, batches  *)
(* and intervals: what is shown of limits follows from what was polled.    *)
(*                                                                         *)
(* All inductions are over what an open transaction has done so far, which *)
(* stays invisible until it commits: the rows a sweep means to delete were *)
(* eligible when they were chosen, the database as an open upgrade sees it *)
(* is as sound as the committed one, and so are the rollups as an open     *)
(* request will leave them.                                                *)
(***************************************************************************)
EXTENDS Limits, RetentionSweep, Upgrade, History, SumLemmas

(* The start of a day, and the start of the next one.                      *)
LEMMA DayFacts ==
    ASSUME NEW a \in Int, NEW t \in Int
    PROVE  /\ DayStart(t) \in Int /\ DayStart(t) <= t
           /\ a = DayStart(a) /\ a < DayStart(t) => a + DayLength <= t
  <1> DEFINE d == DayLength
  <1>1. d \in Nat /\ d > 0
    BY RetentionAssumption
  <1> HIDE DEF d
  <1>2. ASSUME NEW x \in Int
        PROVE  /\ (x % d) \in 0 .. (d - 1) /\ (x \div d) \in Int
               /\ x - (x % d) = d * (x \div d)
    BY <1>1
  <1>3. ASSUME a = DayStart(a), a < DayStart(t)
        PROVE  a + d <= DayStart(t)
    <2> DEFINE m == a \div d
               n == t \div d
    <2>1. m \in Int /\ n \in Int /\ a = d * m /\ DayStart(t) = d * n
      BY <1>2, <1>3 DEF DayStart, d
    <2> HIDE DEF m, n
    <2>2. n >= m + 1
      BY <1>1, <1>3, <2>1
    <2>3. d * n >= d * (m + 1) /\ d * (m + 1) = d * m + d
      BY <1>1, <2>1, <2>2
    <2> QED BY <1>1, <2>1, <2>3
  <1> QED BY <1>1, <1>2, <1>3 DEF DayStart, d

-----------------------------------------------------------------------------
(* A sweep that is open.                                                   *)
SweepTyped ==
    /\ DOMAIN retiring = {"policy", "now", "next", "deleted", "status"}
    /\ retiring.policy \in Policies
    /\ retiring.now \in Nat
    /\ retiring.next \in Nat \ {0}
    /\ retiring.deleted \subseteq Items
    /\ DOMAIN retiring.status = Swept

RetentionTypeOK ==
    /\ ticks \in Nat
    /\ rows \in [Items -> Int \union {Unset, Gone}]
    /\ settings \in {Unset} \union Policies
    /\ DOMAIN status = Swept
    /\ retiring # Unset => SweepTyped

(* A rollup bears the day it sums up.                                      *)
RollupsByDay ==
    \A i \in Items : TableOf[i] = "rollups" /\ rows[i] \in Int => rows[i] = DayStart(rows[i])

CutoffOf(c) == retiring.now - retiring.policy.rules[c].days * DayLength

(* A row that the open sweep may remove.                                   *)
Expired(i) ==
    /\ rows[i] \in Int
    /\ \E c \in Swept : /\ i \in InCategory(c)
                        /\ DeletionActive(retiring.policy, c)
                        /\ rows[i] < Horizon(c, CutoffOf(c))

SweptExpired == retiring # Unset => \A i \in retiring.deleted : Expired(i)

SweepInv == RetentionTypeOK /\ RollupsByDay /\ SweptExpired

-----------------------------------------------------------------------------
LEMMA CategoryFacts ==
    /\ Categories \in Seq(Swept)
    /\ \A n \in Nat \ {0} : n <= Len(Categories) => Categories[n] \in Swept
    /\ \A i \in Items : \A c, d \in Swept : i \in InCategory(c) /\ i \in InCategory(d) => c = d
    /\ \A c \in Swept : InCategory(c) \subseteq Items
  <1>1. Swept = {"superseded", "rollups", "aged", "corrections", "archive"}
    BY DEF Categories, Swept
  <1>2. \A i \in Items : \A c, d \in Swept : i \in InCategory(c) /\ i \in InCategory(d) => c = d
    BY <1>1 DEF InCategory
  <1>3. \A n \in Nat \ {0} : n <= Len(Categories) => Categories[n] \in Swept
    BY DEF Categories, Swept
  <1>4. Categories \in Seq(Swept)
    BY <1>1 DEF Categories
  <1> QED BY <1>2, <1>3, <1>4 DEF InCategory

(* What a rule that is active says.                                        *)
LEMMA ActiveRule ==
    ASSUME NEW p \in Policies, NEW c \in Swept, DeletionActive(p, c)
    PROVE  p.rules[c].days \in Int
  BY DEF Policies, Rule, DeletionActive

(* A batch is of rows that are there and that are past the cutoff.         *)
LEMMA BatchFacts ==
    ASSUME NEW table, NEW c \in Swept, NEW cutoff, NEW batch \in DeletionBatches(table, c, cutoff)
    PROVE  /\ batch \subseteq Eligible(table, c, cutoff)
           /\ \A i \in batch : /\ i \in Items /\ i \in InCategory(c)
                               /\ table[i] # Unset /\ table[i] # Gone
                               /\ table[i] < Horizon(c, cutoff)
  <1>1. batch \subseteq Eligible(table, c, cutoff)
    BY DEF DeletionBatches
  <1> QED BY <1>1, CategoryFacts DEF Eligible

(* What the sweep of one category does to what the sweep will commit.      *)
LEMMA CategoryStep ==
    ASSUME RetentionTypeOK, RetireCategory
    PROVE  /\ retiring # Unset
           /\ UNCHANGED <<ticks, rows, settings, edits, status>>
           /\ SweepTyped'
           /\ retiring'.policy = retiring.policy /\ retiring'.now = retiring.now
           /\ \/ retiring'.deleted = retiring.deleted /\ retiring'.status = retiring.status
              \/ \E c \in Swept : \E batch \in DeletionBatches(Visible, c, CutoffOf(c)) :
                    LET left == [i \in Items |-> IF i \in batch THEN Gone ELSE Visible[i]]
                    IN  /\ DeletionActive(retiring.policy, c)
                        /\ retiring'.deleted = retiring.deleted \union batch
                        /\ retiring'.status = [retiring.status EXCEPT ![c] =
                              StatusAfter(@, Cardinality(batch),
                                 Cardinality(Eligible(left, c, CutoffOf(c))), Oldest(left, c))]
  <1> DEFINE c == Categories[retiring.next]
             Left(batch) == [i \in Items |-> IF i \in batch THEN Gone ELSE Visible[i]]
             After(batch) == [retiring EXCEPT
                 !.next = @ + 1,
                 !.deleted = @ \union batch,
                 !.status[c] = StatusAfter(@, Cardinality(batch),
                    Cardinality(Eligible(Left(batch), c, CutoffOf(c))), Oldest(Left(batch), c))]
  <1>1. /\ retiring # Unset /\ SweepTyped /\ c \in Swept
        /\ UNCHANGED <<ticks, rows, settings, edits, status>>
    BY CategoryFacts DEF RetireCategory, RetentionTypeOK, SweepTyped
  <1>2. \/ retiring' = [retiring EXCEPT !.next = @ + 1]
        \/ /\ DeletionActive(retiring.policy, c)
           /\ \E batch \in DeletionBatches(Visible, c, CutoffOf(c)) : retiring' = After(batch)
    BY DEF RetireCategory, CutoffOf
  <1>3. CASE retiring' = [retiring EXCEPT !.next = @ + 1]
    BY <1>1, <1>3 DEF SweepTyped
  <1>4. ASSUME DeletionActive(retiring.policy, c),
               NEW batch \in DeletionBatches(Visible, c, CutoffOf(c)), retiring' = After(batch)
        PROVE  /\ SweepTyped'
               /\ retiring'.policy = retiring.policy /\ retiring'.now = retiring.now
               /\ retiring'.deleted = retiring.deleted \union batch
               /\ retiring'.status = [retiring.status EXCEPT ![c] =
                     StatusAfter(@, Cardinality(batch),
                        Cardinality(Eligible(Left(batch), c, CutoffOf(c))), Oldest(Left(batch), c))]
    <2>1. batch \subseteq Items
      BY <1>1, BatchFacts
    <2> HIDE DEF c, Left
    <2>2. /\ DOMAIN retiring' = DOMAIN retiring
          /\ retiring'.policy = retiring.policy /\ retiring'.now = retiring.now
          /\ retiring'.next = retiring.next + 1
          /\ retiring'.deleted = retiring.deleted \union batch
          /\ retiring'.status = [retiring.status EXCEPT ![c] =
                     StatusAfter(@, Cardinality(batch),
                        Cardinality(Eligible(Left(batch), c, CutoffOf(c))), Oldest(Left(batch), c))]
      BY <1>1, <1>4 DEF SweepTyped
    <2>3. DOMAIN retiring'.status = Swept
      BY <1>1, <2>2 DEF SweepTyped
    <2> QED BY <1>1, <2>1, <2>2, <2>3 DEF SweepTyped
  <1>5. CASE /\ DeletionActive(retiring.policy, c)
             /\ \E batch \in DeletionBatches(Visible, c, CutoffOf(c)) : retiring' = After(batch)
    <2>1. PICK batch \in DeletionBatches(Visible, c, CutoffOf(c)) : retiring' = After(batch)
      BY <1>5
    <2>2. /\ SweepTyped'
          /\ retiring'.policy = retiring.policy /\ retiring'.now = retiring.now
          /\ retiring'.deleted = retiring.deleted \union batch
          /\ retiring'.status = [retiring.status EXCEPT ![c] =
                StatusAfter(@, Cardinality(batch),
                   Cardinality(Eligible(Left(batch), c, CutoffOf(c))), Oldest(Left(batch), c))]
      BY <1>4, <1>5, <2>1
    <2> HIDE DEF c
    <2> QED BY <1>1, <1>5, <2>2
  <1> QED BY <1>2, <1>3, <1>5, <1>1

LEMMA PolicyResolved ==
    ASSUME RetentionTypeOK
    PROVE  Resolved \in Policies
  BY RetentionAssumption DEF RetentionTypeOK, Resolved, Policies

LEMMA TypesHold == RetentionTypeOK /\ [RetentionNext]_retentionVars => RetentionTypeOK'
  <1> SUFFICES ASSUME RetentionTypeOK, [RetentionNext]_retentionVars PROVE RetentionTypeOK'
    OBVIOUS
  <1>1. ASSUME NEW i \in Items, NEW at \in StampsOf[i], AddRow(i, at) PROVE RetentionTypeOK'
    <2>1. at \in Int
      BY RetentionAssumption
    <2> QED BY <1>1, <2>1 DEF AddRow, RetentionTypeOK, SweepTyped
  <1>2. ASSUME NEW p \in Edits, PutPolicy(p) PROVE RetentionTypeOK'
    <2>1. ValidPolicy(p) => p \in Policies
      BY RetentionAssumption DEF ValidPolicy
    <2> QED BY <1>2, <2>1 DEF PutPolicy, RetentionTypeOK, SweepTyped
  <1>3. CASE RetireStart
    <2>1. SweepTyped'
      BY <1>3, PolicyResolved DEF RetireStart, SweepTyped, RetentionTypeOK
    <2> QED BY <1>3, <2>1 DEF RetireStart, RetentionTypeOK
  <1>4. CASE RetireCategory
    BY <1>4, CategoryStep DEF RetentionTypeOK
  <1>5. CASE RetireCommit
    BY <1>5 DEF RetireCommit, RetentionTypeOK, SweepTyped
  <1>6. CASE RetireFails
    BY <1>6 DEF RetireFails, RetentionTypeOK
  <1>7. CASE TickOfDay
    BY <1>7 DEF TickOfDay, RetentionTypeOK, SweepTyped
  <1>8. CASE UNCHANGED retentionVars
    BY <1>8 DEF retentionVars, RetentionTypeOK, SweepTyped
  <1> QED BY <1>1, <1>2, <1>3, <1>4, <1>5, <1>6, <1>7, <1>8 DEF RetentionNext

(* A row, once it is there, changes only when a sweep commits.             *)
LEMMA RowsStay ==
    ASSUME RetentionTypeOK, [RetentionNext]_retentionVars, ~ RetireCommit,
           NEW i \in Items, rows[i] # Unset
    PROVE  rows'[i] = rows[i]
  BY DEF RetentionNext, retentionVars, AddRow, PutPolicy, RetireStart, RetireCategory,
         RetireFails, TickOfDay, RetentionTypeOK

LEMMA SweepInvHolds == SweepInv /\ [RetentionNext]_retentionVars => SweepInv'
  <1> SUFFICES ASSUME SweepInv, [RetentionNext]_retentionVars PROVE SweepInv'
    OBVIOUS
  <1>1. RetentionTypeOK /\ RetentionTypeOK'
    BY TypesHold DEF SweepInv
  <1>2. RollupsByDay'
    <2> SUFFICES ASSUME NEW i \in Items, TableOf[i] = "rollups", rows'[i] \in Int
                 PROVE  rows'[i] = DayStart(rows'[i])
      BY DEF RollupsByDay, DayStart
    <2>1. CASE rows[i] = Unset /\ ~ RetireCommit
      <3>1. rows'[i] # Unset
        BY RetentionAssumption
      <3>2. PICK x \in Items : \E at \in StampsOf[x] : AddRow(x, at)
        BY <2>1, <3>1 DEF RetentionNext, retentionVars, PutPolicy, RetireStart, RetireCategory,
                          RetireFails, TickOfDay
      <3>3. PICK at \in StampsOf[x] : AddRow(x, at)
        BY <3>2
      <3>4. x = i /\ rows'[i] = at
        BY <1>1, <2>1, <3>1, <3>3 DEF AddRow, RetentionTypeOK
      <3> QED BY <3>3, <3>4 DEF AddRow
    <2>2. CASE rows[i] # Unset /\ ~ RetireCommit
      BY <1>1, <2>2, RowsStay DEF SweepInv, RollupsByDay
    <2>3. CASE RetireCommit
      <3>1. rows'[i] = rows[i]
        BY <2>3, RetentionAssumption DEF RetireCommit
      <3> QED BY <3>1 DEF SweepInv, RollupsByDay
    <2> QED BY <2>1, <2>2, <2>3
  <1>3. SweptExpired'
    <2>1. CASE retiring' = Unset \/ RetireStart
      BY <2>1 DEF SweptExpired, RetireStart
    <2>2. ASSUME retiring' = retiring, retiring # Unset, ~ RetireCommit
          PROVE  SweptExpired'
      <3> SUFFICES ASSUME NEW i \in retiring.deleted PROVE Expired(i)'
        BY <2>2 DEF SweptExpired
      <3>1. Expired(i) /\ i \in Items
        BY <1>1, <2>2 DEF SweepInv, SweptExpired, RetentionTypeOK, SweepTyped
      <3>2. rows'[i] = rows[i]
        BY <1>1, <2>2, <3>1, RowsStay, RetentionAssumption DEF Expired
      <3> QED BY <2>2, <3>1, <3>2 DEF Expired, CutoffOf
    <2>3. CASE RetireCategory
      <3>1. /\ UNCHANGED rows /\ retiring # Unset
            /\ retiring'.policy = retiring.policy /\ retiring'.now = retiring.now
        BY <1>1, <2>3, CategoryStep
      <3>2. \A c : CutoffOf(c)' = CutoffOf(c)
        BY <3>1 DEF CutoffOf
      <3>3. ASSUME NEW i \in Items, Expired(i) PROVE Expired(i)'
        BY <3>1, <3>2, <3>3 DEF Expired
      <3>4. \A i \in retiring.deleted : i \in Items /\ Expired(i)
        BY <1>1, <3>1 DEF SweepInv, SweptExpired, RetentionTypeOK, SweepTyped
      <3>5. CASE retiring'.deleted = retiring.deleted
        BY <3>3, <3>4, <3>5 DEF SweptExpired
      <3>6. ASSUME NEW c \in Swept, NEW batch \in DeletionBatches(Visible, c, CutoffOf(c)),
                   DeletionActive(retiring.policy, c),
                   retiring'.deleted = retiring.deleted \union batch
            PROVE  SweptExpired'
        <4>1. ASSUME NEW i \in batch PROVE i \in Items /\ Expired(i)
          <5>1. /\ i \in Items /\ i \in InCategory(c)
                /\ Visible[i] # Unset /\ Visible[i] # Gone
                /\ Visible[i] < Horizon(c, CutoffOf(c))
            BY BatchFacts
          <5>2. Visible[i] = rows[i] /\ rows[i] \in Int
            BY <1>1, <5>1 DEF Visible, RetentionTypeOK
          <5> QED BY <3>6, <5>1, <5>2 DEF Expired
        <4> QED BY <3>3, <3>4, <3>6, <4>1 DEF SweptExpired
      <3> QED BY <1>1, <2>3, <3>5, <3>6, CategoryStep
    <2>4. retiring' = retiring \/ retiring' = Unset \/ RetireStart \/ RetireCategory
      BY DEF RetentionNext, retentionVars, AddRow, PutPolicy, RetireCommit, RetireFails, TickOfDay
    <2>5. RetireCommit => retiring' = Unset
      BY DEF RetireCommit
    <2> QED BY <2>1, <2>2, <2>3, <2>4, <2>5
  <1> QED BY <1>1, <1>2, <1>3 DEF SweepInv

LEMMA SweepInvariant == RetentionSpec => []SweepInv
  <1>1. RetentionInit => SweepInv
    BY RetentionAssumption
       DEF RetentionInit, SweepInv, RetentionTypeOK, RollupsByDay, SweptExpired
  <1> QED BY <1>1, SweepInvHolds, PTL DEF RetentionSpec

-----------------------------------------------------------------------------
(* What the retention loop removes had expired: a row goes only by the     *)
(* commit of a sweep, and only when its own category was enabled, and not  *)
(* on hold, in the policy that sweep read, with a duration the row had     *)
(* outlived by the time the sweep read; a rollup when its whole day had    *)
(* (retention.py is_deletion_active, retention_worker.py).                 *)
THEOREM RemovesOnlyExpired == RetentionSpec => OnlyExpiredRemoved
  <1> DEFINE Step == \A i \in Items : rows[i] # Gone /\ rows'[i] = Gone =>
          \E c \in Swept :
             LET p == retiring.policy
                 own == TableOf[i] = c \/ (TableOf[i] = "revisions"
                          /\ c = IF ReasonOf[i] = "correction" THEN "corrections"
                                 ELSE "superseded")
             IN  /\ own
                 /\ DeletionActive(p, c)
                 /\ rows[i] + (IF c = "rollups" THEN DayLength ELSE 1)
                      <= retiring.now - p.rules[c].days * DayLength
  <1>1. SweepInv /\ [RetentionNext]_retentionVars => [Step]_retentionVars
    <2> SUFFICES ASSUME SweepInv, RetentionNext, NEW i \in Items,
                        rows[i] # Gone, rows'[i] = Gone
                 PROVE  \E c \in Swept :
                          /\ TableOf[i] = c \/ (TableOf[i] = "revisions"
                               /\ c = IF ReasonOf[i] = "correction" THEN "corrections"
                                      ELSE "superseded")
                          /\ DeletionActive(retiring.policy, c)
                          /\ rows[i] + (IF c = "rollups" THEN DayLength ELSE 1) <= CutoffOf(c)
      BY DEF CutoffOf
    <2>1. CASE RetireCommit
      <3>1. retiring # Unset /\ i \in retiring.deleted /\ Expired(i) /\ SweepTyped
        BY <2>1 DEF RetireCommit, SweepInv, SweptExpired, RetentionTypeOK
      <3>2. PICK c \in Swept : /\ i \in InCategory(c)
                               /\ DeletionActive(retiring.policy, c)
                               /\ rows[i] < Horizon(c, CutoffOf(c))
        BY <3>1 DEF Expired
      <3>3. retiring.policy.rules[c].days \in Int /\ rows[i] \in Int
        BY <3>1, <3>2, ActiveRule DEF SweepTyped, Expired
      <3>4. CutoffOf(c) \in Int
        BY <3>1, <3>3, RetentionAssumption DEF SweepTyped, CutoffOf
      <3>5. rows[i] + (IF c = "rollups" THEN DayLength ELSE 1) <= CutoffOf(c)
        <4>1. CASE c = "rollups"
          <5>1. TableOf[i] = "rollups"
            BY <3>2, <4>1 DEF InCategory
          <5>2. rows[i] = DayStart(rows[i]) /\ rows[i] < DayStart(CutoffOf(c))
            BY <3>2, <3>3, <4>1, <5>1 DEF Horizon, SweepInv, RollupsByDay
          <5> QED BY <3>3, <3>4, <4>1, <5>2, DayFacts
        <4>2. CASE c # "rollups"
          <5>1. rows[i] < CutoffOf(c)
            BY <3>2, <4>2 DEF Horizon
          <5> QED BY <3>3, <3>4, <4>2, <5>1
        <4> QED BY <4>1, <4>2
      <3>6. TableOf[i] = c \/ (TableOf[i] = "revisions"
                               /\ c = IF ReasonOf[i] = "correction" THEN "corrections"
                                      ELSE "superseded")
        BY <3>2 DEF InCategory
      <3> QED BY <3>2, <3>5, <3>6
    <2>2. CASE ~ RetireCommit
      <3>1. rows[i] = Unset
        BY <2>2, RowsStay DEF SweepInv
      <3>2. PICK x \in Items : \E at \in StampsOf[x] : AddRow(x, at)
        BY <2>2, <3>1, RetentionAssumption
           DEF RetentionNext, PutPolicy, RetireStart, RetireCategory, RetireFails, TickOfDay
      <3> QED BY <3>1, <3>2, RetentionAssumption DEF AddRow, SweepInv, RetentionTypeOK
    <2> QED BY <2>1, <2>2
  <1> QED BY <1>1, SweepInvariant, PTL DEF RetentionSpec, OnlyExpiredRemoved

-----------------------------------------------------------------------------
(***************************************************************************)
(* The status.  A sweep keeps the status of each category beside its       *)
(* deletions, and both become visible by its commit.  So the invariant     *)
(* says of the status the open sweep has written, against the table as it  *)
(* would leave it, what it says of the status an operator reads.           *)
(***************************************************************************)
RemovedOf(table, c) == {i \in InCategory(c) : table[i] = Gone}

Right(st, table) ==
    \A c \in Swept :
        /\ st[c].total = Cardinality(RemovedOf(table, c))
        /\ st[c].backlog > 0 => st[c].last >= BatchSize

StatusInv ==
    /\ RetentionTypeOK
    /\ Right(status, rows)
    /\ retiring # Unset => Right(retiring.status, Visible)

(* A status is right of every table with the same rows removed.            *)
LEMMA RightOfSame ==
    ASSUME NEW st, NEW table, NEW new, Right(st, table),
           \A i \in Items : new[i] = Gone <=> table[i] = Gone
    PROVE  Right(st, new)
  <1>1. ASSUME NEW c \in Swept PROVE RemovedOf(new, c) = RemovedOf(table, c)
    BY CategoryFacts DEF RemovedOf
  <1> QED BY <1>1 DEF Right

LEMMA CategoriesFinite ==
    ASSUME NEW c \in Swept, NEW S, \A i \in S : i \in InCategory(c)
    PROVE  IsFiniteSet(S) /\ Cardinality(S) \in Nat
  <1>1. S \subseteq Items
    BY CategoryFacts
  <1> QED BY <1>1, RetentionAssumption, FS_Subset, FS_CardinalityType

(* What is left over after a batch that is not full: nothing.              *)
LEMMA FullBatch ==
    ASSUME NEW table, NEW c \in Swept, NEW cutoff, NEW batch \in DeletionBatches(table, c, cutoff),
           NEW left, \A i \in Items : left[i] = IF i \in batch THEN Gone ELSE table[i],
           Cardinality(Eligible(left, c, cutoff)) > 0
    PROVE  Cardinality(batch) >= BatchSize
  <1> DEFINE E == Eligible(table, c, cutoff)
             n == Cardinality(E)
  <1>1. /\ IsFiniteSet(E) /\ n \in Nat /\ batch \subseteq E
        /\ IsFiniteSet(batch) /\ Cardinality(batch) \in Nat
    <2>1. \A i \in E : i \in InCategory(c)
      BY DEF Eligible
    <2>2. batch \subseteq E
      BY BatchFacts
    <2> QED BY <2>1, <2>2, CategoriesFinite
  <1>2. batch # E
    <2>1. ASSUME batch = E PROVE Eligible(left, c, cutoff) = {}
      BY <2>1, CategoryFacts DEF Eligible
    <2> QED BY <2>1, FS_EmptySet
  <1>3. Cardinality(batch) # n
    BY <1>1, <1>2, FS_Subset
  <1>4. Cardinality(batch) = IF c = "archive" THEN n ELSE Min({BatchSize, n})
    BY DEF DeletionBatches
  <1> HIDE DEF n
  <1>5. Min({BatchSize, n}) \in {BatchSize, n}
    <2>1. BatchSize \in Int /\ n \in Int
      BY <1>1, RetentionAssumption
    <2>2. \E x \in {BatchSize, n} : \A y \in {BatchSize, n} : x =< y
      <3>1. CASE BatchSize =< n
        BY <2>1, <3>1
      <3>2. CASE n =< BatchSize
        BY <2>1, <3>2
      <3> QED BY <2>1, <3>1, <3>2
    <2> QED BY <2>2 DEF Min
  <1> QED BY <1>1, <1>3, <1>4, <1>5, RetentionAssumption

(* A batch adds to what is removed of its category, and only of that.      *)
LEMMA BatchCounted ==
    ASSUME NEW table, NEW c \in Swept, NEW cutoff, NEW batch \in DeletionBatches(table, c, cutoff),
           NEW left, \A i \in Items : left[i] = IF i \in batch THEN Gone ELSE table[i]
    PROVE  /\ Cardinality(RemovedOf(left, c)) = Cardinality(RemovedOf(table, c)) + Cardinality(batch)
           /\ \A d \in Swept \ {c} : RemovedOf(left, d) = RemovedOf(table, d)
  <1>1. \A i \in batch : i \in Items /\ i \in InCategory(c) /\ table[i] # Gone
    BY BatchFacts
  <1>2. RemovedOf(left, c) = RemovedOf(table, c) \cup batch
    BY <1>1, CategoryFacts DEF RemovedOf
  <1>3. RemovedOf(table, c) \cap batch = {}
    BY <1>1 DEF RemovedOf
  <1>4. ASSUME NEW d \in Swept, d # c PROVE RemovedOf(left, d) = RemovedOf(table, d)
    BY <1>1, <1>4, CategoryFacts DEF RemovedOf
  <1>5. /\ IsFiniteSet(batch) /\ Cardinality(batch) \in Nat
        /\ IsFiniteSet(RemovedOf(table, c)) /\ Cardinality(RemovedOf(table, c)) \in Nat
    <2>1. \A i \in RemovedOf(table, c) : i \in InCategory(c)
      BY DEF RemovedOf
    <2> QED BY <1>1, <2>1, CategoriesFinite
  <1>6. Cardinality(RemovedOf(table, c) \cap batch) = 0
    BY <1>3, FS_EmptySet
  <1>7. Cardinality(RemovedOf(table, c) \cup batch)
          = Cardinality(RemovedOf(table, c)) + Cardinality(batch)
    <2> DEFINE S == RemovedOf(table, c)
    <2> HIDE DEF S
    <2>1. Cardinality(S \cup batch) = Cardinality(S) + Cardinality(batch) - Cardinality(S \cap batch)
      BY <1>5, FS_Union DEF S
    <2> QED BY <1>5, <1>6, <2>1 DEF S
  <1> QED BY <1>2, <1>4, <1>7

LEMMA StatusHolds == StatusInv /\ [RetentionNext]_retentionVars => StatusInv'
  <1> SUFFICES ASSUME StatusInv, [RetentionNext]_retentionVars PROVE StatusInv'
    OBVIOUS
  <1>1. RetentionTypeOK /\ RetentionTypeOK'
    BY TypesHold DEF StatusInv
  <1>2. ASSUME ~ RetireCommit, ~ RetireStart, ~ RetireCategory PROVE StatusInv'
    <2>1. status' = status /\ (retiring' = retiring \/ retiring' = Unset)
      BY <1>2 DEF RetentionNext, retentionVars, AddRow, PutPolicy, RetireFails, TickOfDay
    <2>2. ASSUME NEW i \in Items PROVE rows'[i] = Gone <=> rows[i] = Gone
      <3>1. CASE rows[i] # Unset
        BY <1>1, <1>2, <3>1, RowsStay
      <3>2. CASE rows[i] = Unset /\ rows'[i] # rows[i]
        <4>1. PICK x \in Items : \E at \in StampsOf[x] : AddRow(x, at)
          BY <1>2, <3>2 DEF RetentionNext, retentionVars, PutPolicy, RetireFails, TickOfDay
        <4>2. PICK at \in StampsOf[x] : AddRow(x, at)
          BY <4>1
        <4>3. at \in Int /\ rows'[i] = at
          BY <1>1, <3>2, <4>2, RetentionAssumption DEF AddRow, RetentionTypeOK
        <4> QED BY <3>2, <4>3, RetentionAssumption
      <3> QED BY <3>1, <3>2
    <2>3. Right(status, rows)'
      BY <2>1, <2>2, RightOfSame DEF StatusInv
    <2>4. ASSUME retiring' # Unset PROVE Right(retiring.status, Visible)'
      <3>1. Right(retiring.status, Visible) /\ retiring' = retiring
        BY <2>1, <2>4 DEF StatusInv
      <3>2. \A i \in Items : Visible'[i] = Gone <=> Visible[i] = Gone
        BY <2>2, <3>1 DEF Visible
      <3>3. Right(retiring.status, Visible')
        BY <3>1, <3>2, RightOfSame
      <3> QED BY <3>1, <3>3
    <2> QED BY <1>1, <2>3, <2>4 DEF StatusInv
  <1>3. CASE RetireStart
    <2>1. /\ UNCHANGED <<rows, status>> /\ retiring'.status = status /\ retiring'.deleted = {}
      BY <1>3 DEF RetireStart
    <2>2. \A i \in Items : Visible'[i] = rows[i]
      BY <2>1 DEF Visible
    <2>3. Right(status, rows)
      BY DEF StatusInv
    <2>4. Right(status, Visible')
      BY <2>2, <2>3, RightOfSame
    <2> QED BY <1>1, <2>1, <2>3, <2>4 DEF StatusInv
  <1>4. CASE RetireCommit
    <2>1. /\ retiring # Unset /\ retiring' = Unset /\ status' = retiring.status /\ rows' = Visible
      BY <1>4 DEF RetireCommit, Visible
    <2> QED BY <1>1, <2>1 DEF StatusInv
  <1>5. CASE RetireCategory
    <2>1. /\ retiring # Unset /\ UNCHANGED <<rows, status>> /\ Right(retiring.status, Visible)
          /\ SweepTyped
      BY <1>1, <1>5, CategoryStep DEF StatusInv, RetentionTypeOK
    <2>2. CASE retiring'.deleted = retiring.deleted /\ retiring'.status = retiring.status
      <3>1. Visible' = Visible
        BY <2>1, <2>2 DEF Visible
      <3> QED BY <1>1, <2>1, <2>2, <3>1 DEF StatusInv
    <2>3. ASSUME NEW c \in Swept, NEW batch \in DeletionBatches(Visible, c, CutoffOf(c)),
                 retiring'.deleted = retiring.deleted \union batch,
                 NEW left, left = [i \in Items |-> IF i \in batch THEN Gone ELSE Visible[i]],
                 retiring'.status = [retiring.status EXCEPT ![c] =
                       StatusAfter(@, Cardinality(batch),
                          Cardinality(Eligible(left, c, CutoffOf(c))), Oldest(left, c))]
          PROVE  StatusInv'
      <3>1. \A i \in Items : Visible'[i] = left[i]
        BY <2>1, <2>3 DEF Visible
      <3>2. \A i \in Items : left[i] = IF i \in batch THEN Gone ELSE Visible[i]
        BY <2>3
      <3> DEFINE over == Cardinality(Eligible(left, c, CutoffOf(c)))
                 st == retiring.status
                 new == retiring'.status
      <3>3. over > 0 => Cardinality(batch) >= BatchSize
        BY <3>2, FullBatch
      <3>4. /\ Cardinality(RemovedOf(left, c)) = Cardinality(RemovedOf(Visible, c)) + Cardinality(batch)
            /\ \A d \in Swept \ {c} : RemovedOf(left, d) = RemovedOf(Visible, d)
        BY <3>2, BatchCounted
      <3>5. /\ new[c] = StatusAfter(st[c], Cardinality(batch), over, Oldest(left, c))
            /\ \A d \in Swept \ {c} : new[d] = st[d]
        BY <2>1, <2>3 DEF SweepTyped
      <3>6. /\ new[c].total = st[c].total + Cardinality(batch)
            /\ new[c].backlog = over /\ new[c].last = Cardinality(batch)
        BY <3>5 DEF StatusAfter
      <3> HIDE DEF new, st, over
      <3>7. Right(st, Visible)
        BY <2>1 DEF st
      <3>8. Right(new, left)
        BY <3>3, <3>4, <3>5, <3>6, <3>7 DEF Right
      <3>9. Right(new, Visible')
        BY <3>1, <3>8, RightOfSame
      <3> QED BY <1>1, <2>1, <3>9 DEF StatusInv, new
    <2> QED BY <1>1, <1>5, <2>2, <2>3, CategoryStep
  <1> QED BY <1>2, <1>3, <1>4, <1>5

(* The status an operator reads is true: the total of a category is the    *)
(* number of its rows ever deleted, through sweeps that fail and sweeps    *)
(* that a batch cuts short; and rows are left over only by a sweep that    *)
(* deleted a full batch (retention_worker.py _record_status).              *)
THEOREM StatusHonest == RetentionSpec => []StatusIsTrue
  <1>1. RetentionInit => StatusInv
    <2> SUFFICES ASSUME RetentionInit PROVE StatusInv
      OBVIOUS
    <2>1. RetentionTypeOK
      BY RetentionAssumption DEF RetentionInit, RetentionTypeOK
    <2>2. \A c \in Swept : RemovedOf(rows, c) = {}
      BY RetentionAssumption, CategoryFacts DEF RetentionInit, RemovedOf
    <2>3. Right(status, rows)
      BY <2>2, FS_EmptySet DEF RetentionInit, NoStatus, Right
    <2> QED BY <2>1, <2>3 DEF RetentionInit, StatusInv
  <1>2. StatusInv => StatusIsTrue
    BY DEF StatusInv, Right, StatusIsTrue, RemovedOf
  <1> QED BY <1>1, <1>2, StatusHolds, PTL DEF RetentionSpec

-----------------------------------------------------------------------------
(* Upgrade.  What a database holds, committed or as an open upgrade sees   *)
(* it, when the reports told of are in it: a copy has no more tokens than  *)
(* its v1 row, and its cost is the v1 one as long as there is a column for *)
(* it, ...                                                                 *)
Copies(d) ==
    \A e \in Marked(d) :
        /\ d.usage[e] # Null
        /\ d.ledger[e].tokens <= d.usage[e].tokens
        /\ d.ledger[e].cost = IF d.rev >= 9 THEN d.ledger[e].v1cost ELSE Null

(* ... from 0010 on it stands for the archive, ...                         *)
Swapped(d) ==
    d.rev >= 10 =>
        /\ \A e \in Present(d.usage) : /\ d.ledger[e] # Null
                                    /\ d.ledger[e].tokens >= d.usage[e].tokens
        /\ \A m \in Machines :
              Of(Present(d.usage), m) \subseteq Marked(d) =>
                  Total(CostColumn(d.ledger), Of(Present(d.usage), m))
                      = Total(CostColumn(d.usage), Of(Present(d.usage), m))

(* ... and the reports are in one of the two tables.                       *)
Survives(d, told) ==
    \A e \in EventIds : told[e] > 0 =>
        \/ d.usage[e] # Null /\ d.usage[e].tokens >= told[e]
        \/ d.ledger[e] # Null /\ d.ledger[e].tokens >= told[e]

Sound(d, told) == Copies(d) /\ Swapped(d) /\ Survives(d, told)

(* A registry that was filled knows the models of the events in es.        *)
Filled(d, es) == d.registryDone => \A e \in es : d.models[ModelOf[e]] # Null

(* An upgrade is open in a process that began with it; one that goes on is *)
(* at the head.                                                            *)
Upgrading ==
    /\ work # Null => process \in {"start"} \union Commands
    /\ work = Null /\ process # "none" => db.rev = HeadRevision
    /\ process = "up" => db.registryDone
    /\ db.rev \in {7, 8, 9, HeadRevision}

UpgradeInv ==
    /\ UpgradeTypeOK
    /\ Sound(db, reports) /\ Filled(db, collected)
    /\ work # Null => Sound(work, reports) /\ Filled(work, collected)
    /\ \A e \in collected : reports[e] > 0
    /\ Upgrading

-----------------------------------------------------------------------------
(* What the steps do to a database.                                        *)
LEMMA Fields ==
    ASSUME NEW d \in Databases
    PROVE  /\ d.rev \in SchemaRevisions /\ d.registryDone \in BOOLEAN
           /\ d.usage \in [EventIds -> UsageRows \union {Null}]
           /\ d.ledger \in [EventIds -> LedgerRows \union {Null}]
           /\ d.costs \in [EventIds -> Statuses \union {Null}]
           /\ d.sources \in SUBSET Machines
           /\ d.models \in [NativeModels -> Lifecycles \union {Null}]
           /\ d # Null
  BY UpgradeAssumption DEF Databases

LEMMA RowTypes ==
    ASSUME NEW d \in Databases
    PROVE  /\ \A e \in Present(d.usage) :
                 /\ e \in EventIds /\ d.usage[e] \in UsageRows /\ d.usage[e].tokens \in Nat
                 /\ d.usage[e].cost \in Costs \union {Null} /\ Amount(d.usage[e].cost) \in Nat
           /\ \A e \in Present(d.ledger) :
                 /\ e \in EventIds /\ d.ledger[e] \in LedgerRows /\ d.ledger[e].tokens \in Nat
                 /\ d.ledger[e].cost \in Costs \union {Null}
                 /\ d.ledger[e].v1cost \in Costs \union {Null}
                 /\ Amount(d.ledger[e].v1cost) \in Nat
           /\ Present(d.usage) \subseteq EventIds
           /\ Marked(d) \subseteq Present(d.ledger) /\ Present(d.ledger) \subseteq EventIds
  <1>1. \A t \in Counts : t \in Nat
    BY DEF Counts
  <1>2. \A c \in Costs \union {Null} : Amount(c) \in Nat
    BY UpgradeAssumption DEF Amount
  <1>3. ASSUME NEW e \in Present(d.usage)
        PROVE  /\ e \in EventIds /\ d.usage[e] \in UsageRows
               /\ d.usage[e].tokens \in Counts /\ d.usage[e].cost \in Costs \union {Null}
    BY Fields DEF Present, UsageRows
  <1>4. ASSUME NEW e \in Present(d.ledger)
        PROVE  /\ e \in EventIds /\ d.ledger[e] \in LedgerRows
               /\ d.ledger[e].tokens \in Counts /\ d.ledger[e].cost \in Costs \union {Null}
               /\ d.ledger[e].v1cost \in Costs \union {Null}
    BY Fields DEF Present, LedgerRows
  <1> QED BY <1>1, <1>2, <1>3, <1>4 DEF Present, Marked

(* The archive has no event the ledger has not, and there it has nothing   *)
(* to copy; before 0009 it may have none.                                  *)
LEMMA BackfillsNothing ==
    ASSUME NEW d \in Databases, d.rev >= 10 \/ Present(View(d)) = {}
    PROVE  Backfill(d) = d
  <1>1. \A e \in EventIds : d.ledger[e] = Null => View(d)[e] = Null
    <2>1. d.rev \in Nat
      BY Fields DEF SchemaRevisions, HeadRevision
    <2>2. CASE d.rev >= 10
      <3>1. \A e \in EventIds : View(d)[e] = IF d.ledger[e] = Null THEN Null
                 ELSE [tokens |-> d.ledger[e].tokens, cost |-> d.ledger[e].cost]
        BY <2>1, <2>2 DEF View
      <3> QED BY <3>1
    <2>3. CASE Present(View(d)) = {}
      BY <2>3 DEF Present
    <2> QED BY <2>2, <2>3
  <1>2. [e \in EventIds |-> IF d.ledger[e] = Null /\ View(d)[e] # Null THEN Backfilled(View(d)[e])
                          ELSE d.ledger[e]] = d.ledger
    BY <1>1, Fields
  <1> QED BY <1>2 DEF Backfill, Databases

LEMMA Revised ==
    ASSUME NEW d \in Databases, NEW rev \in SchemaRevisions
    PROVE  LET n == [d EXCEPT !.rev = rev]
           IN  /\ n \in Databases /\ n.rev = rev /\ n.usage = d.usage /\ n.ledger = d.ledger
               /\ n.costs = d.costs /\ n.sources = d.sources /\ n.models = d.models
               /\ n.registryDone = d.registryDone
  BY DEF Databases

SameRegistry(d, n) == n.models = d.models /\ n.registryDone = d.registryDone

LEMMA Sound0008 ==
    ASSUME NEW told, NEW d \in Databases, Sound(d, told), d.rev = 7, CanBackfill(d)
    PROVE  LET n == [Backfill(d) EXCEPT !.rev = 8]
           IN  /\ n \in Databases /\ Sound(n, told) /\ n.rev = 8
               /\ SameRegistry(d, n)
  <1> DEFINE n == [d EXCEPT !.rev = 8]
  <1>1. Backfill(d) = d
    BY BackfillsNothing DEF CanBackfill
  <1>2. 8 \in SchemaRevisions
    BY DEF SchemaRevisions
  <1>3. /\ n \in Databases /\ n.rev = 8 /\ n.usage = d.usage /\ n.ledger = d.ledger
        /\ n.models = d.models /\ n.registryDone = d.registryDone
    BY <1>2, Revised
  <1> HIDE DEF n
  <1>4. Sound(n, told)
    BY <1>3 DEF Sound, Copies, Swapped, Survives, Marked
  <1> QED BY <1>1, <1>3, <1>4 DEF n, SameRegistry

(* A step that leaves tokens, marks and v1 costs alone.                    *)
SameRows(d, n) ==
    /\ n.usage = d.usage
    /\ \A e \in EventIds :
          /\ d.ledger[e] = Null <=> n.ledger[e] = Null
          /\ d.ledger[e] # Null => /\ n.ledger[e].tokens = d.ledger[e].tokens
                                   /\ n.ledger[e].marked = d.ledger[e].marked
                                   /\ n.ledger[e].v1cost = d.ledger[e].v1cost

LEMMA SameRowsSound ==
    ASSUME NEW told, NEW d, NEW n, SameRows(d, n), Sound(d, told)
    PROVE  /\ Survives(n, told)
           /\ Present(n.usage) = Present(d.usage) /\ Present(n.ledger) = Present(d.ledger)
           /\ Marked(n) = Marked(d)
           /\ \A e \in Marked(n) : n.usage[e] # Null /\ n.ledger[e].tokens <= n.usage[e].tokens
  <1>1. Present(n.usage) = Present(d.usage) /\ Present(n.ledger) = Present(d.ledger)
    BY DEF SameRows, Present
  <1>2. Marked(n) = Marked(d)
    BY <1>1 DEF SameRows, Marked, Present
  <1>3. \A e \in Marked(n) : n.usage[e] # Null /\ n.ledger[e].tokens <= n.usage[e].tokens
    BY <1>2 DEF SameRows, Sound, Copies, Marked, Present
  <1> QED BY <1>1, <1>2, <1>3 DEF SameRows, Sound, Survives, Present

LEMMA Sound0009 ==
    ASSUME NEW told, NEW d \in Databases, Sound(d, told), d.rev = 8
    PROVE  LET n == [CostsPopulated(d) EXCEPT !.rev = 9]
           IN  /\ n \in Databases /\ Sound(n, told) /\ n.rev = 9
               /\ SameRegistry(d, n)
  <1> DEFINE p == CostsPopulated(d)
             n == [p EXCEPT !.rev = 9]
             new(e) == IF d.ledger[e] # Null /\ d.ledger[e].v1cost # Null
                       THEN [d.ledger[e] EXCEPT !.cost = d.ledger[e].v1cost] ELSE d.ledger[e]
  <1>1. p = [d EXCEPT !.ledger = [e \in EventIds |-> new(e)]]
    BY DEF CostsPopulated
  <1>2. ASSUME NEW e \in EventIds
        PROVE  /\ new(e) \in LedgerRows \union {Null}
               /\ d.ledger[e] = Null <=> new(e) = Null
               /\ d.ledger[e] # Null =>
                     /\ new(e).tokens = d.ledger[e].tokens /\ new(e).marked = d.ledger[e].marked
                     /\ new(e).v1cost = d.ledger[e].v1cost
                     /\ new(e).cost = IF d.ledger[e].v1cost = Null THEN d.ledger[e].cost
                                      ELSE d.ledger[e].v1cost
    <2>1. d.ledger[e] \in LedgerRows \union {Null}
      BY Fields
    <2> QED BY <2>1, UpgradeAssumption DEF LedgerRows
  <1> HIDE DEF new
  <1>3. /\ p \in Databases /\ p.usage = d.usage /\ p.models = d.models
        /\ p.registryDone = d.registryDone /\ p.ledger = [e \in EventIds |-> new(e)]
    BY <1>1, <1>2 DEF Databases
  <1> HIDE DEF p
  <1>4. /\ n \in Databases /\ n.rev = 9 /\ n.usage = d.usage /\ n.models = d.models
        /\ n.registryDone = d.registryDone /\ n.ledger = [e \in EventIds |-> new(e)]
    BY <1>3, Revised DEF SchemaRevisions
  <1> HIDE DEF n
  <1>5. SameRows(d, n)
    BY <1>2, <1>4 DEF SameRows
  <1>6. Copies(n)
    <2>1. ASSUME NEW e \in Marked(n) PROVE n.ledger[e].cost = n.ledger[e].v1cost
      <3>1. e \in Marked(d) /\ e \in EventIds /\ d.ledger[e] # Null
        BY <1>5, <2>1, SameRowsSound DEF Marked, Present
      <3>2. d.ledger[e].cost = Null
        BY <3>1 DEF Sound, Copies
      <3> QED BY <1>2, <1>4, <3>1, <3>2
    <2> QED BY <1>4, <1>5, <2>1, SameRowsSound DEF Copies
  <1>7. Sound(n, told)
    BY <1>4, <1>5, <1>6, SameRowsSound DEF Sound, Swapped
  <1> QED BY <1>4, <1>7 DEF n, p, SameRegistry

(* verify_backfill: as many copies as v1 rows, so all are copied; tokens   *)
(* that add up to the same, none greater, so all are the same.             *)
LEMMA VerifiedMachine ==
    ASSUME NEW d \in Databases, Copies(d), d.rev = 9, NEW m \in Machines,
           UsageTotals(d, m) = MarkedTotals(d, m)
    PROVE  LET es == Of(Present(d.usage), m)
           IN  /\ es \subseteq Marked(d)
               /\ \A e \in es : d.ledger[e].tokens = d.usage[e].tokens
               /\ Total(CostColumn(d.ledger), es) = Total(CostColumn(d.usage), es)
  <1> DEFINE es == Of(Present(d.usage), m)
             copied == Of(Marked(d), m)
  <1>1. View(d) = d.usage
    BY DEF View
  <1>2. /\ Cardinality(es) = Cardinality(copied)
        /\ Total(TokenColumn(d.usage), es) = Total(TokenColumn(d.ledger), copied)
        /\ Total(CostColumn(d.usage), es) = Total(V1CostColumn(d.ledger), copied)
    BY <1>1 DEF UsageTotals, MarkedTotals, Totals
  <1>3. copied \subseteq es
    BY RowTypes DEF Of, Copies, Present
  <1>4. IsFiniteSet(es)
    <2>1. es \in SUBSET EventIds
      BY RowTypes DEF Of
    <2> QED BY <2>1, FS_Subset, UpgradeAssumption
  <1>5. copied = es
    BY <1>2, <1>3, <1>4, FS_Subset
  <1>6. \A e \in es : /\ e \in Present(d.usage) /\ e \in Present(d.ledger) /\ e \in Marked(d)
                      /\ d.ledger[e].tokens \in Nat /\ d.usage[e].tokens \in Nat
    BY <1>5, RowTypes DEF Of
  <1>7. \A e \in es : d.ledger[e].tokens = d.usage[e].tokens
    <2> DEFINE f == TokenColumn(d.ledger)
               g == TokenColumn(d.usage)
    <2>1. \A e \in es : f[e] = d.ledger[e].tokens /\ g[e] = d.usage[e].tokens
      BY <1>6 DEF TokenColumn
    <2>2. \A e \in es : f[e] \in Nat /\ g[e] \in Nat /\ f[e] <= g[e]
      BY <1>6, <2>1 DEF Copies
    <2>3. Total(f, es) = Total(g, es)
      BY <1>2, <1>5
    <2> HIDE DEF f, g
    <2>4. \A e \in es : f[e] = g[e]
      BY <1>4, <2>2, <2>3, TotalGrows
    <2> QED BY <2>1, <2>4
  <1>8. Total(CostColumn(d.ledger), es) = Total(V1CostColumn(d.ledger), es)
    <2>1. \A e \in es : CostColumn(d.ledger)[e] = V1CostColumn(d.ledger)[e]
      BY <1>6 DEF CostColumn, V1CostColumn, Copies
    <2> QED BY <1>4, <2>1, TotalSame
  <1> QED BY <1>2, <1>5, <1>6, <1>7, <1>8

LEMMA Sound0010 ==
    ASSUME NEW told, NEW d \in Databases, Sound(d, told), d.rev = 9, Verified(d)
    PROVE  LET n == [d EXCEPT !.rev = 10]
           IN  /\ n \in Databases /\ Sound(n, told) /\ n.rev = 10
               /\ SameRegistry(d, n)
  <1> DEFINE n == [d EXCEPT !.rev = 10]
  <1>1. /\ n \in Databases /\ n.rev = 10 /\ n.usage = d.usage /\ n.ledger = d.ledger
        /\ n.models = d.models /\ n.registryDone = d.registryDone
    BY Revised DEF SchemaRevisions
  <1> HIDE DEF n
  <1>2. \A m \in Machines : /\ \A e \in Of(Present(d.usage), m) :
                                  d.ledger[e] # Null /\ d.ledger[e].tokens = d.usage[e].tokens
                            /\ Total(CostColumn(d.ledger), Of(Present(d.usage), m))
                                  = Total(CostColumn(d.usage), Of(Present(d.usage), m))
    BY VerifiedMachine DEF Verified, Sound, Marked, Present
  <1>3. \A e \in Present(d.usage) : d.ledger[e] # Null /\ d.ledger[e].tokens >= d.usage[e].tokens
    <2> TAKE e \in Present(d.usage)
    <2>1. MachineOf[e] \in Machines /\ e \in Of(Present(d.usage), MachineOf[e])
      BY UpgradeAssumption DEF Of, Present
    <2>2. d.ledger[e] # Null /\ d.ledger[e].tokens = d.usage[e].tokens
      BY <1>2, <2>1
    <2>3. d.usage[e].tokens \in Nat
      BY RowTypes
    <2> QED BY <2>2, <2>3
  <1>4. Swapped(n)
    BY <1>1, <1>2, <1>3 DEF Swapped
  <1>5. Copies(n)
    BY <1>1 DEF Sound, Copies, Marked
  <1> QED BY <1>1, <1>4, <1>5 DEF Sound, Survives, SameRegistry, n

(* Nothing but the attribution changes: the tokens and costs of the view   *)
(* are the same.                                                           *)
LEMMA SwappedSame ==
    ASSUME NEW told, NEW d \in Databases, NEW n \in Databases, SameRows(d, n), Sound(d, told),
           d.rev >= 10, n.rev >= 9,
           \A e \in Present(d.ledger) : n.ledger[e].cost = d.ledger[e].cost
    PROVE  Sound(n, told)
  <1>1. d.rev \in Nat /\ n.rev \in Nat
    BY Fields DEF SchemaRevisions, HeadRevision
  <1>2. Copies(n)
    BY <1>1, SameRowsSound DEF Copies, Sound, SameRows, Marked, Present
  <1>3. /\ Present(n.usage) = Present(d.usage) /\ Present(n.ledger) = Present(d.ledger)
        /\ Marked(n) = Marked(d) /\ n.usage = d.usage
    BY SameRowsSound DEF SameRows
  <1>4. \A e \in Present(n.usage) : n.ledger[e] # Null /\ n.ledger[e].tokens >= n.usage[e].tokens
    BY <1>1 DEF Sound, Swapped, SameRows, Present
  <1>5. ASSUME NEW m \in Machines, Of(Present(n.usage), m) \subseteq Marked(n)
        PROVE  Total(CostColumn(n.ledger), Of(Present(n.usage), m))
                  = Total(CostColumn(n.usage), Of(Present(n.usage), m))
    <2> DEFINE es == Of(Present(d.usage), m)
    <2>1. /\ es = Of(Present(n.usage), m) /\ es \subseteq Marked(d)
          /\ Present(n.ledger) = Present(d.ledger) /\ n.usage = d.usage
      BY <1>5, <1>3
    <2>2. IsFiniteSet(es)
      <3>1. es \in SUBSET EventIds
        BY RowTypes DEF Of
      <3> QED BY <3>1, FS_Subset, UpgradeAssumption
    <2>3. \A e \in es : CostColumn(n.ledger)[e] = CostColumn(d.ledger)[e]
      BY <2>1 DEF CostColumn, Marked
    <2>4. Total(CostColumn(n.ledger), es) = Total(CostColumn(d.ledger), es)
      BY <2>2, <2>3, TotalSame
    <2>5. Total(CostColumn(d.ledger), es) = Total(CostColumn(d.usage), es)
      BY <1>1, <2>1 DEF Sound, Swapped
    <2> QED BY <2>1, <2>4, <2>5
  <1> QED BY <1>2, <1>4, <1>5, SameRowsSound DEF Sound, Swapped

LEMMA Sound0014 ==
    ASSUME NEW told, NEW d \in Databases, Sound(d, told), d.rev = 10
    PROVE  LET n == [Attributed(d) EXCEPT !.rev = 14]
           IN  /\ n \in Databases /\ Sound(n, told) /\ n.rev = 14
               /\ SameRegistry(d, n)
  <1> DEFINE p == Attributed(d)
             n == [p EXCEPT !.rev = 14]
             none == {e \in Present(d.ledger) : d.ledger[e].source = Null /\ d.ledger[e].machine}
             new(e) == IF e \in none THEN [d.ledger[e] EXCEPT !.source = "collector"]
                       ELSE d.ledger[e]
             sources == d.sources \union {MachineOf[e] : e \in none}
  <1>1. p = [d EXCEPT !.sources = sources, !.ledger = [e \in EventIds |-> new(e)]]
    BY DEF Attributed
  <1>2. ASSUME NEW e \in EventIds
        PROVE  /\ new(e) \in LedgerRows \union {Null}
               /\ d.ledger[e] = Null <=> new(e) = Null
               /\ d.ledger[e] # Null =>
                     /\ new(e).tokens = d.ledger[e].tokens /\ new(e).marked = d.ledger[e].marked
                     /\ new(e).v1cost = d.ledger[e].v1cost /\ new(e).cost = d.ledger[e].cost
    <2>1. d.ledger[e] \in LedgerRows \union {Null}
      BY Fields
    <2> QED BY <2>1, UpgradeAssumption DEF LedgerRows, Present
  <1>3. sources \in SUBSET Machines
    BY Fields, UpgradeAssumption DEF Present
  <1> DEFINE written == [e \in EventIds |-> new(e)]
  <1> HIDE DEF new, none, sources
  <1>4. /\ p \in Databases /\ p.usage = d.usage /\ p.models = d.models
        /\ p.registryDone = d.registryDone /\ p.ledger = [e \in EventIds |-> new(e)]
    <2>1. written \in [EventIds -> LedgerRows \union {Null}]
      BY <1>2
    <2>2. p = [d EXCEPT !.sources = sources, !.ledger = written]
      BY <1>1
    <2> HIDE DEF written, p
    <2>3. /\ p \in Databases /\ p.usage = d.usage /\ p.models = d.models
          /\ p.registryDone = d.registryDone /\ p.ledger = written
      BY <1>3, <2>1, <2>2 DEF Databases
    <2> QED BY <2>3 DEF written
  <1> HIDE DEF p
  <1>5. /\ n \in Databases /\ n.rev = 14 /\ n.usage = d.usage /\ n.models = d.models
        /\ n.registryDone = d.registryDone /\ n.ledger = [e \in EventIds |-> new(e)]
    BY <1>4, Revised DEF SchemaRevisions
  <1> HIDE DEF n
  <1>6. SameRows(d, n) /\ \A e \in Present(d.ledger) : n.ledger[e].cost = d.ledger[e].cost
    BY <1>2, <1>5 DEF SameRows, Present
  <1>7. Sound(n, told)
    BY <1>5, <1>6, SwappedSame
  <1> QED BY <1>5, <1>7 DEF n, p, SameRegistry

LEMMA Sound0017 ==
    ASSUME NEW told, NEW d \in Databases, Sound(d, told), d.rev = 14
    PROVE  LET n == [Materialized(d) EXCEPT !.rev = HeadRevision]
           IN  /\ n \in Databases /\ Sound(n, told) /\ n.rev = HeadRevision
               /\ SameRegistry(d, n)
  <1> DEFINE p == Materialized(d)
             n == [p EXCEPT !.rev = HeadRevision]
             priced == [e \in EventIds |-> IF d.ledger[e] = Null THEN Null
                           ELSE IF d.ledger[e].cost = Null THEN "unpriced" ELSE "priced"]
  <1>1. priced \in [EventIds -> Statuses \union {Null}]
    BY DEF Statuses
  <1>2. p = [d EXCEPT !.costs = priced]
    BY DEF Materialized
  <1> HIDE DEF priced
  <1>3. /\ p \in Databases /\ p.usage = d.usage /\ p.models = d.models
        /\ p.registryDone = d.registryDone /\ p.ledger = d.ledger
    BY <1>1, <1>2 DEF Databases
  <1> HIDE DEF p
  <1>4. /\ n \in Databases /\ n.rev = HeadRevision /\ n.usage = d.usage /\ n.models = d.models
        /\ n.registryDone = d.registryDone /\ n.ledger = d.ledger
    BY <1>3, Revised DEF SchemaRevisions
  <1> HIDE DEF n
  <1>5. SameRows(d, n) /\ \A e \in Present(d.ledger) : n.ledger[e].cost = d.ledger[e].cost
    BY <1>4 DEF SameRows
  <1>6. Sound(n, told)
    BY <1>4, <1>5, SwappedSame DEF HeadRevision
  <1> QED BY <1>4, <1>6 DEF n, p, SameRegistry

-----------------------------------------------------------------------------
(* Registries, requests and downgrades.                                    *)
LEMMA SoundFilled ==
    ASSUME NEW told, NEW d \in Databases, Sound(d, told), d.rev = HeadRevision,
           NEW es \in SUBSET EventIds, \A e \in es : told[e] > 0
    PROVE  LET n == RegistryFilled(d)
           IN  /\ n \in Databases /\ Sound(n, told) /\ n.rev = HeadRevision
               /\ n.registryDone /\ Filled(n, es)
  <1> DEFINE n == RegistryFilled(d)
             models == [m \in NativeModels |-> IF \E e \in Present(View(d)) : ModelOf[e] = m
                                   THEN Catalogued(m, d.models[m]) ELSE d.models[m]]
  <1>1. n = [d EXCEPT !.models = models, !.registryDone = TRUE]
    BY DEF RegistryFilled
  <1>2. ASSUME NEW m \in NativeModels
        PROVE  /\ Catalogued(m, d.models[m]) \in Lifecycles
               /\ d.models[m] \in Lifecycles \union {Null}
    BY Fields DEF Catalogued, Lifecycles
  <1>3. models \in [NativeModels -> Lifecycles \union {Null}]
    BY <1>2
  <1>4. \A e \in Present(d.ledger) : models[ModelOf[e]] # Null
    <2> TAKE e \in Present(d.ledger)
    <2>1. e \in EventIds /\ ModelOf[e] \in NativeModels
      BY UpgradeAssumption DEF Present
    <2>2. View(d)[e] # Null
      <3>1. View(d) = [x \in EventIds |-> IF d.ledger[x] = Null THEN Null
                         ELSE [tokens |-> d.ledger[x].tokens, cost |-> d.ledger[x].cost]]
        BY DEF View, HeadRevision
      <3>2. View(d)[e] = [tokens |-> d.ledger[e].tokens, cost |-> d.ledger[e].cost]
        BY <2>1, <3>1 DEF Present
      <3>3. d.ledger[e].tokens \in Counts /\ d.ledger[e].cost \in Costs \union {Null}
        BY <2>1, Fields DEF Present, LedgerRows
      <3>4. View(d)[e] \in UsageRows
        BY <3>2, <3>3 DEF UsageRows
      <3> QED BY <3>4, UpgradeAssumption
    <2>3. e \in Present(View(d))
      BY <2>1, <2>2 DEF Present
    <2>4. models[ModelOf[e]] = Catalogued(ModelOf[e], d.models[ModelOf[e]])
      BY <2>1, <2>3
    <2> QED BY <1>2, <2>1, <2>4, UpgradeAssumption
  <1> HIDE DEF models
  <1>5. /\ n \in Databases /\ n.rev = d.rev /\ n.usage = d.usage /\ n.ledger = d.ledger
        /\ n.models = models /\ n.registryDone
    BY <1>1, <1>3 DEF Databases
  <1> HIDE DEF n
  <1>6. es \subseteq Present(d.ledger)
    BY DEF Sound, Swapped, Survives, HeadRevision, Present
  <1>7. Sound(n, told)
    BY <1>5 DEF Sound, Copies, Swapped, Survives, Marked
  <1>8. Filled(n, es)
    BY <1>4, <1>5, <1>6 DEF Filled
  <1> QED BY <1>5, <1>7, <1>8 DEF n

(* A request leaves an event's row as it is or writes one without a mark,  *)
(* with no fewer tokens.                                                   *)
LEMMA WrittenSound ==
    ASSUME NEW told \in [EventIds -> 0 .. MaxCount], NEW said,
           NEW d \in Databases, NEW n \in Databases, Sound(d, told), NEW e \in EventIds,
           NEW row \in LedgerRows, NEW tokens \in Nat,
           d.rev = HeadRevision, n.rev = d.rev, n.usage = d.usage,
           n.ledger = [d.ledger EXCEPT ![e] = row],
           row = d.ledger[e] \/ ~ row.marked,
           d.ledger[e] # Null => row.tokens >= d.ledger[e].tokens,
           row.tokens >= tokens,
           said = [told EXCEPT ![e] = IF tokens > told[e] THEN tokens ELSE told[e]]
    PROVE  Sound(n, said)
  <1>1. n.ledger[e] = row /\ row # Null /\ \A x \in EventIds \ {e} : n.ledger[x] = d.ledger[x]
    BY Fields, UpgradeAssumption
  <1>2. Present(n.ledger) = Present(d.ledger) \union {e}
    BY <1>1 DEF Present
  <1>3. \A x \in Marked(n) : x \in Marked(d) /\ n.ledger[x] = d.ledger[x]
    BY <1>1, UpgradeAssumption DEF Marked, Present
  <1>4. Copies(n)
    BY <1>3 DEF Sound, Copies, Marked, Present
  <1>5. \A x \in Present(n.usage) : n.ledger[x] # Null /\ n.ledger[x].tokens >= n.usage[x].tokens
    <2> TAKE x \in Present(n.usage)
    <2>1. /\ d.ledger[x] # Null /\ d.ledger[x].tokens >= d.usage[x].tokens
          /\ x \in Present(d.ledger) /\ x \in Present(d.usage) /\ x \in Present(n.ledger)
      BY <1>2 DEF Sound, Swapped, HeadRevision, Present
    <2>2. /\ d.ledger[x].tokens \in Nat /\ d.usage[x].tokens \in Nat
          /\ n.ledger[x].tokens \in Nat
      BY <2>1, RowTypes
    <2> QED BY <1>1, <2>1, <2>2 DEF Present
  <1>6. ASSUME NEW m \in Machines, Of(Present(n.usage), m) \subseteq Marked(n)
        PROVE  Total(CostColumn(n.ledger), Of(Present(n.usage), m))
                  = Total(CostColumn(n.usage), Of(Present(n.usage), m))
    <2> DEFINE es == Of(Present(d.usage), m)
    <2>1. es \subseteq Marked(d) /\ es \subseteq Present(d.ledger) /\ es \subseteq Present(n.ledger)
      BY <1>3, <1>6 DEF Marked
    <2>2. IsFiniteSet(es)
      <3>1. es \in SUBSET EventIds
        BY RowTypes DEF Of
      <3> QED BY <3>1, FS_Subset, UpgradeAssumption
    <2>3. \A x \in es : CostColumn(n.ledger)[x] = CostColumn(d.ledger)[x]
      BY <1>3, <1>6, <2>1 DEF CostColumn
    <2>4. Total(CostColumn(n.ledger), es) = Total(CostColumn(d.ledger), es)
      BY <2>2, <2>3, TotalSame
    <2>5. Total(CostColumn(d.ledger), es) = Total(CostColumn(d.usage), es)
      BY <2>1 DEF Sound, Swapped, HeadRevision
    <2> QED BY <2>4, <2>5
  <1>7. Swapped(n)
    BY <1>5, <1>6 DEF Swapped
  <1>8. Survives(n, said)
    <2> SUFFICES ASSUME NEW x \in EventIds, said[x] > 0
                 PROVE  \/ n.usage[x] # Null /\ n.usage[x].tokens >= said[x]
                        \/ n.ledger[x] # Null /\ n.ledger[x].tokens >= said[x]
      BY DEF Survives
    <2>1. CASE x # e
      BY <1>1, <2>1 DEF Sound, Survives
    <2>2. CASE x = e
      <3>1. said[e] = IF tokens > told[e] THEN tokens ELSE told[e]
        OBVIOUS
      <3>2. CASE tokens > told[e]
        BY <1>1, <2>2, <3>1, <3>2
      <3>3. CASE ~ tokens > told[e]
        <4>1. \/ d.usage[e] # Null /\ d.usage[e].tokens >= told[e]
              \/ d.ledger[e] # Null /\ d.ledger[e].tokens >= told[e]
          BY <2>2, <3>1, <3>3 DEF Sound, Survives
        <4>2. told[e] \in Int /\ row.tokens \in Int
          BY DEF LedgerRows, Counts
        <4>3. d.ledger[e] # Null => d.ledger[e].tokens \in Int
          BY RowTypes DEF Present
        <4> QED BY <1>1, <2>2, <3>1, <3>3, <4>1, <4>2, <4>3
      <3> QED BY <3>2, <3>3
    <2> QED BY <2>1, <2>2
  <1> QED BY <1>4, <1>7, <1>8 DEF Sound

(* What the registry observes it knows.                                    *)
LEMMA ObservedFilled ==
    ASSUME NEW d \in Databases, NEW n \in Databases, NEW es \in SUBSET EventIds,
           NEW e \in EventIds, Filled(d, es), n.registryDone = d.registryDone,
           n.models = Observed(d.models, ModelOf[e])
    PROVE  Filled(n, es \union {e})
  <1>1. \A x \in EventIds : ModelOf[x] \in NativeModels
    BY UpgradeAssumption
  <1>2. \A m \in NativeModels : d.models[m] # Null => n.models[m] # Null
    BY Fields, UpgradeAssumption DEF Observed
  <1>3. n.models[ModelOf[e]] # Null
    BY <1>1, Fields, UpgradeAssumption DEF Observed, Lifecycles
  <1> QED BY <1>1, <1>2, <1>3 DEF Filled

LEMMA ReportedMore ==
    ASSUME reports \in [EventIds -> 0 .. MaxCount], NEW e \in EventIds, NEW tokens \in Counts,
           tokens > 0
    PROVE  /\ Reported(e, tokens)[e] > 0
           /\ \A x \in EventIds : reports[x] > 0 => Reported(e, tokens)[x] > 0
  BY UpgradeAssumption DEF Reported, Counts

LEMMA SoundIngestV1 ==
    ASSUME UpgradeInv, NEW e \in EventIds, NEW tokens \in Counts, NEW cost \in Costs \union {Null},
           IngestV1(e, tokens, cost)
    PROVE  UpgradeInv'
  <1>1. /\ db \in Databases /\ Sound(db, reports) /\ db.rev = HeadRevision
        /\ reports \in [EventIds -> 0 .. MaxCount] /\ work = Null /\ tokens \in Nat
        /\ tokens > 0 /\ db.registryDone /\ collected \in SUBSET EventIds
        /\ Filled(db, collected) /\ \A x \in collected : reports[x] > 0
    BY DEF UpgradeInv, UpgradeTypeOK, Upgrading, IngestV1, Commands, Counts
  <1> DEFINE row == IF db.ledger[e] = Null \/ tokens >= db.ledger[e].tokens
                    THEN Mirrored(e, tokens, cost) ELSE db.ledger[e]
             written == [db.ledger EXCEPT ![e] = row]
             sources == db.sources \union {MachineOf[e]}
             models == Observed(db.models, ModelOf[e])
             n == [db EXCEPT !.ledger = written, !.sources = sources, !.models = models]
             said == Reported(e, tokens)
  <1>2. /\ db' = [db EXCEPT !.ledger[e] = row, !.sources = sources, !.models = models]
        /\ reports' = said /\ collected' = collected \union {e}
        /\ UNCHANGED <<work, process, faults>>
    BY DEF IngestV1
  <1>3. db.ledger[e] \in LedgerRows \union {Null}
    BY <1>1, Fields
  <1>4. Mirrored(e, tokens, cost) \in LedgerRows /\ ~ Mirrored(e, tokens, cost).marked
        /\ Mirrored(e, tokens, cost).tokens = tokens
    BY DEF Mirrored, LedgerRows
  <1>5. db.ledger[e] # Null => db.ledger[e].tokens \in Nat
    BY <1>1, RowTypes DEF Present
  <1>6. /\ row \in LedgerRows
        /\ row = db.ledger[e] \/ ~ row.marked
        /\ db.ledger[e] # Null => row.tokens >= db.ledger[e].tokens
        /\ row.tokens >= tokens
    BY <1>1, <1>3, <1>4, <1>5
  <1> HIDE DEF row
  <1>7. written \in [EventIds -> LedgerRows \union {Null}]
    BY <1>1, <1>6, Fields
  <1>8. sources \in SUBSET Machines /\ models \in [NativeModels -> Lifecycles \union {Null}]
    <2>1. db.sources \in SUBSET Machines /\ MachineOf[e] \in Machines
      BY <1>1, Fields, UpgradeAssumption
    <2>2. db.models \in [NativeModels -> Lifecycles \union {Null}]
      BY <1>1, Fields
    <2> QED BY <2>1, <2>2 DEF Observed, Lifecycles
  <1>9. said \in [EventIds -> 0 .. MaxCount]
    BY <1>1, UpgradeAssumption DEF Reported, Counts
  <1> HIDE DEF models, sources
  <1>10. db' = n
    BY <1>1, <1>2 DEF Databases
  <1> HIDE DEF written
  <1>11. /\ n \in Databases /\ n.rev = db.rev /\ n.usage = db.usage /\ n.ledger = written
         /\ n.registryDone = db.registryDone /\ n.models = models
    BY <1>1, <1>7, <1>8 DEF Databases
  <1> HIDE DEF n
  <1>12. Sound(n, said)
    BY <1>1, <1>6, <1>11, WrittenSound DEF written, Reported
  <1>13. Filled(n, collected \union {e})
    BY <1>1, <1>11, ObservedFilled DEF models
  <1>14. \A x \in collected \union {e} : said[x] > 0
    BY <1>1, ReportedMore
  <1> HIDE DEF said
  <1>15. /\ Sound(db', reports') /\ Filled(db', collected')
         /\ \A x \in collected' : reports'[x] > 0
    BY <1>2, <1>10, <1>12, <1>13, <1>14
  <1> QED BY <1>1, <1>2, <1>9, <1>10, <1>11, <1>15 DEF UpgradeInv, UpgradeTypeOK, Upgrading

LEMMA NativeRow ==
    ASSUME NEW tokens \in Counts, NEW machine \in BOOLEAN
    PROVE  LET row == Native(tokens, machine)
           IN  row \in LedgerRows /\ row.tokens = tokens /\ row.marked = FALSE /\ row # Null
  <1> DEFINE row == Native(tokens, machine)
  <1>1. row \in LedgerRows /\ row.tokens = tokens /\ row.marked = FALSE
    BY DEF Native, LedgerRows
  <1>2. row # Null
    BY <1>1, UpgradeAssumption
  <1> QED BY <1>1, <1>2

LEMMA AppRow ==
    ASSUME NEW tokens \in Counts
    PROVE  LET row == [Native(tokens, FALSE) EXCEPT !.source = "app"]
           IN  row \in LedgerRows /\ row.tokens = tokens /\ ~ row.marked
  <1> DEFINE source == "app"
             native == Native(tokens, FALSE)
             row == [native EXCEPT !.source = source]
  <1>1. native \in LedgerRows /\ native.tokens = tokens /\ native.marked = FALSE
    BY NativeRow
  <1>2. source \in {Null, "collector", "app"}
    OBVIOUS
  <1> HIDE DEF native, source
  <1>3. row \in LedgerRows /\ row.tokens = tokens /\ ~ row.marked
    BY <1>1, <1>2 DEF LedgerRows
  <1> QED BY <1>3 DEF native, source

LEMMA SoundIngestV2 ==
    ASSUME UpgradeInv, NEW e \in EventIds, NEW tokens \in Counts, IngestV2(e, tokens)
    PROVE  UpgradeInv'
  <1>1. /\ db \in Databases /\ Sound(db, reports) /\ db.rev = HeadRevision
        /\ reports \in [EventIds -> 0 .. MaxCount] /\ work = Null /\ tokens \in Nat
        /\ tokens > 0 /\ db.registryDone /\ collected \in SUBSET EventIds
        /\ Filled(db, collected) /\ \A x \in collected : reports[x] > 0
    BY DEF UpgradeInv, UpgradeTypeOK, Upgrading, IngestV2, Commands, Counts
  <1> DEFINE row == [Native(tokens, FALSE) EXCEPT !.source = "app"]
             written == [db.ledger EXCEPT ![e] = row]
             n == [db EXCEPT !.ledger = written]
             said == Reported(e, tokens)
  <1>2. /\ db' = [db EXCEPT !.ledger[e] = row] /\ db.ledger[e] = Null
        /\ reports' = said /\ UNCHANGED <<work, process, faults, collected>>
    BY DEF IngestV2
  <1>3. row \in LedgerRows /\ ~ row.marked /\ row.tokens >= tokens
    <2>1. row \in LedgerRows /\ row.tokens = tokens /\ ~ row.marked
      BY AppRow, Zenon
    <2> HIDE DEF row
    <2> QED BY <1>1, <2>1
  <1> HIDE DEF row
  <1>4. written \in [EventIds -> LedgerRows \union {Null}]
    BY <1>1, <1>3, Fields
  <1>5. said \in [EventIds -> 0 .. MaxCount]
    BY <1>1, UpgradeAssumption DEF Reported, Counts
  <1>6. db' = n
    BY <1>1, <1>2 DEF Databases
  <1> HIDE DEF written
  <1>7. /\ n \in Databases /\ n.rev = db.rev /\ n.usage = db.usage /\ n.ledger = written
        /\ n.registryDone = db.registryDone /\ n.models = db.models
    BY <1>1, <1>4 DEF Databases
  <1> HIDE DEF n
  <1>8. Sound(n, said)
    BY <1>1, <1>2, <1>3, <1>7, WrittenSound DEF written, Reported
  <1>9. \A x \in collected : said[x] > 0
    BY <1>1, ReportedMore
  <1> HIDE DEF said
  <1>10. /\ Sound(db', reports') /\ Filled(db', collected')
         /\ \A x \in collected' : reports'[x] > 0
    BY <1>1, <1>2, <1>9, <1>6, <1>7, <1>8 DEF Filled
  <1> QED BY <1>1, <1>2, <1>5, <1>6, <1>7, <1>10 DEF UpgradeInv, UpgradeTypeOK, Upgrading

(* A request of an earlier release: the table is still the one it writes.  *)
LEMMA SoundOldIngest ==
    ASSUME UpgradeInv, NEW e \in EventIds, NEW tokens \in Counts, NEW cost \in Costs \union {Null},
           OldIngest(e, tokens, cost)
    PROVE  UpgradeInv'
  <1>1. /\ db \in Databases /\ Sound(db, reports) /\ db.rev < 10 /\ db.rev \in Nat
        /\ reports \in [EventIds -> 0 .. MaxCount] /\ work = Null /\ tokens \in Nat
        /\ tokens > 0 /\ collected \in SUBSET EventIds /\ Filled(db, collected)
        /\ \A x \in collected : reports[x] > 0
    BY DEF UpgradeInv, UpgradeTypeOK, Upgrading, OldIngest, Commands, Counts, HeadRevision
  <1> DEFINE row == IF db.usage[e] = Null \/ tokens >= db.usage[e].tokens
                    THEN [tokens |-> tokens, cost |-> cost] ELSE db.usage[e]
             usage == [db.usage EXCEPT ![e] = row]
             models == Observed(db.models, ModelOf[e])
             n == [db EXCEPT !.usage = usage, !.models = models]
             said == Reported(e, tokens)
  <1>2. /\ db' = [db EXCEPT !.usage[e] = row, !.models = models]
        /\ reports' = said /\ collected' = collected \union {e}
        /\ UNCHANGED <<work, process, faults>>
    BY DEF OldIngest
  <1>3. db.usage[e] \in UsageRows \union {Null}
    BY <1>1, Fields
  <1>4. db.usage[e] # Null => db.usage[e].tokens \in Nat
    BY <1>1, RowTypes DEF Present
  <1>5. /\ row \in UsageRows
        /\ db.usage[e] # Null => row.tokens >= db.usage[e].tokens
        /\ row.tokens >= tokens /\ row.tokens \in Nat
    BY <1>1, <1>3, <1>4 DEF UsageRows
  <1> HIDE DEF row
  <1>6. usage \in [EventIds -> UsageRows \union {Null}]
    BY <1>1, <1>5, Fields
  <1>7. models \in [NativeModels -> Lifecycles \union {Null}]
    BY <1>1, Fields DEF Observed, Lifecycles
  <1>8. said \in [EventIds -> 0 .. MaxCount]
    BY <1>1, UpgradeAssumption DEF Reported, Counts
  <1>9. \A x \in collected \union {e} : said[x] > 0
    BY <1>1, ReportedMore
  <1> HIDE DEF models
  <1>10. db' = n
    BY <1>1, <1>2 DEF Databases
  <1>11. usage[e] = row /\ row # Null /\ \A x \in EventIds \ {e} : usage[x] = db.usage[x]
    BY <1>1, <1>5, Fields, UpgradeAssumption
  <1> HIDE DEF usage
  <1>12. /\ n \in Databases /\ n.rev = db.rev /\ n.usage = usage /\ n.ledger = db.ledger
         /\ n.registryDone = db.registryDone /\ n.models = models
    BY <1>1, <1>6, <1>7 DEF Databases
  <1> HIDE DEF n
  <1>13. Copies(n)
    <2> SUFFICES ASSUME NEW x \in Marked(n)
                 PROVE  /\ n.usage[x] # Null
                        /\ n.ledger[x].tokens <= n.usage[x].tokens
                        /\ n.ledger[x].cost = IF n.rev >= 9 THEN n.ledger[x].v1cost ELSE Null
      BY DEF Copies
    <2>1. /\ x \in Marked(db) /\ x \in Present(db.ledger) /\ n.ledger[x] = db.ledger[x]
          /\ db.ledger[x].tokens \in Nat
      BY <1>1, <1>12, RowTypes DEF Marked
    <2>2. /\ db.usage[x] # Null /\ db.ledger[x].tokens <= db.usage[x].tokens
          /\ db.ledger[x].cost = IF db.rev >= 9 THEN db.ledger[x].v1cost ELSE Null
      BY <1>1, <2>1 DEF Sound, Copies
    <2> QED BY <1>4, <1>5, <1>11, <1>12, <2>1, <2>2 DEF Present, Marked
  <1>14. Swapped(n)
    BY <1>1, <1>12 DEF Swapped
  <1>15. Filled(n, collected \union {e})
    BY <1>1, <1>12, ObservedFilled DEF models
  <1>16. Survives(n, said)
    <2> SUFFICES ASSUME NEW x \in EventIds, said[x] > 0
                 PROVE  \/ n.usage[x] # Null /\ n.usage[x].tokens >= said[x]
                        \/ n.ledger[x] # Null /\ n.ledger[x].tokens >= said[x]
      BY DEF Survives
    <2>1. CASE x # e
      BY <1>1, <1>11, <1>12, <2>1 DEF Reported, Sound, Survives
    <2>2. CASE x = e
      <3>1. said[e] = IF tokens > reports[e] THEN tokens ELSE reports[e]
        BY <1>1 DEF Reported
      <3>2. CASE tokens > reports[e]
        BY <1>5, <1>11, <1>12, <2>2, <3>1, <3>2
      <3>3. CASE ~ tokens > reports[e]
        <4>1. \/ db.usage[e] # Null /\ db.usage[e].tokens >= reports[e]
              \/ db.ledger[e] # Null /\ db.ledger[e].tokens >= reports[e]
          BY <1>1, <2>2, <3>1, <3>3 DEF Sound, Survives
        <4>2. reports[e] \in Int
          BY <1>1
        <4> QED BY <1>4, <1>5, <1>11, <1>12, <2>2, <3>1, <3>3, <4>1, <4>2
      <3> QED BY <3>2, <3>3
    <2> QED BY <2>1, <2>2
  <1>17. Sound(n, said)
    BY <1>13, <1>14, <1>16 DEF Sound
  <1> HIDE DEF said
  <1>18. /\ Sound(db', reports') /\ Filled(db', collected')
         /\ \A x \in collected' : reports'[x] > 0
    BY <1>2, <1>9, <1>10, <1>15, <1>17
  <1>19. process = "none" /\ db.rev \in {7, 8, 9}
    BY <1>1 DEF OldIngest, UpgradeInv, Upgrading, HeadRevision
  <1> QED BY <1>1, <1>2, <1>8, <1>10, <1>12, <1>18, <1>19
          DEF UpgradeInv, UpgradeTypeOK, Upgrading

(* Downgrades.                                                             *)
LEMMA SoundTo0009 ==
    ASSUME NEW told, NEW d \in Databases, Sound(d, told), d.rev = HeadRevision
    PROVE  /\ To0009(d) \in Databases /\ Sound(To0009(d), told) /\ To0009(d).rev = 9
           /\ SameRegistry(d, To0009(d))
  <1> DEFINE new(e) == IF d.ledger[e] # Null /\ d.ledger[e].source = "collector"
                       THEN [d.ledger[e] EXCEPT !.source = Null] ELSE d.ledger[e]
             written == [e \in EventIds |-> new(e)]
             p == [d EXCEPT !.sources = {}, !.ledger = written]
             n == [p EXCEPT !.costs = NoEvents, !.rev = 9]
  <1>1. To0009(d) = n
    BY DEF To0009, Unattributed, HeadRevision
  <1>2. ASSUME NEW e \in EventIds
        PROVE  /\ new(e) \in LedgerRows \union {Null}
               /\ d.ledger[e] = Null <=> new(e) = Null
               /\ d.ledger[e] # Null =>
                     /\ new(e).tokens = d.ledger[e].tokens /\ new(e).marked = d.ledger[e].marked
                     /\ new(e).v1cost = d.ledger[e].v1cost /\ new(e).cost = d.ledger[e].cost
    <2>1. d.ledger[e] \in LedgerRows \union {Null}
      BY Fields
    <2> QED BY <2>1, UpgradeAssumption DEF LedgerRows
  <1> HIDE DEF new
  <1>3. written \in [EventIds -> LedgerRows \union {Null}] /\ \A e \in EventIds : written[e] = new(e)
    BY <1>2
  <1>4. NoEvents \in [EventIds -> Statuses \union {Null}] /\ 9 \in SchemaRevisions
    BY DEF NoEvents, SchemaRevisions
  <1> HIDE DEF written
  <1>5. p \in Databases /\ p.usage = d.usage /\ p.models = d.models
        /\ p.registryDone = d.registryDone /\ p.ledger = written
    BY <1>3 DEF Databases
  <1> HIDE DEF p
  <1>6. /\ n \in Databases /\ n.rev = 9 /\ n.usage = d.usage /\ n.models = d.models
        /\ n.registryDone = d.registryDone /\ n.ledger = written
    BY <1>4, <1>5 DEF Databases
  <1> HIDE DEF n
  <1>7. SameRows(d, n) /\ \A e \in Present(d.ledger) : n.ledger[e].cost = d.ledger[e].cost
    BY <1>2, <1>3, <1>6 DEF SameRows, Present
  <1>8. Sound(n, told)
    BY <1>6, <1>7, SwappedSame DEF HeadRevision
  <1> QED BY <1>1, <1>6, <1>8 DEF SameRegistry

LEMMA SoundTo0008 ==
    ASSUME NEW told, NEW d \in Databases, Sound(d, told), d.rev \in {8, 9}
    PROVE  /\ To0008(d) \in Databases /\ Sound(To0008(d), told) /\ To0008(d).rev = 8
           /\ SameRegistry(d, To0008(d))
  <1> DEFINE new(e) == IF d.ledger[e] = Null THEN Null ELSE [d.ledger[e] EXCEPT !.cost = Null]
             written == [e \in EventIds |-> new(e)]
             p == [d EXCEPT !.ledger = written]
             n == [p EXCEPT !.rev = 8]
  <1>1. To0008(d) = n
    BY DEF To0008, CostDropped
  <1>2. ASSUME NEW e \in EventIds
        PROVE  /\ new(e) \in LedgerRows \union {Null}
               /\ d.ledger[e] = Null <=> new(e) = Null
               /\ d.ledger[e] # Null =>
                     /\ new(e).tokens = d.ledger[e].tokens /\ new(e).marked = d.ledger[e].marked
                     /\ new(e).v1cost = d.ledger[e].v1cost /\ new(e).cost = Null
    <2>1. d.ledger[e] \in LedgerRows \union {Null}
      BY Fields
    <2> QED BY <2>1, UpgradeAssumption DEF LedgerRows
  <1> HIDE DEF new
  <1>3. written \in [EventIds -> LedgerRows \union {Null}] /\ \A e \in EventIds : written[e] = new(e)
    BY <1>2
  <1> HIDE DEF written
  <1>4. p \in Databases /\ p.usage = d.usage /\ p.models = d.models
        /\ p.registryDone = d.registryDone /\ p.ledger = written
    BY <1>3 DEF Databases
  <1> HIDE DEF p
  <1>5. /\ n \in Databases /\ n.rev = 8 /\ n.usage = d.usage /\ n.models = d.models
        /\ n.registryDone = d.registryDone /\ n.ledger = written
    BY <1>4, Revised DEF SchemaRevisions
  <1> HIDE DEF n
  <1>6. SameRows(d, n) /\ \A e \in Present(d.ledger) : n.ledger[e].cost = Null
    BY <1>2, <1>3, <1>5 DEF SameRows, Present
  <1>7. Copies(n)
    <2>1. /\ Marked(n) = Marked(d)
          /\ \A e \in Marked(n) : n.usage[e] # Null /\ n.ledger[e].tokens <= n.usage[e].tokens
      BY <1>6, SameRowsSound
    <2> QED BY <1>5, <1>6, <2>1 DEF Copies, Marked
  <1>8. Survives(n, told)
    BY <1>6, SameRowsSound
  <1> QED BY <1>1, <1>5, <1>7, <1>8 DEF Sound, Swapped, SameRegistry

(* The backfilled rows go: a row still marked is no more than its v1 row.  *)
LEMMA SoundTo0007 ==
    ASSUME NEW told \in [EventIds -> 0 .. MaxCount], NEW d \in Databases, Sound(d, told),
           d.rev = 8
    PROVE  /\ To0007(d) \in Databases /\ Sound(To0007(d), told) /\ To0007(d).rev = 7
           /\ SameRegistry(d, To0007(d))
  <1> DEFINE written == [e \in EventIds |-> IF e \in Marked(d) THEN Null ELSE d.ledger[e]]
             p == [d EXCEPT !.ledger = written]
             n == [p EXCEPT !.rev = 7]
  <1>1. To0007(d) = n
    BY DEF To0007, BackfilledRemoved
  <1>2. written \in [EventIds -> LedgerRows \union {Null}]
    BY Fields
  <1>3. \A e \in EventIds : written[e] = IF e \in Marked(d) THEN Null ELSE d.ledger[e]
    OBVIOUS
  <1> HIDE DEF written
  <1>4. p \in Databases /\ p.usage = d.usage /\ p.models = d.models
        /\ p.registryDone = d.registryDone /\ p.ledger = written
    BY <1>2 DEF Databases
  <1> HIDE DEF p
  <1>5. /\ n \in Databases /\ n.rev = 7 /\ n.usage = d.usage /\ n.models = d.models
        /\ n.registryDone = d.registryDone /\ n.ledger = written
    BY <1>4, Revised DEF SchemaRevisions
  <1> HIDE DEF n
  <1>6. Copies(n)
    BY <1>3, <1>5 DEF Copies, Marked, Present
  <1>7. Swapped(n)
    BY <1>5 DEF Swapped
  <1>8. ASSUME NEW e \in EventIds, told[e] > 0
        PROVE  \/ n.usage[e] # Null /\ n.usage[e].tokens >= told[e]
               \/ n.ledger[e] # Null /\ n.ledger[e].tokens >= told[e]
    <2>1. \/ d.usage[e] # Null /\ d.usage[e].tokens >= told[e]
          \/ d.ledger[e] # Null /\ d.ledger[e].tokens >= told[e]
      BY <1>8 DEF Sound, Survives
    <2>2. CASE e \in Marked(d)
      <3>1. d.usage[e] # Null /\ d.ledger[e].tokens <= d.usage[e].tokens
        BY <2>2 DEF Sound, Copies
      <3>2. d.usage[e].tokens \in Nat /\ d.ledger[e].tokens \in Nat /\ told[e] \in Nat
        BY <2>2, <3>1, RowTypes DEF Present
      <3> QED BY <1>5, <2>1, <3>1, <3>2
    <2>3. CASE e \notin Marked(d)
      BY <1>3, <1>5, <2>1, <2>3
    <2> QED BY <2>2, <2>3
  <1>9. Survives(n, told)
    BY <1>8 DEF Survives
  <1> QED BY <1>1, <1>5, <1>6, <1>7, <1>9 DEF Sound, SameRegistry

LEMMA SoundDowngrade ==
    ASSUME UpgradeInv, NEW to \in {7, 8, 9}, Downgrade(to)
    PROVE  UpgradeInv'
  <1>1. /\ db \in Databases /\ Sound(db, reports) /\ db.rev \in {7, 8, 9, HeadRevision}
        /\ reports \in [EventIds -> 0 .. MaxCount] /\ process = "none" /\ work = Null
        /\ faults \in 0 .. MaxFaults /\ faults < MaxFaults /\ Filled(db, collected)
    BY DEF UpgradeInv, UpgradeTypeOK, Upgrading, Downgrade, Commands
  <1>2. /\ db.rev > to /\ faults' = faults + 1
        /\ UNCHANGED <<work, process, reports, collected>>
        /\ to = 9 => db' = To0009(db)
        /\ to = 8 => db' = To0008(To0009(db))
        /\ to = 7 => db' = To0007(To0008(To0009(db)))
    BY DEF Downgrade
  <1>3. faults' \in 0 .. MaxFaults
    BY <1>1, <1>2, UpgradeAssumption
  <1> DEFINE nine == To0009(db)
             eight == To0008(nine)
  <1>4. /\ nine \in Databases /\ Sound(nine, reports) /\ SameRegistry(db, nine)
        /\ db.rev = HeadRevision => nine.rev = 9
        /\ db.rev # HeadRevision => nine = db
    <2>1. CASE db.rev = HeadRevision
      BY <1>1, <2>1, SoundTo0009
    <2>2. CASE db.rev # HeadRevision
      BY <1>1, <2>2 DEF To0009, HeadRevision, SameRegistry
    <2> QED BY <2>1, <2>2
  <1> HIDE DEF nine
  <1>5. ASSUME db.rev > 7, nine.rev \in {8, 9}
        PROVE  /\ eight \in Databases /\ Sound(eight, reports) /\ eight.rev = 8
               /\ SameRegistry(nine, eight)
    BY <1>4, <1>5, SoundTo0008
  <1> HIDE DEF eight
  <1>6. db.rev > 7 => nine.rev \in {8, 9}
    BY <1>1, <1>4 DEF HeadRevision
  <1>7. /\ db' \in Databases /\ Sound(db', reports) /\ db'.rev \in {7, 8, 9}
        /\ SameRegistry(db, db')
    <2>1. CASE to = 9
      <3>1. db.rev = HeadRevision
        BY <1>1, <1>2, <2>1
      <3> QED BY <1>2, <1>4, <2>1, <3>1 DEF nine
    <2>2. CASE to = 8
      <3>1. /\ eight \in Databases /\ Sound(eight, reports) /\ eight.rev = 8
            /\ SameRegistry(nine, eight)
        BY <1>1, <1>2, <1>5, <1>6, <2>2 DEF HeadRevision
      <3>2. db' = eight
        BY <1>2, <2>2 DEF eight, nine
      <3> QED BY <1>4, <3>1, <3>2 DEF SameRegistry
    <2>3. CASE to = 7
      <3>1. /\ eight \in Databases /\ Sound(eight, reports) /\ eight.rev = 8
            /\ SameRegistry(nine, eight)
        BY <1>2, <1>5, <1>6, <2>3
      <3>2. /\ To0007(eight) \in Databases /\ Sound(To0007(eight), reports)
            /\ To0007(eight).rev = 7 /\ SameRegistry(eight, To0007(eight))
        BY <1>1, <3>1, SoundTo0007
      <3>3. db' = To0007(eight)
        BY <1>2, <2>3 DEF eight, nine
      <3> QED BY <1>4, <3>1, <3>2, <3>3 DEF SameRegistry
    <2> QED BY <2>1, <2>2, <2>3
  <1>8. Filled(db', collected')
    BY <1>1, <1>2, <1>7 DEF Filled, SameRegistry
  <1> QED BY <1>1, <1>2, <1>3, <1>7, <1>8
          DEF UpgradeInv, UpgradeTypeOK, Upgrading, Processes

-----------------------------------------------------------------------------
LEMMA SoundMigrates ==
    ASSUME UpgradeInv, Migrates
    PROVE  UpgradeInv'
  <1>1. /\ work \in Databases /\ Sound(work, reports) /\ work # Null /\ Filled(work, collected)
        /\ UNCHANGED <<db, process, faults, reports, collected>>
    BY DEF UpgradeInv, UpgradeTypeOK, Migrates, Migrate0008, Migrate0009, Migrate0010,
           Migrate0014, Migrate0017, Migration
  <1>2. work' \in Databases /\ Sound(work', reports) /\ SameRegistry(work, work')
    <2>1. CASE Migrate0008
      <3>1. work.rev = 7 /\ CanBackfill(work) /\ work' = [Backfill(work) EXCEPT !.rev = 8]
        BY <2>1 DEF Migrate0008, Migration
      <3> QED BY <1>1, <3>1, Sound0008
    <2>2. CASE Migrate0009
      <3>1. work.rev = 8 /\ work' = [CostsPopulated(work) EXCEPT !.rev = 9]
        BY <2>2 DEF Migrate0009, Migration
      <3> QED BY <1>1, <3>1, Sound0009
    <2>3. CASE Migrate0010
      <3>1. work.rev = 9 /\ Verified(work) /\ work' = [work EXCEPT !.rev = 10]
        BY <2>3 DEF Migrate0010, Migration, Unchanged
      <3> QED BY <1>1, <3>1, Sound0010
    <2>4. CASE Migrate0014
      <3>1. work.rev = 10 /\ work' = [Attributed(work) EXCEPT !.rev = 14]
        BY <2>4 DEF Migrate0014, Migration
      <3> QED BY <1>1, <3>1, Sound0014
    <2>5. CASE Migrate0017
      <3>1. work.rev = 14 /\ work' = [Materialized(work) EXCEPT !.rev = HeadRevision]
        BY <2>5 DEF Migrate0017, Migration
      <3> QED BY <1>1, <3>1, Sound0017
    <2> QED BY <2>1, <2>2, <2>3, <2>4, <2>5 DEF Migrates
  <1>3. work' # Null /\ Filled(work', collected')
    BY <1>1, <1>2, UpgradeAssumption DEF Filled, SameRegistry
  <1> QED BY <1>1, <1>2, <1>3 DEF UpgradeInv, UpgradeTypeOK, Upgrading

LEMMA SoundFillRegistry ==
    ASSUME UpgradeInv, NEW force \in BOOLEAN, FillRegistry(force)
    PROVE  UpgradeInv'
  <1>1. /\ db \in Databases /\ Sound(db, reports) /\ db.rev = HeadRevision /\ work = Null
        /\ process \in {"start", "backfill-registries"} /\ UNCHANGED <<work, faults, reports, collected>>
        /\ process = "start" => ~ force
        /\ collected \in SUBSET EventIds /\ Filled(db, collected)
        /\ \A e \in collected : reports[e] > 0
        /\ process' = IF process = "start" THEN "up" ELSE "none"
    BY DEF UpgradeInv, UpgradeTypeOK, Upgrading, FillRegistry
  <1>2. /\ db' \in Databases /\ Sound(db', reports) /\ db'.rev = HeadRevision
        /\ ~ force => db'.registryDone
        /\ Filled(db', collected)
    <2>1. CASE db.registryDone /\ ~ force
      BY <1>1, <2>1 DEF FillRegistry
    <2>2. CASE ~ (db.registryDone /\ ~ force)
      <3>1. db' = RegistryFilled(db)
        BY <2>2 DEF FillRegistry
      <3> QED BY <1>1, <3>1, SoundFilled
    <2> QED BY <2>1, <2>2
  <1>3. Filled(db', collected')
    BY <1>1, <1>2
  <1> QED BY <1>1, <1>2, <1>3 DEF UpgradeInv, UpgradeTypeOK, Upgrading, Processes, Commands

LEMMA SoundStep ==
    ASSUME UpgradeInv, UpgradeNext
    PROVE  UpgradeInv'
  <1>1. ASSUME NEW p \in {"start"} \union Commands, Start(p) PROVE UpgradeInv'
    <2>1. /\ db \in Databases /\ db # Null /\ process = "none" /\ process' = p /\ work' = db
          /\ UNCHANGED <<db, faults, reports, collected>>
      BY <1>1, UpgradeAssumption DEF Start, UpgradeInv, UpgradeTypeOK
    <2> QED BY <2>1 DEF UpgradeInv, UpgradeTypeOK, Upgrading, Processes, Commands
  <1>2. CASE MigrationFails
    <2>1. work # Null /\ work' = Null /\ process' = "none" /\ UNCHANGED <<db, faults, reports, collected>>
      BY <1>2 DEF MigrationFails
    <2> QED BY <2>1 DEF UpgradeInv, UpgradeTypeOK, Upgrading, Processes
  <1>3. CASE CommitUpgrade
    BY <1>3 DEF CommitUpgrade, UpgradeInv, UpgradeTypeOK, Upgrading, Commands
  <1>4. CASE BackfillUsage
    <2>1. /\ db.rev = HeadRevision /\ db \in Databases /\ work = Null
          /\ process' = "none" /\ UNCHANGED <<work, faults, reports, collected>>
      BY <1>4 DEF BackfillUsage, UpgradeInv, UpgradeTypeOK, Upgrading
    <2>2. Backfill(db) = db
      BY <2>1, BackfillsNothing DEF HeadRevision
    <2>3. db' = db
      BY <1>4, <2>2 DEF BackfillUsage
    <2> QED BY <2>1, <2>3 DEF UpgradeInv, UpgradeTypeOK, Upgrading, Processes
  <1>5. CASE Crash
    <2>1. /\ process' = "none" /\ work' = Null /\ faults' = faults + 1 /\ faults < MaxFaults
          /\ UNCHANGED <<db, reports, collected>>
      BY <1>5 DEF Crash
    <2>2. faults' \in 0 .. MaxFaults
      BY <2>1, UpgradeAssumption DEF UpgradeInv, UpgradeTypeOK
    <2> QED BY <2>1, <2>2 DEF UpgradeInv, UpgradeTypeOK, Upgrading, Processes
  <1> QED BY <1>1, <1>2, <1>3, <1>4, <1>5, SoundMigrates, SoundFillRegistry, SoundIngestV1,
             SoundIngestV2, SoundOldIngest, SoundDowngrade DEF UpgradeNext

(* What earlier releases leave behind.                                     *)
LEMMA SoundLeftBehind ==
    ASSUME UpgradeInit
    PROVE  UpgradeInv
  <1>1. PICK rev \in {7, 8, 9}, usage \in [EventIds -> UsageRows \union {Null}],
             copies \in [EventIds -> UsageRows \union {Null}],
             native \in SUBSET EventIds, done \in BOOLEAN :
             /\ native \cap Present(usage) = {}
             /\ Present(copies) \subseteq (IF rev = 7 THEN {} ELSE Present(usage))
             /\ \A e \in Present(copies) : Grown(copies[e], usage[e])
             /\ \E named \in SUBSET native :
                   db = LeftBehind(rev, usage, copies, native, named, done)
             /\ reports = [e \in EventIds |-> IF usage[e] # Null THEN usage[e].tokens
                                            ELSE IF e \in native THEN 1 ELSE 0]
             /\ collected = Present(usage)
    BY DEF UpgradeInit
  <1>0. PICK named \in SUBSET native : db = LeftBehind(rev, usage, copies, native, named, done)
    BY <1>1
  <1> DEFINE new(e) == IF e \in native THEN Native(1, e \in named) ELSE Twin(copies[e], rev)
             written == [e \in EventIds |-> new(e)]
             known(m) == \E e \in Present(usage) : ModelOf[e] = m
             lifecycle(m) == IF done /\ known(m)
                             THEN (IF m \in Claude THEN "active" ELSE "unknown") ELSE Null
             models == [m \in NativeModels |-> lifecycle(m)]
  <1>2. db = [rev |-> rev, usage |-> usage, ledger |-> written, costs |-> NoEvents,
              sources |-> {}, models |-> models, registryDone |-> done]
    BY <1>0 DEF LeftBehind
  <1>3. /\ 1 \in Counts
        /\ \A machine \in BOOLEAN :
              LET row == Native(1, machine)
              IN  row \in LedgerRows /\ row # Null /\ row.tokens = 1 /\ row.marked = FALSE
    <2>1. 1 \in Counts
      BY UpgradeAssumption DEF Counts
    <2> QED BY <2>1, NativeRow
  <1>4. ASSUME NEW row \in UsageRows
        PROVE  LET twin == OldBackfilled(row, rev)
               IN  /\ twin \in LedgerRows /\ twin # Null
                   /\ twin.tokens = row.tokens
                   /\ twin.cost = IF rev >= 9 THEN twin.v1cost ELSE Null
    <2> DEFINE cost == IF rev >= 9 THEN row.cost ELSE Null
               base == Backfilled(row)
               twin == [base EXCEPT !.cost = cost]
    <2>1. cost \in Costs \union {Null} /\ row.tokens \in Counts /\ row.cost \in Costs \union {Null}
      BY DEF UsageRows
    <2>2. base \in LedgerRows /\ base.tokens = row.tokens /\ base.v1cost = row.cost
      BY <2>1 DEF Backfilled, LedgerRows
    <2>3. cost = IF rev >= 9 THEN base.v1cost ELSE Null
      BY <2>2
    <2> HIDE DEF base, cost
    <2>4. twin \in LedgerRows /\ twin.tokens = row.tokens /\ twin.cost = cost
          /\ twin.v1cost = base.v1cost
      BY <2>1, <2>2 DEF LedgerRows
    <2>5. twin # Null
      BY <2>4, UpgradeAssumption
    <2> QED BY <2>3, <2>4, <2>5 DEF OldBackfilled, base, cost
  <1>5. ASSUME NEW e \in EventIds
        PROVE  /\ new(e) \in LedgerRows \union {Null}
               /\ e \in native => new(e) # Null /\ new(e).tokens = 1 /\ new(e).marked = FALSE
               /\ e \notin native =>
                     /\ copies[e] = Null => new(e) = Null
                     /\ copies[e] # Null => /\ new(e) = OldBackfilled(copies[e], rev)
                                            /\ copies[e] \in UsageRows
    <2>1. ASSUME NEW machine \in BOOLEAN
          PROVE  /\ Native(1, machine) \in LedgerRows /\ Native(1, machine) # Null
                 /\ Native(1, machine).tokens = 1 /\ Native(1, machine).marked = FALSE
      BY <1>3
    <2>2. CASE e \in native
      <3>1. new(e) = Native(1, e \in named)
        BY <2>2, Zenon
      <3>2. (e \in named) \in BOOLEAN
        OBVIOUS
      <3> HIDE DEF new
      <3>3. new(e) \in LedgerRows /\ new(e) # Null /\ new(e).tokens = 1 /\ new(e).marked = FALSE
        BY <2>1, <3>1, <3>2, Zenon
      <3> QED BY <2>2, <3>3
    <2>3. CASE e \notin native
      <3>1. new(e) = Twin(copies[e], rev)
        BY <2>3
      <3> QED BY <1>4, <2>3, <3>1 DEF Twin
    <2> QED BY <2>2, <2>3
  <1> HIDE DEF new
  <1>6. written \in [EventIds -> LedgerRows \union {Null}] /\ \A e \in EventIds : written[e] = new(e)
    BY <1>5
  <1>7. ASSUME NEW m \in NativeModels
        PROVE  /\ lifecycle(m) \in Lifecycles \union {Null}
               /\ done /\ known(m) => lifecycle(m) # Null
    BY UpgradeAssumption DEF Lifecycles
  <1> HIDE DEF lifecycle
  <1>8. models \in [NativeModels -> Lifecycles \union {Null}]
        /\ \A m \in NativeModels : models[m] = lifecycle(m)
    BY <1>7
  <1>9. NoEvents \in [EventIds -> Statuses \union {Null}] /\ rev \in SchemaRevisions
    BY DEF NoEvents, SchemaRevisions
  <1> HIDE DEF written, models
  <1>10. /\ db \in Databases /\ db.rev = rev /\ db.usage = usage /\ db.ledger = written
         /\ db.models = models /\ db.registryDone = done
    <2>1. db \in Databases
      BY <1>2, <1>6, <1>8, <1>9 DEF Databases
    <2> QED BY <1>2, <2>1
  <1>11. Copies(db)
    <2> SUFFICES ASSUME NEW e \in Marked(db)
                 PROVE  /\ usage[e] # Null
                        /\ written[e].tokens <= usage[e].tokens
                        /\ written[e].cost = IF rev >= 9 THEN written[e].v1cost ELSE Null
      BY <1>10 DEF Copies
    <2>1. e \in EventIds /\ written[e] # Null /\ written[e].marked
      BY <1>10 DEF Marked, Present
    <2>2. e \notin native /\ copies[e] # Null
      BY <1>5, <1>6, <2>1
    <2>3. e \in Present(copies)
      BY <2>1, <2>2 DEF Present
    <2>4. e \in Present(usage) /\ copies[e].tokens <= usage[e].tokens
      BY <1>1, <2>2, <2>3 DEF Grown
    <2>5. written[e] = OldBackfilled(copies[e], rev) /\ copies[e] \in UsageRows
      BY <1>5, <1>6, <2>1, <2>2
    <2> QED BY <1>4, <2>4, <2>5 DEF Present
  <1>12. Swapped(db)
    BY <1>10 DEF Swapped
  <1>13. Filled(db, collected)
    <2>1. \A e \in Present(usage) : e \in EventIds /\ ModelOf[e] \in NativeModels
      BY UpgradeAssumption DEF Present
    <2> QED BY <1>1, <1>7, <1>8, <1>10, <2>1 DEF Filled
  <1>14. \A e \in EventIds : usage[e] # Null => usage[e].tokens \in Counts
    BY DEF UsageRows
  <1>15. reports \in [EventIds -> 0 .. MaxCount]
    <2>1. \A t \in Counts : t \in 0 .. MaxCount
      BY UpgradeAssumption DEF Counts
    <2>2. 1 \in 0 .. MaxCount /\ 0 \in 0 .. MaxCount
      BY <1>3, <2>1, UpgradeAssumption
    <2> QED BY <1>1, <1>14, <2>1, <2>2
  <1>16. Survives(db, reports)
    <2> SUFFICES ASSUME NEW e \in EventIds, reports[e] > 0
                 PROVE  \/ usage[e] # Null /\ usage[e].tokens >= reports[e]
                        \/ written[e] # Null /\ written[e].tokens >= reports[e]
      BY <1>10 DEF Survives
    <2>1. reports[e] = IF usage[e] # Null THEN usage[e].tokens
                       ELSE IF e \in native THEN 1 ELSE 0
      BY <1>1
    <2>2. \A t \in Counts : t >= t
      BY DEF Counts
    <2>3. CASE usage[e] # Null
      BY <1>14, <2>1, <2>2, <2>3
    <2>4. CASE usage[e] = Null
      <3>1. e \in native /\ reports[e] = 1
        BY <2>1, <2>4
      <3>2. written[e] = new(e) /\ new(e) # Null /\ new(e).tokens = 1
        BY <1>5, <1>6, <3>1, Zenon
      <3> QED BY <3>1, <3>2
    <2> QED BY <2>3, <2>4
  <1>17. work = Null /\ process = "none" /\ faults = 0
    BY DEF UpgradeInit
  <1>18. collected \subseteq EventIds /\ \A e \in collected : reports[e] > 0
    <2>1. \A t \in Counts : t > 0
      BY DEF Counts
    <2> QED BY <1>1, <1>14, <2>1 DEF Present
  <1>19. UpgradeTypeOK
    BY <1>10, <1>15, <1>17, <1>18, UpgradeAssumption DEF UpgradeTypeOK, Processes
  <1> QED BY <1>10, <1>11, <1>12, <1>13, <1>16, <1>17, <1>18, <1>19
          DEF UpgradeInv, Sound, Upgrading, Commands

(* An upgrade, cut short, failed, undone or run again any number of times, *)
(* loses no report, no archived row, no machine's costs and no model that  *)
(* a v1 request named (db/migrations, db/backfill.py, app.py, cli.py).     *)
THEOREM UpgradesKeepAll == UpgradeSpec => []UpgradeLosesNothing
  <1>1. UpgradeInit => UpgradeInv
    BY SoundLeftBehind
  <1>2. UpgradeInv /\ [UpgradeNext]_upgradeVars => UpgradeInv'
    <2>1. ASSUME UpgradeInv, UNCHANGED upgradeVars PROVE UpgradeInv'
      BY <2>1 DEF UpgradeInv, UpgradeTypeOK, Upgrading, upgradeVars
    <2> QED BY <2>1, SoundStep
  <1>3. UpgradeInv => UpgradeLosesNothing
    <2> SUFFICES ASSUME UpgradeInv PROVE UpgradeLosesNothing
      OBVIOUS
    <2>1. SwapLosesNothing
      BY DEF UpgradeInv, Sound, Swapped, SwapLosesNothing
    <2>2. ReportsSurvive
      BY DEF UpgradeInv, Sound, Survives, ReportsSurvive
    <2>3. RegistryCoversLedger
      BY DEF UpgradeInv, Upgrading, Filled, RegistryCoversLedger
    <2> QED BY <2>1, <2>2, <2>3 DEF UpgradeLosesNothing
  <1> QED BY <1>1, <1>2, <1>3, PTL DEF UpgradeSpec

-----------------------------------------------------------------------------
(* History.  What is said of the committed tables and of what an open      *)
(* request t will make of them is said of any tables: led the ledger, rec  *)
(* what was recorded, der the derived rollups, cut the cutoff.             *)
RequestTyped(t) ==
    /\ DOMAIN t.rows \subseteq Events
    /\ \A e \in DOMAIN t.rows : t.rows[e] \in Rows \union {None}
    /\ \A d \in Days, g \in Groups :
          d \in DOMAIN t.rollups /\ g \in DOMAIN t.rollups[d] => t.rollups[d][g] \in Nat

HistoryTyped ==
    /\ traffic \in Deployments
    /\ today \in Days
    /\ ledger \in [Events -> Rows \union {None}]
    /\ derived \in [Days -> [Groups -> Nat]]
    /\ imported \in [Days -> [Groups -> Nat]]
    /\ recorded \in [Events -> Nat]
    /\ writer = [w \in Writers |-> writer[w]]
    /\ \A w \in Writers : ~ Idle(w) => RequestTyped(writer[w])
    /\ preview # None => Has({"erase", "strip"})
    /\ sweep # None =>
          sweep \in [day : {sweep.day}, cutoff : Int, covered : BOOLEAN, deleted : SUBSET Events]

Exclusive ==
    ~ Has({"overlap"}) => \A w, x \in Writers : ~ Idle(w) /\ ~ Idle(x) => w = x

(* No rollup counts more than was recorded, ...                            *)
BoundedBy(led, rec, der) ==
    /\ \A e \in Events : IsFinal(led, e) => led[e].tokens <= rec[e]
    /\ \A d \in Days, g \in Groups : der[d][g] <= Total(rec, OfGroup(d, g))

RequestBounded(t, rec, der) ==
    \A d \in Days, g \in Groups :
        DerivedAfter(der, t)[d][g] <= Total(RecordedAfter(rec, t), OfGroup(d, g))

Bounded ==
    ~ Has({"overlap"}) =>
        /\ BoundedBy(ledger, recorded, derived)
        /\ \A w \in Writers : ~ Idle(w) => RequestBounded(writer[w], recorded, derived)

(* ... and with v1 events in time only it counts just that: the ledger has *)
(* the whole of every day that retention has not come to.                  *)
ExactIn(led, rec, der, cut) ==
    /\ \A e \in Events : led[e] # None => led[e].final
    /\ \A e \in Events : EventDay[e] >= cut =>
          rec[e] = IF led[e] = None THEN 0 ELSE led[e].tokens
    /\ \A d \in Days, g \in Groups : der[d][g] = Total(rec, OfGroup(d, g))

RequestExact(t, rec, der, cut) ==
    /\ \A e \in DOMAIN t.rows : /\ EventDay[e] >= cut /\ t.rows[e] # None
                                /\ t.rows[e].final /\ t.rows[e].tokens >= rec[e]
    /\ \A d \in Days, g \in Groups :
          DerivedAfter(der, t)[d][g] = Total(RecordedAfter(rec, t), OfGroup(d, g))

Exact ==
    ~ Has({"late", "v2", "rebuild", "erase", "strip", "overlap"}) =>
        /\ ExactIn(ledger, recorded, derived, Cutoff)
        /\ \A w \in Writers : ~ Idle(w) => RequestExact(writer[w], recorded, derived, Cutoff)
        /\ sweep # None => /\ sweep.cutoff <= Cutoff
                           /\ \A e \in sweep.deleted : EventDay[e] < sweep.cutoff
                           /\ sweep.covered => sweep.day < sweep.cutoff

(* What the ledger has of each attempt.                                    *)
InLedger(seen) == [e \in Events |-> IF IsFinal(seen, e) THEN seen[e].tokens ELSE 0]

(* A sweep that is open deletes only what is counted, when events come in  *)
(* time and rollups are of events only.                                    *)
Timely == ~ Has({"late", "strip", "bootstrap", "overlap"})

(* A day is swept, or what was recorded of it is in the ledger.            *)
Accounted(led, rec, cut) ==
    \A e \in Events :
        \/ rec[e] = InLedger(led)[e]
        \/ EventDay[e] < cut /\ \A f \in Events : EventDay[f] = EventDay[e] => led[f] = None

Counted(led, der, e) == der[EventDay[e]][EventGroup[e]] >= led[e].tokens

(* An open request adds to no day past retention, and counts every final   *)
(* of those whose rollups it writes.                                       *)
RequestAdds(t, rec, cut) ==
    \A e \in DOMAIN t.rows :
        /\ t.rows[e] = None => EventDay[e] \in t.erased
        /\ t.rows[e] # None =>
              /\ EventDay[e] >= cut
              /\ Remembered(rec[e], t.rows[e]) = IF t.rows[e].final THEN t.rows[e].tokens ELSE 0

RequestCounts(t, led, der, cut) ==
    \A e \in Events : IsFinal(led, e) /\ e \notin DOMAIN t.rows /\ EventDay[e] < cut =>
        IF EventDay[e] \in t.dropped THEN Counted(led, DerivedAfter(der, t), e)
                                     ELSE EventDay[e] \notin DOMAIN t.rollups

(* What the open sweep has chosen is counted, and whole days.              *)
SweepSound(s, led, der, cut) ==
    /\ s.cutoff <= cut
    /\ s.covered => s.day < s.cutoff
    /\ \A e \in s.deleted :
          /\ EventDay[e] < s.cutoff
          /\ \A f \in Events : EventDay[f] = EventDay[e] /\ led[f] # None => f \in s.deleted
    /\ \A e \in Events :
          IsFinal(led, e) /\ (e \in s.deleted \/ (s.covered /\ EventDay[e] = s.day)) =>
              Counted(led, der, e)

SweptCounted ==
    Timely =>
        /\ imported = EmptyTable
        /\ Accounted(ledger, recorded, Cutoff)
        /\ \A w \in Writers : ~ Idle(w) =>
              /\ RequestAdds(writer[w], recorded, Cutoff)
              /\ RequestCounts(writer[w], ledger, derived, Cutoff)
        /\ sweep # None => SweepSound(sweep, ledger, derived, Cutoff)

(* With v1 events only, late ones too, no rollup counts less than the      *)
(* ledger, and no open request will make it.                               *)
V1Alone == ~ Has({"v2", "overlap"})

Covers(led, der) ==
    \A d \in Days, g \in Groups : Total(InLedger(led), OfGroup(d, g)) <= der[d][g]

RequestCovers(t, led, der) == Covers(LedgerAfter(led, t), DerivedAfter(der, t))

LedgerCovered ==
    V1Alone =>
        /\ Covers(ledger, derived)
        /\ \A w \in Writers : ~ Idle(w) => RequestCovers(writer[w], ledger, derived)

HistoryInv ==
    HistoryTyped /\ Exclusive /\ Bounded /\ Exact /\ SweptCounted /\ LedgerCovered

-----------------------------------------------------------------------------
(* Sums of a day and group.                                                *)
LEMMA HistoryFacts ==
    /\ Days \subseteq Nat /\ Tokens \subseteq Nat /\ 1 \in Days
    /\ \A d, g : OfGroup(d, g) \in SUBSET Events /\ IsFiniteSet(OfGroup(d, g))
    /\ \A e \in Events : EventDay[e] \in Nat
    /\ \A e \in Events : /\ EventDay[e] \in Days /\ EventGroup[e] \in Groups
                         /\ e \in OfGroup(EventDay[e], EventGroup[e])
    /\ \A row \in Rows : row.tokens \in Nat /\ row.final \in BOOLEAN /\ row # None
  <1>1. \A d, g : OfGroup(d, g) \in SUBSET Events
    BY DEF OfGroup
  <1>2. \A d, g : IsFiniteSet(OfGroup(d, g))
    BY <1>1, FS_Subset, HistoryAssumption
  <1>3. Days \subseteq Nat /\ Tokens \subseteq Nat /\ 1 \in Days
    BY HistoryAssumption DEF Days, Tokens
  <1>4. \A e \in Events : /\ EventDay[e] \in Days /\ EventGroup[e] \in Groups
                         /\ e \in OfGroup(EventDay[e], EventGroup[e])
    BY HistoryAssumption DEF OfGroup
  <1>5. \A row \in Rows : row.tokens \in Nat /\ row.final \in BOOLEAN /\ row # None
    BY <1>3, HistoryAssumption DEF Rows
  <1>6. \A e \in Events : EventDay[e] \in Nat
    BY <1>3, <1>4
  <1> QED BY <1>1, <1>2, <1>3, <1>4, <1>5, <1>6

LEMMA LedgerCounts ==
    ASSUME NEW seen, \A e \in Events : seen[e] \in Rows \union {None}
    PROVE  /\ InLedger(seen) \in [Events -> Nat]
           /\ \A e \in Events : InLedger(seen)[e] = IF IsFinal(seen, e) THEN seen[e].tokens ELSE 0
  BY HistoryFacts DEF InLedger, IsFinal

LEMMA AggregateIs ==
    ASSUME NEW seen, \A e \in Events : seen[e] \in Rows \union {None}, NEW d, NEW g
    PROVE  /\ Aggregate(seen, d, g) = Total(InLedger(seen), OfGroup(d, g))
           /\ Aggregate(seen, d, g) \in Nat
           /\ Finals(seen, d, g) = {} => Total(InLedger(seen), OfGroup(d, g)) = 0
  <1> DEFINE S == OfGroup(d, g)
             R == Finals(seen, d, g)
             f == InLedger(seen)
             h == TokensOf(seen, R)
  <1>1. /\ S \in SUBSET Events /\ IsFiniteSet(S)
        /\ R = {e \in S : IsFinal(seen, e)} /\ R \in SUBSET S /\ IsFiniteSet(R)
    <2>1. S \in SUBSET Events /\ IsFiniteSet(S)
      BY HistoryFacts
    <2>2. R = {e \in S : IsFinal(seen, e)} /\ R \in SUBSET S
      BY DEF Finals
    <2> QED BY <2>1, <2>2, FS_Subset
  <1>2. /\ \A e \in S : f[e] \in Nat
        /\ \A e \in R : f[e] = h[e]
        /\ \A e \in S \ R : f[e] = 0
    BY <1>1, LedgerCounts DEF TokensOf
  <1> HIDE DEF S, R, f, h
  <1>3. Total(f, R) = Total(h, R)
    BY <1>1, <1>2, TotalSame
  <1>4. Total(f, R) = Total(f, S) /\ Total(f, S) \in Nat
    BY <1>1, <1>2, TotalSubset
  <1>5. R = {} => Total(f, R) = 0
    BY TotalEmpty
  <1> QED BY <1>3, <1>4, <1>5 DEF Aggregate, S, R, f, h

LEMMA GroupGrows ==
    ASSUME NEW f \in [Events -> Nat], NEW h \in [Events -> Nat], NEW d, NEW g,
           \A e \in OfGroup(d, g) : f[e] <= h[e]
    PROVE  Total(f, OfGroup(d, g)) <= Total(h, OfGroup(d, g))
  <1> DEFINE S == OfGroup(d, g)
  <1>1. IsFiniteSet(S) /\ \A e \in S : f[e] \in Nat /\ h[e] \in Nat /\ f[e] <= h[e]
    BY HistoryFacts
  <1> HIDE DEF S
  <1>2. Total(f, S) <= Total(h, S)
    BY <1>1, TotalGrows
  <1> QED BY <1>2 DEF S

LEMMA GroupSame ==
    ASSUME NEW f, NEW h, NEW d, NEW g, \A e \in OfGroup(d, g) : f[e] = h[e]
    PROVE  Total(f, OfGroup(d, g)) = Total(h, OfGroup(d, g))
  BY HistoryFacts, TotalSame

LEMMA GroupType ==
    ASSUME NEW f \in [Events -> Nat], NEW d, NEW g
    PROVE  Total(f, OfGroup(d, g)) \in Nat
  <1>1. \A e \in OfGroup(d, g) : f[e] \in Nat
    BY HistoryFacts
  <1> QED BY <1>1, HistoryFacts, TotalType

-----------------------------------------------------------------------------
(* What a request leaves.                                                  *)
LEMMA Leaves ==
    ASSUME NEW t, RequestTyped(t), NEW led \in [Events -> Rows \union {None}],
           NEW rec \in [Events -> Nat], NEW der \in [Days -> [Groups -> Nat]]
    PROVE  /\ LedgerAfter(led, t) \in [Events -> Rows \union {None}]
           /\ RecordedAfter(rec, t) \in [Events -> Nat]
           /\ DerivedAfter(der, t) \in [Days -> [Groups -> Nat]]
           /\ \A e \in Events :
                 /\ LedgerAfter(led, t)[e] = IF e \in DOMAIN t.rows THEN t.rows[e] ELSE led[e]
                 /\ RecordedAfter(rec, t)[e] = IF e \notin DOMAIN t.rows THEN rec[e]
                                               ELSE IF t.rows[e] = None
                                                    THEN IF EventDay[e] \in t.erased THEN 0 ELSE rec[e]
                                               ELSE Remembered(rec[e], t.rows[e])
           /\ \A d \in Days, g \in Groups : DerivedAfter(der, t)[d][g] =
                 IF d \in DOMAIN t.rollups /\ g \in DOMAIN t.rollups[d] THEN t.rollups[d][g]
                 ELSE IF d \in t.dropped THEN 0 ELSE der[d][g]
  <1>1. LedgerAfter(led, t) \in [Events -> Rows \union {None}]
        /\ \A e \in Events :
              LedgerAfter(led, t)[e] = IF e \in DOMAIN t.rows THEN t.rows[e] ELSE led[e]
    BY DEF RequestTyped, LedgerAfter
  <1>2. \A e \in Events : RecordedAfter(rec, t)[e] = IF e \notin DOMAIN t.rows THEN rec[e]
                                                     ELSE IF t.rows[e] = None
                                                          THEN IF EventDay[e] \in t.erased THEN 0 ELSE rec[e]
                                                     ELSE Remembered(rec[e], t.rows[e])
    BY DEF RecordedAfter
  <1>3. \A most \in Nat, row \in Rows : Remembered(most, row) \in Nat
    BY HistoryFacts DEF Remembered
  <1>4. RecordedAfter(rec, t) \in [Events -> Nat]
    BY <1>3 DEF RecordedAfter, RequestTyped
  <1>5. \A d \in Days, g \in Groups : DerivedAfter(der, t)[d][g] =
                 IF d \in DOMAIN t.rollups /\ g \in DOMAIN t.rollups[d] THEN t.rollups[d][g]
                 ELSE IF d \in t.dropped THEN 0 ELSE der[d][g]
    BY DEF DerivedAfter, Upserted, Without, EmptyTable
  <1>6. DerivedAfter(der, t) \in [Days -> [Groups -> Nat]]
    <2> DEFINE x == Without(der, t.dropped)
    <2>1. \A d \in Days, g \in Groups : x[d][g] \in Nat
      BY DEF Without, EmptyTable
    <2> HIDE DEF x
    <2>2. Upserted(x, t.rollups) \in [Days -> [Groups -> Nat]]
      BY <2>1 DEF Upserted, RequestTyped
    <2> QED BY <2>2 DEF DerivedAfter, x
  <1> QED BY <1>1, <1>2, <1>4, <1>5, <1>6

(* A request that refreshes days from some rows.                           *)
RefreshesFrom(t, seen, days) ==
    /\ \A e \in Events : seen[e] \in Rows \union {None}
    /\ days \subseteq Days
    /\ t.rollups = Refreshed(seen, days)
    /\ DOMAIN t.rows \subseteq Events
    /\ \A e \in DOMAIN t.rows : t.rows[e] \in Rows \union {None}

LEMMA Refreshes ==
    ASSUME NEW t, NEW seen, NEW days, RefreshesFrom(t, seen, days),
           NEW der \in [Days -> [Groups -> Nat]]
    PROVE  /\ RequestTyped(t)
           /\ \A d \in Days, g \in Groups : d \in days /\ Finals(seen, d, g) # {} =>
                 DerivedAfter(der, t)[d][g] = Total(InLedger(seen), OfGroup(d, g))
           /\ \A d \in Days, g \in Groups : ~ (d \in days /\ Finals(seen, d, g) # {}) =>
                 DerivedAfter(der, t)[d][g] = IF d \in t.dropped THEN 0 ELSE der[d][g]
           /\ DOMAIN t.rollups = days
  <1>1. /\ DOMAIN t.rollups = days
        /\ \A d \in days : /\ DOMAIN t.rollups[d] = {g \in Groups : Finals(seen, d, g) # {}}
                           /\ \A g \in DOMAIN t.rollups[d] :
                                 t.rollups[d][g] = Aggregate(seen, d, g)
    BY DEF Refreshed, RefreshesFrom
  <1>2. \A d \in Days, g \in Groups :
           /\ Aggregate(seen, d, g) = Total(InLedger(seen), OfGroup(d, g))
           /\ Aggregate(seen, d, g) \in Nat
    BY AggregateIs DEF RefreshesFrom
  <1>3. RequestTyped(t)
    BY <1>1, <1>2 DEF RequestTyped, RefreshesFrom
  <1>4. \A d \in Days, g \in Groups : DerivedAfter(der, t)[d][g] =
                 IF d \in DOMAIN t.rollups /\ g \in DOMAIN t.rollups[d] THEN t.rollups[d][g]
                 ELSE IF d \in t.dropped THEN 0 ELSE der[d][g]
    BY DEF DerivedAfter, Upserted, Without, EmptyTable
  <1> QED BY <1>1, <1>2, <1>3, <1>4 DEF RefreshesFrom

-----------------------------------------------------------------------------
(* What a commit keeps of the two relations.                               *)
(* A final is counted in what its day and group add up to.                 *)
LEMMA MemberCounted ==
    ASSUME NEW seen, \A x \in Events : seen[x] \in Rows \union {None},
           NEW e \in Events, IsFinal(seen, e)
    PROVE  seen[e].tokens <= Total(InLedger(seen), OfGroup(EventDay[e], EventGroup[e]))
  <1> DEFINE S == OfGroup(EventDay[e], EventGroup[e])
  <1>1. e \in S /\ IsFiniteSet(S) /\ S \subseteq Events
    BY HistoryFacts
  <1>2. InLedger(seen) \in [Events -> Nat] /\ InLedger(seen)[e] = seen[e].tokens
    BY LedgerCounts
  <1> HIDE DEF S
  <1>3. \A x \in S : InLedger(seen)[x] \in Nat
    BY <1>1, <1>2
  <1>4. InLedger(seen)[e] <= Total(InLedger(seen), S)
    BY <1>1, <1>3, TotalMember
  <1> QED BY <1>2, <1>4 DEF S

(* A final of a day that a request refreshes is counted by it.             *)
LEMMA RefreshesCount ==
    ASSUME NEW t, NEW seen, NEW days, RefreshesFrom(t, seen, days),
           NEW der \in [Days -> [Groups -> Nat]],
           NEW e \in Events, IsFinal(seen, e), EventDay[e] \in days
    PROVE  DerivedAfter(der, t)[EventDay[e]][EventGroup[e]] >= seen[e].tokens
  <1> DEFINE d == EventDay[e]
             g == EventGroup[e]
  <1>1. d \in Days /\ g \in Groups /\ e \in OfGroup(d, g)
    BY HistoryFacts
  <1>2. Finals(seen, d, g) # {}
    BY <1>1 DEF Finals
  <1>3. seen[e].tokens <= Total(InLedger(seen), OfGroup(d, g))
    BY MemberCounted DEF RefreshesFrom
  <1> HIDE DEF d, g
  <1>4. DerivedAfter(der, t)[d][g] = Total(InLedger(seen), OfGroup(d, g))
    BY <1>1, <1>2, Refreshes DEF d
  <1> QED BY <1>3, <1>4 DEF d, g

LEMMA RemembersMost ==
    ASSUME NEW most \in Nat, NEW row \in Rows
    PROVE  /\ Remembered(most, row) \in Nat /\ Remembered(most, row) >= most
           /\ row.final => Remembered(most, row) >= row.tokens
           /\ row.final /\ row.tokens >= most => Remembered(most, row) = row.tokens
           /\ ~ row.final => Remembered(most, row) = most
  BY HistoryFacts DEF Remembered

LEMMA CommitsBounded ==
    ASSUME NEW t, RequestTyped(t), NEW led \in [Events -> Rows \union {None}],
           NEW rec \in [Events -> Nat], NEW der \in [Days -> [Groups -> Nat]],
           BoundedBy(led, rec, der), RequestBounded(t, rec, der)
    PROVE  BoundedBy(LedgerAfter(led, t), RecordedAfter(rec, t), DerivedAfter(der, t))
  <1> DEFINE l == LedgerAfter(led, t)
             r == RecordedAfter(rec, t)
  <1>l. \A e \in Events : l[e] = IF e \in DOMAIN t.rows THEN t.rows[e] ELSE led[e]
    BY DEF LedgerAfter
  <1>r. \A e \in Events : r[e] = IF e \notin DOMAIN t.rows THEN rec[e]
                                 ELSE IF t.rows[e] = None
                                      THEN IF EventDay[e] \in t.erased THEN 0 ELSE rec[e]
                                 ELSE Remembered(rec[e], t.rows[e])
    BY Leaves
  <1> HIDE DEF l, r
  <1>1. ASSUME NEW e \in Events, IsFinal(l, e)
        PROVE  l[e].tokens <= r[e]
    <2>1. CASE e \in DOMAIN t.rows
      <3>1. l[e] = t.rows[e] /\ l[e] # None /\ l[e].final /\ l[e] \in Rows
        BY <1>1, <1>l, <2>1 DEF IsFinal, RequestTyped
      <3>2. r[e] = Remembered(rec[e], l[e])
        BY <1>r, <2>1, <3>1
      <3> QED BY <3>1, <3>2, RemembersMost, HistoryFacts
    <2>2. CASE e \notin DOMAIN t.rows
      <3>1. l[e] = led[e] /\ r[e] = rec[e]
        BY <1>l, <1>r, <2>2
      <3> QED BY <1>1, <3>1 DEF IsFinal, BoundedBy
    <2> QED BY <2>1, <2>2
  <1> QED BY <1>1 DEF BoundedBy, RequestBounded, l, r

LEMMA CommitsExact ==
    ASSUME NEW t, RequestTyped(t), NEW led \in [Events -> Rows \union {None}],
           NEW rec \in [Events -> Nat], NEW der \in [Days -> [Groups -> Nat]], NEW cut,
           ExactIn(led, rec, der, cut), RequestExact(t, rec, der, cut)
    PROVE  ExactIn(LedgerAfter(led, t), RecordedAfter(rec, t), DerivedAfter(der, t), cut)
  <1> DEFINE l == LedgerAfter(led, t)
             r == RecordedAfter(rec, t)
  <1>l. \A e \in Events : l[e] = IF e \in DOMAIN t.rows THEN t.rows[e] ELSE led[e]
    BY DEF LedgerAfter
  <1>r. \A e \in Events : r[e] = IF e \notin DOMAIN t.rows THEN rec[e]
                                 ELSE IF t.rows[e] = None
                                      THEN IF EventDay[e] \in t.erased THEN 0 ELSE rec[e]
                                 ELSE Remembered(rec[e], t.rows[e])
    BY Leaves
  <1> HIDE DEF l, r
  <1>1. ASSUME NEW e \in Events
        PROVE  /\ l[e] # None => l[e].final
               /\ EventDay[e] >= cut => r[e] = IF l[e] = None THEN 0 ELSE l[e].tokens
    <2>1. CASE e \in DOMAIN t.rows
      <3>1. l[e] = t.rows[e] /\ l[e] # None /\ l[e].final /\ l[e] \in Rows /\ l[e].tokens >= rec[e]
        BY <1>l, <2>1 DEF RequestExact, RequestTyped
      <3>2. r[e] = Remembered(rec[e], l[e])
        BY <1>r, <2>1, <3>1
      <3> QED BY <3>1, <3>2, RemembersMost
    <2>2. CASE e \notin DOMAIN t.rows
      <3>1. l[e] = led[e] /\ r[e] = rec[e]
        BY <1>l, <1>r, <2>2
      <3> QED BY <3>1 DEF ExactIn
    <2> QED BY <2>1, <2>2
  <1> QED BY <1>1 DEF ExactIn, RequestExact, l, r

LEMMA CommitsAccounted ==
    ASSUME NEW t, RequestTyped(t), NEW led \in [Events -> Rows \union {None}],
           NEW rec \in [Events -> Nat], NEW cut \in Int,
           Accounted(led, rec, cut), RequestAdds(t, rec, cut)
    PROVE  Accounted(LedgerAfter(led, t), RecordedAfter(rec, t), cut)
  <1> DEFINE l == LedgerAfter(led, t)
             r == RecordedAfter(rec, t)
  <1>1. \A e \in Events : /\ l[e] = IF e \in DOMAIN t.rows THEN t.rows[e] ELSE led[e]
                          /\ l[e] \in Rows \union {None}
    BY DEF LedgerAfter, RequestTyped
  <1>2. \A e \in Events : r[e] = IF e \notin DOMAIN t.rows THEN rec[e]
                                 ELSE IF t.rows[e] = None
                                      THEN IF EventDay[e] \in t.erased THEN 0 ELSE rec[e]
                                 ELSE Remembered(rec[e], t.rows[e])
    BY DEF RecordedAfter
  <1> HIDE DEF l, r
  <1>3. ASSUME NEW e \in Events, e \in DOMAIN t.rows
        PROVE  r[e] = InLedger(l)[e]
    <2>1. l[e] = t.rows[e] /\ InLedger(l)[e] = IF IsFinal(l, e) THEN l[e].tokens ELSE 0
      BY <1>1, <1>3, LedgerCounts
    <2> QED BY <1>2, <1>3, <2>1 DEF RequestAdds, IsFinal
  <1>4. ASSUME NEW e \in Events, e \notin DOMAIN t.rows, rec[e] = InLedger(led)[e]
        PROVE  r[e] = InLedger(l)[e]
    BY <1>1, <1>2, <1>4 DEF InLedger, IsFinal
  <1>5. ASSUME NEW e \in Events, NEW f \in Events, EventDay[e] < cut, EventDay[f] = EventDay[e],
               led[f] = None
        PROVE  l[f] = None
    <2>1. EventDay[f] \in Int
      BY HistoryFacts
    <2> QED BY <1>1, <1>5, <2>1 DEF RequestAdds
  <1> QED BY <1>3, <1>4, <1>5 DEF Accounted, l, r

LEMMA CommitsSound ==
    ASSUME NEW t, RequestTyped(t), NEW led \in [Events -> Rows \union {None}], NEW rec,
           NEW der \in [Days -> [Groups -> Nat]], NEW cut \in Int,
           NEW s, s.cutoff \in Int, s.deleted \subseteq Events,
           RequestAdds(t, rec, cut), RequestCounts(t, led, der, cut), SweepSound(s, led, der, cut)
    PROVE  SweepSound(s, LedgerAfter(led, t), DerivedAfter(der, t), cut)
  <1> DEFINE l == LedgerAfter(led, t)
             D == DerivedAfter(der, t)
  <1>1. \A e \in Events : l[e] = IF e \in DOMAIN t.rows THEN t.rows[e] ELSE led[e]
    BY DEF LedgerAfter
  <1>2. \A d \in Days, g \in Groups : d \notin t.dropped /\ d \notin DOMAIN t.rollups => D[d][g] = der[d][g]
    BY DEF DerivedAfter, Upserted, Without
  <1> HIDE DEF l, D
  <1>3. \A e \in Events : EventDay[e] \in Int /\ EventDay[e] \in Days /\ EventGroup[e] \in Groups
    BY HistoryFacts
  <1>4. ASSUME NEW e \in Events, EventDay[e] < cut, l[e] # None
        PROVE  e \notin DOMAIN t.rows /\ l[e] = led[e]
    BY <1>1, <1>3, <1>4 DEF RequestAdds
  <1>5. s.cutoff <= cut /\ (s.covered => s.day < s.cutoff)
    BY DEF SweepSound
  <1>6. ASSUME NEW e \in s.deleted
        PROVE  /\ EventDay[e] < s.cutoff
               /\ \A f \in Events : EventDay[f] = EventDay[e] /\ l[f] # None => f \in s.deleted
    <2>1. EventDay[e] < s.cutoff /\ EventDay[e] < cut
      BY <1>3, <1>5 DEF SweepSound
    <2> QED BY <1>4, <2>1 DEF SweepSound
  <1>7. ASSUME NEW e \in Events, IsFinal(l, e),
               e \in s.deleted \/ (s.covered /\ EventDay[e] = s.day)
        PROVE  Counted(l, D, e)
    <2>1. EventDay[e] < cut
      BY <1>3, <1>5, <1>6, <1>7
    <2>2. e \notin DOMAIN t.rows /\ l[e] = led[e] /\ IsFinal(led, e)
      BY <1>4, <1>7, <2>1 DEF IsFinal
    <2>3. Counted(led, der, e)
      BY <1>7, <2>2 DEF SweepSound
    <2>4. CASE EventDay[e] \in t.dropped
      BY <2>1, <2>2, <2>4 DEF RequestCounts, Counted, D
    <2>5. CASE EventDay[e] \notin t.dropped
      <3>1. EventDay[e] \notin DOMAIN t.rollups
        BY <2>1, <2>2, <2>5 DEF RequestCounts
      <3> QED BY <1>2, <1>3, <2>2, <2>3, <2>5, <3>1 DEF Counted
    <2> QED BY <2>4, <2>5
  <1> QED BY <1>5, <1>6, <1>7 DEF SweepSound, l, D

(* A request whose rollups are of rows it leaves counts no more than will  *)
(* be recorded, if it lowers records only of days whose rollups it drops.  *)
LEMMA RefreshesBounded ==
    ASSUME NEW t, NEW seen, NEW days, RefreshesFrom(t, seen, days),
           NEW led \in [Events -> Rows \union {None}],
           NEW rec \in [Events -> Nat], NEW der \in [Days -> [Groups -> Nat]],
           BoundedBy(led, rec, der),
           \A e \in Events : IsFinal(seen, e) => seen[e].tokens <= RecordedAfter(rec, t)[e],
           \A e \in Events : EventDay[e] \notin t.dropped => rec[e] <= RecordedAfter(rec, t)[e]
    PROVE  RequestTyped(t) /\ RequestBounded(t, rec, der)
  <1> DEFINE r == RecordedAfter(rec, t)
  <1>1. RequestTyped(t)
    BY Refreshes
  <1>2. r \in [Events -> Nat]
    BY <1>1, Leaves
  <1>3. InLedger(seen) \in [Events -> Nat] /\ \A e \in Events : InLedger(seen)[e] <= r[e]
    <2>1. \A e \in Events : InLedger(seen)[e] = IF IsFinal(seen, e) THEN seen[e].tokens ELSE 0
      BY LedgerCounts DEF RefreshesFrom
    <2> QED BY <1>2, <2>1, LedgerCounts DEF RefreshesFrom
  <1>d. ASSUME NEW d \in Days, NEW g \in Groups
        PROVE  /\ d \in days /\ Finals(seen, d, g) # {} =>
                     DerivedAfter(der, t)[d][g] = Total(InLedger(seen), OfGroup(d, g))
               /\ ~ (d \in days /\ Finals(seen, d, g) # {}) =>
                     DerivedAfter(der, t)[d][g] = IF d \in t.dropped THEN 0 ELSE der[d][g]
    BY Refreshes
  <1>4. ASSUME NEW d \in Days, NEW g \in Groups
        PROVE  DerivedAfter(der, t)[d][g] <= Total(r, OfGroup(d, g))
    <2> HIDE DEF r
    <2>1. Total(r, OfGroup(d, g)) \in Nat /\ Total(rec, OfGroup(d, g)) \in Nat
      BY <1>2, GroupType
    <2>2. CASE d \in days /\ Finals(seen, d, g) # {}
      <3>1. \A e \in OfGroup(d, g) : InLedger(seen)[e] <= r[e]
        BY <1>3, HistoryFacts
      <3>2. Total(InLedger(seen), OfGroup(d, g)) <= Total(r, OfGroup(d, g))
        BY <1>2, <1>3, <3>1, GroupGrows
      <3>3. DerivedAfter(der, t)[d][g] = Total(InLedger(seen), OfGroup(d, g))
        BY <1>d, <2>2
      <3> QED BY <3>2, <3>3
    <2>3. CASE ~ (d \in days /\ Finals(seen, d, g) # {}) /\ d \in t.dropped
      <3>1. DerivedAfter(der, t)[d][g] = 0
        BY <1>d, <2>3
      <3> QED BY <2>1, <3>1
    <2>4. CASE ~ (d \in days /\ Finals(seen, d, g) # {}) /\ d \notin t.dropped
      <3>1. DerivedAfter(der, t)[d][g] = der[d][g]
        BY <1>d, <2>4
      <3>2. der[d][g] <= Total(rec, OfGroup(d, g)) /\ der[d][g] \in Nat
        BY DEF BoundedBy
      <3>3. \A e \in OfGroup(d, g) : rec[e] <= r[e]
        BY <2>4, HistoryFacts DEF OfGroup, r
      <3>4. Total(rec, OfGroup(d, g)) <= Total(r, OfGroup(d, g))
        BY <1>2, <3>3, GroupGrows
      <3> QED BY <2>1, <3>1, <3>2, <3>4
    <2> QED BY <2>2, <2>3, <2>4
  <1> QED BY <1>1, <1>4 DEF RequestBounded, r

(* The finals of a ledger are some of another's.                           *)
Less(new, old) ==
    \A e \in Events : IsFinal(new, e) => new[e] = old[e] /\ IsFinal(old, e)

LEMMA CoversLess ==
    ASSUME NEW old \in [Events -> Rows \union {None}], NEW new \in [Events -> Rows \union {None}],
           NEW der \in [Days -> [Groups -> Nat]], Covers(old, der), Less(new, old)
    PROVE  Covers(new, der)
  <1>1. /\ InLedger(old) \in [Events -> Nat] /\ InLedger(new) \in [Events -> Nat]
        /\ \A e \in Events : InLedger(new)[e] <= InLedger(old)[e]
    <2>1. InLedger(old) \in [Events -> Nat] /\ InLedger(new) \in [Events -> Nat]
      BY LedgerCounts
    <2>2. \A e \in Events :
             /\ InLedger(old)[e] = IF IsFinal(old, e) THEN old[e].tokens ELSE 0
             /\ InLedger(new)[e] = IF IsFinal(new, e) THEN new[e].tokens ELSE 0
      BY LedgerCounts
    <2> QED BY <2>1, <2>2 DEF Less
  <1>2. ASSUME NEW d \in Days, NEW g \in Groups
        PROVE  Total(InLedger(new), OfGroup(d, g)) <= der[d][g]
    <2>1. Total(InLedger(new), OfGroup(d, g)) <= Total(InLedger(old), OfGroup(d, g))
      BY <1>1, HistoryFacts, GroupGrows
    <2>2. /\ Total(InLedger(new), OfGroup(d, g)) \in Nat
          /\ Total(InLedger(old), OfGroup(d, g)) \in Nat /\ der[d][g] \in Nat
      BY <1>1, GroupType
    <2>3. Total(InLedger(old), OfGroup(d, g)) <= der[d][g]
      BY DEF Covers
    <2> QED BY <2>1, <2>2, <2>3
  <1> QED BY <1>2 DEF Covers

(* A request whose rollups are of the rows it leaves counts them all, if   *)
(* it adds only to the days it refreshes and drops no other finals.        *)
Extends(t, seen, led, days) ==
    /\ \A e \in Events : seen[e] = LedgerAfter(led, t)[e]
    /\ \A e \in Events : EventDay[e] \notin days /\ IsFinal(seen, e) =>
          seen[e] = led[e] /\ IsFinal(led, e)
    /\ \A e \in Events : EventDay[e] \in t.dropped /\ IsFinal(seen, e) => EventDay[e] \in days

LEMMA RefreshesCovers ==
    ASSUME NEW t, NEW seen, NEW days, NEW led \in [Events -> Rows \union {None}],
           NEW der \in [Days -> [Groups -> Nat]], RefreshesFrom(t, seen, days),
           Extends(t, seen, led, days), Covers(led, der)
    PROVE  RequestCovers(t, led, der)
  <1> DEFINE new == LedgerAfter(led, t)
  <1>1. /\ \A e \in Events : seen[e] \in Rows \union {None}
        /\ \A e \in Events : seen[e] = new[e]
    BY DEF RefreshesFrom, Extends
  <1>2. InLedger(seen) = InLedger(new)
    BY <1>1 DEF InLedger, IsFinal
  <1>3. InLedger(seen) \in [Events -> Nat] /\ InLedger(led) \in [Events -> Nat]
    BY <1>1, LedgerCounts
  <1>4. ASSUME NEW d \in Days, NEW g \in Groups
        PROVE  Total(InLedger(seen), OfGroup(d, g)) <= DerivedAfter(der, t)[d][g]
    <2>1. /\ d \in days /\ Finals(seen, d, g) # {} =>
                DerivedAfter(der, t)[d][g] = Total(InLedger(seen), OfGroup(d, g))
          /\ ~ (d \in days /\ Finals(seen, d, g) # {}) =>
                DerivedAfter(der, t)[d][g] = IF d \in t.dropped THEN 0 ELSE der[d][g]
      BY Refreshes
    <2>2. /\ Total(InLedger(seen), OfGroup(d, g)) \in Nat
          /\ Total(InLedger(led), OfGroup(d, g)) \in Nat /\ der[d][g] \in Nat
      BY <1>3, GroupType
    <2>3. Finals(seen, d, g) = {} => Total(InLedger(seen), OfGroup(d, g)) = 0
      BY <1>1, AggregateIs
    <2>4. CASE Finals(seen, d, g) = {}
      BY <2>1, <2>2, <2>3, <2>4
    <2>5. CASE d \in days /\ Finals(seen, d, g) # {}
      BY <2>1, <2>2, <2>5
    <2>6. CASE d \notin days /\ Finals(seen, d, g) # {}
      <3>1. \A e \in OfGroup(d, g) : e \in Events /\ EventDay[e] = d
        BY DEF OfGroup
      <3>2. d \notin t.dropped
        BY <2>6, <3>1 DEF Finals, Extends
      <3>3. ASSUME NEW e \in OfGroup(d, g) PROVE InLedger(seen)[e] <= InLedger(led)[e]
        <4>1. IsFinal(seen, e) => seen[e] = led[e] /\ IsFinal(led, e)
          BY <2>6, <3>1 DEF Extends
        <4>2. /\ InLedger(seen)[e] = IF IsFinal(seen, e) THEN seen[e].tokens ELSE 0
              /\ InLedger(led)[e] = IF IsFinal(led, e) THEN led[e].tokens ELSE 0
              /\ InLedger(seen)[e] \in Nat /\ InLedger(led)[e] \in Nat
          BY <1>1, <1>3, <3>1, LedgerCounts
        <4> QED BY <4>1, <4>2
      <3>4. Total(InLedger(seen), OfGroup(d, g)) <= Total(InLedger(led), OfGroup(d, g))
        BY <1>3, <3>3, GroupGrows
      <3>5. Total(InLedger(led), OfGroup(d, g)) <= der[d][g]
        BY DEF Covers
      <3> QED BY <2>1, <2>2, <2>6, <3>2, <3>4, <3>5
    <2> QED BY <2>4, <2>5, <2>6
  <1> HIDE DEF new
  <1> QED BY <1>2, <1>4 DEF RequestCovers, Covers, new

-----------------------------------------------------------------------------
(* The steps.                                                              *)
LEMMA CutoffType == HistoryTyped => Cutoff \in Int /\ today \in Nat
  BY HistoryFacts, HistoryAssumption DEF HistoryTyped, Cutoff

LEMMA HistoryStarts == Init => HistoryInv
  <1> SUFFICES ASSUME Init PROVE HistoryInv
    OBVIOUS
  <1>1. HistoryTyped
    BY HistoryFacts DEF Init, HistoryTyped, EmptyTable, Idle
  <1>2. ASSUME NEW d \in Days, NEW g \in Groups
        PROVE  derived[d][g] = 0 /\ Total(recorded, OfGroup(d, g)) = 0
    <2> DEFINE S == OfGroup(d, g)
    <2>1. derived[d][g] = 0
      BY <1>2 DEF Init, EmptyTable
    <2>2. IsFiniteSet(S) /\ {} \in SUBSET S /\ \A x \in S : recorded[x] \in Nat
      BY <1>1, HistoryFacts DEF HistoryTyped
    <2>3. \A x \in S \ {} : recorded[x] = 0
      BY HistoryFacts DEF Init
    <2> HIDE DEF S
    <2>4. Total(recorded, {}) = Total(recorded, S)
      BY <2>2, <2>3, TotalSubset
    <2> QED BY <2>1, <2>4, TotalEmpty DEF S
  <1>3. Exclusive
    BY DEF Init, Exclusive, Idle
  <1>4. BoundedBy(ledger, recorded, derived) /\ ExactIn(ledger, recorded, derived, Cutoff)
    BY <1>2 DEF Init, BoundedBy, ExactIn, IsFinal
  <1>5. \A w \in Writers : Idle(w)
    BY DEF Init, Idle
  <1>6. imported = EmptyTable /\ Accounted(ledger, recorded, Cutoff)
    BY DEF Init, Accounted, InLedger, IsFinal
  <1>7. SweptCounted
    BY <1>5, <1>6 DEF Init, SweptCounted
  <1>8. LedgerCovered
    <2>1. \A e \in Events : InLedger(ledger)[e] = recorded[e]
      BY DEF Init, InLedger, IsFinal
    <2>2. \A d \in Days, g \in Groups : Total(InLedger(ledger), OfGroup(d, g)) = 0
      BY <1>2, <2>1, HistoryFacts, GroupSame
    <2> QED BY <1>2, <1>5, <2>2 DEF LedgerCovered, Covers
  <1> QED BY <1>1, <1>3, <1>4, <1>5, <1>7, <1>8 DEF HistoryInv, Bounded, Exact, Init

(* A request that opens alone.                                             *)
LEMMA Opens ==
    ASSUME HistoryInv, NEW w \in Writers, MayOpen(w), NEW t, RequestTyped(t),
           writer' = [writer EXCEPT ![w] = t],
           UNCHANGED <<traffic, today, server, sweep, recorded>>, preview' \in {preview, None},
           ~ Has({"overlap"}) => RequestBounded(t, recorded, derived),
           ~ Has({"late", "v2", "rebuild", "erase", "strip", "overlap"}) =>
               RequestExact(t, recorded, derived, Cutoff),
           Timely => /\ RequestAdds(t, recorded, Cutoff)
                     /\ RequestCounts(t, ledger, derived, Cutoff),
           V1Alone => RequestCovers(t, ledger, derived)
    PROVE  HistoryInv'
  <1>1. writer = [x \in Writers |-> writer[x]]
    BY DEF HistoryInv, HistoryTyped
  <1>2. /\ writer' = [x \in Writers |-> writer'[x]]
        /\ \A x \in Writers : writer'[x] = IF x = w THEN t ELSE writer[x]
    BY <1>1
  <1>3. ~ Has({"overlap"}) => \A x \in Writers : Idle(x)
    BY DEF MayOpen, Has
  <1>4. HistoryTyped'
    BY <1>2 DEF HistoryInv, HistoryTyped, Has, server, Idle
  <1>5. Exclusive'
    BY <1>2, <1>3 DEF Exclusive, Idle, Has
  <1>6. Bounded'
    BY <1>2, <1>3 DEF HistoryInv, Bounded, Idle, Has, server
  <1>7. Exact'
    <2>1. ~ Has({"late", "v2", "rebuild", "erase", "strip", "overlap"}) => ~ Has({"overlap"})
      BY DEF Has
    <2> QED BY <1>2, <1>3, <2>1 DEF HistoryInv, Exact, Idle, Has, server, Cutoff
  <1>8. SweptCounted'
    BY <1>2 DEF HistoryInv, SweptCounted, Timely, Has, Idle, server, Cutoff
  <1>9. LedgerCovered'
    BY <1>2 DEF HistoryInv, LedgerCovered, V1Alone, Has, Idle, server
  <1> QED BY <1>4, <1>5, <1>6, <1>7, <1>8, <1>9 DEF HistoryInv

LEMMA HistoryRebuild ==
    ASSUME HistoryInv, NEW w \in Writers, RebuildBegin(w)
    PROVE  HistoryInv'
  <1> DEFINE days == {EventDay[e] : e \in {f \in Events : IsFinal(ledger, f)}}
             span == {d \in Days : \E lo, hi \in days : lo <= d /\ d <= hi}
             t == [rows |-> [e \in {} |-> None], erased |-> {}, dropped |-> Days,
                   rollups |-> Refreshed(ledger, span)]
  <1>1. /\ "rebuild" \in traffic /\ MayOpen(w)
        /\ writer' = [writer EXCEPT ![w] = t]
        /\ UNCHANGED <<traffic, today, server, sweep, recorded>> /\ preview' \in {preview, None}
    BY DEF RebuildBegin
  <1>2. /\ ledger \in [Events -> Rows \union {None}] /\ recorded \in [Events -> Nat]
        /\ derived \in [Days -> [Groups -> Nat]]
    BY DEF HistoryInv, HistoryTyped
  <1>3. span \in SUBSET Days /\ \A e \in Events : IsFinal(ledger, e) => EventDay[e] \in span
    <2>1. \A e \in Events : EventDay[e] \in Days /\ EventDay[e] \in Nat
      BY HistoryFacts
    <2>2. \A e \in Events : IsFinal(ledger, e) => EventDay[e] \in days
      OBVIOUS
    <2> HIDE DEF days
    <2> QED BY <2>1, <2>2
  <1> HIDE DEF span
  <1>4. RefreshesFrom(t, ledger, span)
    BY <1>2, <1>3 DEF RefreshesFrom
  <1>5. \A e \in Events : RecordedAfter(recorded, t)[e] = recorded[e] /\ EventDay[e] \in t.dropped
    BY HistoryFacts DEF RecordedAfter
  <1>6. ~ Has({"overlap"}) => BoundedBy(ledger, recorded, derived)
    BY DEF HistoryInv, Bounded
  <1>7. t.dropped = Days /\ DOMAIN t.rows = {}
    OBVIOUS
  <1> HIDE DEF t
  <1>8. RequestTyped(t)
    BY <1>2, <1>4, Refreshes
  <1>9. ~ Has({"overlap"}) => RequestBounded(t, recorded, derived)
    BY <1>2, <1>4, <1>5, <1>6, RefreshesBounded DEF BoundedBy
  <1>10. RequestAdds(t, recorded, Cutoff)
    BY <1>7 DEF RequestAdds
  <1>11. RequestCounts(t, ledger, derived, Cutoff)
    <2>1. \A e \in Events : IsFinal(ledger, e) => Counted(ledger, DerivedAfter(derived, t), e)
      BY <1>2, <1>3, <1>4, RefreshesCount DEF Counted
    <2> QED BY <1>5, <2>1 DEF RequestCounts
  <1>12. V1Alone => RequestCovers(t, ledger, derived)
    <2> SUFFICES ASSUME Covers(ledger, derived) PROVE RequestCovers(t, ledger, derived)
      BY DEF HistoryInv, LedgerCovered
    <2>1. \A e \in Events : ledger[e] = LedgerAfter(ledger, t)[e]
      BY <1>7 DEF LedgerAfter
    <2> QED BY <1>2, <1>3, <1>4, <2>1, RefreshesCovers DEF Extends
  <1> QED BY <1>1, <1>8, <1>9, <1>10, <1>11, <1>12, Opens DEF Has

LEMMA HistoryErase ==
    ASSUME HistoryInv, NEW w \in Writers, NEW recompute \in BOOLEAN, ExecuteDeletion(w, recompute)
    PROVE  HistoryInv'
  <1> DEFINE gone == Matched(preview.criteria)
             days == {EventDay[e] : e \in gone}
             span == IF recompute THEN {d \in Days : \E lo, hi \in days : lo <= d /\ d <= hi}
                     ELSE {}
             left == [e \in Events |-> IF e \in gone THEN None ELSE ledger[e]]
             t == [rows |-> [e \in gone |-> None], erased |-> span, dropped |-> span,
                   rollups |-> Refreshed(left, span)]
  <1>1. /\ MayOpen(w)
        /\ writer' = [writer EXCEPT ![w] = t]
        /\ UNCHANGED <<traffic, today, server, sweep, recorded>> /\ preview' \in {preview, None}
    BY DEF ExecuteDeletion
  <1>2. /\ ledger \in [Events -> Rows \union {None}] /\ recorded \in [Events -> Nat]
        /\ derived \in [Days -> [Groups -> Nat]]
    BY DEF HistoryInv, HistoryTyped
  <1>3. gone \subseteq Events
    BY DEF Matched
  <1>4. span \in SUBSET Days /\ (recompute => \A e \in gone : EventDay[e] \in span)
    <2>1. \A e \in gone : EventDay[e] \in days /\ EventDay[e] \in Days /\ EventDay[e] \in Nat
      BY <1>3, HistoryFacts
    <2> HIDE DEF gone, days
    <2> QED BY <2>1
  <1> HIDE DEF gone, span
  <1>5. /\ \A e \in Events : left[e] \in Rows \union {None}
        /\ \A e \in Events : e \notin gone => left[e] = ledger[e]
        /\ \A e \in Events : IsFinal(left, e) => e \notin gone /\ left[e] = ledger[e] /\ IsFinal(ledger, e)
    BY <1>2 DEF IsFinal
  <1>l. \A e \in gone : left[e] = None
    BY <1>3
  <1> HIDE DEF left
  <1>6. RefreshesFrom(t, left, span)
    BY <1>3, <1>4, <1>5 DEF RefreshesFrom
  <1>7. /\ \A e \in Events : e \notin gone => RecordedAfter(recorded, t)[e] = recorded[e]
        /\ t.dropped = span /\ t.erased = span
        /\ DOMAIN t.rows = gone /\ \A e \in gone : t.rows[e] = None
    BY DEF RecordedAfter
  <1>r. \A e \in Events : EventDay[e] \notin span => RecordedAfter(recorded, t)[e] = recorded[e]
    BY DEF RecordedAfter
  <1>8. ~ Has({"overlap"}) => BoundedBy(ledger, recorded, derived)
    BY DEF HistoryInv, Bounded
  <1> HIDE DEF t
  <1>9. RequestTyped(t)
    BY <1>2, <1>6, Refreshes
  <1>10. ~ Has({"overlap"}) => RequestBounded(t, recorded, derived)
    <2> SUFFICES ASSUME ~ Has({"overlap"}) PROVE RequestBounded(t, recorded, derived)
      OBVIOUS
    <2>1. \A e \in Events : IsFinal(left, e) => left[e].tokens <= RecordedAfter(recorded, t)[e]
      BY <1>5, <1>7, <1>8 DEF BoundedBy
    <2>2. \A e \in Events : EventDay[e] \notin t.dropped =>
              recorded[e] <= RecordedAfter(recorded, t)[e]
      BY <1>2, <1>7, <1>r
    <2> QED BY <1>2, <1>6, <1>8, <2>1, <2>2, RefreshesBounded
  <1>11. /\ Has({"erase", "strip"})
         /\ Timely => recompute
    BY DEF ExecuteDeletion, Has, Timely
  <1>12. Timely => RequestAdds(t, recorded, Cutoff)
    BY <1>4, <1>7, <1>11 DEF RequestAdds
  <1>13. RequestCounts(t, ledger, derived, Cutoff)
    <2>1. DOMAIN t.rollups = span
      BY <1>2, <1>6, Refreshes
    <2>2. ASSUME NEW e \in Events, IsFinal(ledger, e), e \notin gone, EventDay[e] \in span
          PROVE  Counted(ledger, DerivedAfter(derived, t), e)
      <3>1. IsFinal(left, e) /\ left[e] = ledger[e]
        BY <1>5, <2>2 DEF IsFinal
      <3> QED BY <1>2, <1>6, <2>2, <3>1, RefreshesCount DEF Counted
    <2> QED BY <1>7, <2>1, <2>2 DEF RequestCounts
  <1>14. V1Alone => RequestCovers(t, ledger, derived)
    <2> SUFFICES ASSUME Covers(ledger, derived) PROVE RequestCovers(t, ledger, derived)
      BY DEF HistoryInv, LedgerCovered
    <2>1. \A e \in Events : left[e] = LedgerAfter(ledger, t)[e]
      BY <1>5, <1>7, <1>l DEF LedgerAfter
    <2>2. \A e \in Events : EventDay[e] \notin span /\ IsFinal(left, e) =>
             left[e] = ledger[e] /\ IsFinal(ledger, e)
      BY <1>5
    <2>3. \A e \in Events : EventDay[e] \in t.dropped => EventDay[e] \in span
      BY <1>7
    <2> QED BY <1>2, <1>6, <2>1, <2>2, <2>3, RefreshesCovers DEF Extends
  <1> QED BY <1>1, <1>9, <1>10, <1>11, <1>12, <1>13, <1>14, Opens DEF Has

LEMMA HistoryReport ==
    ASSUME HistoryInv, NEW w \in Writers, NEW e \in Events, NEW tokens \in Tokens,
           V1Begin(w, e, tokens)
    PROVE  HistoryInv'
  <1> DEFINE row  == IF ledger[e] # None /\ ledger[e].tokens > tokens
                     THEN ledger[e] ELSE [final |-> TRUE, tokens |-> tokens]
             seen == [ledger EXCEPT ![e] = row]
             days == {EventDay[e]}
             t == [rows |-> [x \in {e} |-> row], erased |-> {}, dropped |-> {},
                   rollups |-> Refreshed(seen, days)]
             after == RecordedAfter(recorded, t)
  <1>1. /\ MayOpen(w)
        /\ writer' = [writer EXCEPT ![w] = t]
        /\ UNCHANGED <<traffic, today, server, sweep, recorded>> /\ preview' \in {preview, None}
        /\ InTime(e) \/ "late" \in traffic
    BY DEF V1Begin
  <1>2. /\ ledger \in [Events -> Rows \union {None}] /\ recorded \in [Events -> Nat]
        /\ derived \in [Days -> [Groups -> Nat]]
    BY DEF HistoryInv, HistoryTyped
  <1>3. row \in Rows /\ row # None
    <2>1. [final |-> TRUE, tokens |-> tokens] \in Rows
      BY DEF Rows
    <2> QED BY <1>2, <2>1, HistoryFacts
  <1>4. ledger[e] # None /\ ledger[e].final => row.final /\ row.tokens >= ledger[e].tokens
    <2>1. ledger[e] # None => ledger[e].tokens \in Nat
      BY <1>2, HistoryFacts
    <2>2. tokens \in Nat
      BY HistoryFacts
    <2> QED BY <2>1, <2>2
  <1>5. ledger[e] = None => row.final
    OBVIOUS
  <1> HIDE DEF row
  <1>6. /\ \A x \in Events : seen[x] \in Rows \union {None}
        /\ \A x \in Events : seen[x] = IF x = e THEN row ELSE ledger[x]
    BY <1>2, <1>3
  <1> HIDE DEF seen
  <1>7. /\ t.dropped = {} /\ DOMAIN t.rows = {e} /\ t.rows[e] = row
        /\ RefreshesFrom(t, seen, days)
    BY <1>3, <1>6, HistoryFacts DEF RefreshesFrom
  <1> HIDE DEF t
  <1>8. RequestTyped(t)
    BY <1>2, <1>7, Refreshes
  <1>9. /\ after[e] = Remembered(recorded[e], row)
        /\ \A x \in Events : x # e => after[x] = recorded[x]
    BY <1>3, <1>7 DEF RecordedAfter
  <1>10. /\ after[e] >= recorded[e] /\ after[e] \in Nat
         /\ row.final => after[e] >= row.tokens
         /\ row.final /\ row.tokens >= recorded[e] => after[e] = row.tokens
    BY <1>2, <1>3, <1>9, RemembersMost
  <1>11. after \in [Events -> Nat]
    BY <1>2, <1>8, Leaves
  <1> HIDE DEF after
  <1>12. ASSUME ~ Has({"overlap"}) PROVE RequestBounded(t, recorded, derived)
    <2>1. BoundedBy(ledger, recorded, derived)
      BY <1>12 DEF HistoryInv, Bounded
    <2>2. \A x \in Events : IsFinal(seen, x) => seen[x].tokens <= after[x]
      BY <1>3, <1>6, <1>9, <1>10, <2>1, HistoryFacts DEF IsFinal, BoundedBy
    <2>3. \A x \in Events : recorded[x] <= after[x]
      BY <1>2, <1>9, <1>10
    <2> QED BY <1>2, <1>7, <2>1, <2>2, <2>3, RefreshesBounded DEF after
  <1>13. ASSUME ~ Has({"late", "v2", "rebuild", "erase", "strip", "overlap"})
         PROVE  RequestExact(t, recorded, derived, Cutoff)
    <2>1. ExactIn(ledger, recorded, derived, Cutoff)
      BY <1>13 DEF HistoryInv, Exact
    <2>2. EventDay[e] >= Cutoff
      <3>1. today <= EventDay[e] + Retention
        BY <1>1, <1>13 DEF Has, InTime
      <3>2. today \in Nat /\ Retention \in Nat /\ EventDay[e] \in Nat
        BY CutoffType, HistoryFacts, HistoryAssumption DEF HistoryInv
      <3> QED BY <3>1, <3>2 DEF Cutoff
    <2>3. row.final /\ row.tokens >= recorded[e]
      BY <1>3, <1>4, <1>5, <2>1, <2>2, HistoryFacts DEF ExactIn
    <2>4. after[e] = row.tokens
      BY <1>10, <2>3
    <2>5. ASSUME NEW d \in Days, NEW g \in Groups
          PROVE  DerivedAfter(derived, t)[d][g] = Total(after, OfGroup(d, g))
      <3>1. CASE d \in days /\ Finals(seen, d, g) # {}
        <4>1. ASSUME NEW x \in OfGroup(d, g) PROVE InLedger(seen)[x] = after[x]
          <5>1. x \in Events /\ EventDay[x] >= Cutoff
            BY <2>2, <3>1 DEF OfGroup
          <5>2. InLedger(seen)[x] = IF IsFinal(seen, x) THEN seen[x].tokens ELSE 0
            BY <1>6, <5>1, LedgerCounts
          <5>3. CASE x = e
            BY <1>3, <1>6, <2>3, <2>4, <5>2, <5>3 DEF IsFinal
          <5>4. CASE x # e
            BY <1>6, <1>9, <2>1, <5>1, <5>2, <5>4 DEF IsFinal, ExactIn
          <5> QED BY <5>3, <5>4
        <4>2. Total(InLedger(seen), OfGroup(d, g)) = Total(after, OfGroup(d, g))
          BY <4>1, GroupSame
        <4> QED BY <1>2, <1>7, <3>1, <4>2, Refreshes
      <3>2. CASE ~ (d \in days /\ Finals(seen, d, g) # {})
        <4>1. DerivedAfter(derived, t)[d][g] = derived[d][g]
          BY <1>2, <1>7, <3>2, Refreshes
        <4>2. e \notin OfGroup(d, g)
          <5>1. IsFinal(seen, e)
            BY <1>3, <1>6, <2>3 DEF IsFinal
          <5> QED BY <3>2, <5>1 DEF OfGroup, Finals
        <4>3. Total(recorded, OfGroup(d, g)) = Total(after, OfGroup(d, g))
          BY <1>9, <4>2, HistoryFacts, GroupSame
        <4> QED BY <2>1, <4>1, <4>3 DEF ExactIn
      <3> QED BY <3>1, <3>2
    <2> QED BY <1>3, <1>7, <2>2, <2>3, <2>5 DEF RequestExact, after
  <1>14. ASSUME Timely PROVE RequestAdds(t, recorded, Cutoff) /\ RequestCounts(t, ledger, derived, Cutoff)
    <2>1. EventDay[e] >= Cutoff
      <3>1. today <= EventDay[e] + Retention
        BY <1>1, <1>14 DEF Has, Timely, InTime
      <3>2. today \in Nat /\ Retention \in Nat /\ EventDay[e] \in Nat
        BY CutoffType, HistoryFacts, HistoryAssumption DEF HistoryInv
      <3> QED BY <3>1, <3>2 DEF Cutoff
    <2>2. Cutoff \in Int /\ EventDay[e] \in Int
      BY CutoffType, HistoryFacts DEF HistoryInv
    <2>3. recorded[e] = InLedger(ledger)[e]
      <3>1. Accounted(ledger, recorded, Cutoff)
        BY <1>14 DEF HistoryInv, SweptCounted
      <3> QED BY <2>1, <2>2, <3>1 DEF Accounted
    <2>4. recorded[e] = IF IsFinal(ledger, e) THEN ledger[e].tokens ELSE 0
      BY <1>2, <2>3, LedgerCounts
    <2>5. Remembered(recorded[e], row) = IF row.final THEN row.tokens ELSE 0
      <3>1. row.tokens \in Nat /\ row.final \in BOOLEAN
        BY <1>3, HistoryFacts
      <3>2. CASE IsFinal(ledger, e)
        <4>1. row.final /\ row.tokens >= recorded[e] /\ recorded[e] \in Nat
          BY <1>2, <1>4, <2>4, <3>2 DEF IsFinal
        <4> QED BY <1>3, <4>1, RemembersMost
      <3>3. CASE ~ IsFinal(ledger, e)
        BY <2>4, <3>1, <3>3 DEF Remembered
      <3> QED BY <3>2, <3>3
    <2>6. RequestAdds(t, recorded, Cutoff)
      BY <1>3, <1>7, <2>1, <2>5 DEF RequestAdds
    <2>7. DOMAIN t.rollups = {EventDay[e]}
      BY <1>2, <1>7, Refreshes
    <2>8. RequestCounts(t, ledger, derived, Cutoff)
      BY <1>7, <2>1, <2>2, <2>7 DEF RequestCounts
    <2> QED BY <2>6, <2>8
  <1>15. V1Alone => RequestCovers(t, ledger, derived)
    <2> SUFFICES ASSUME Covers(ledger, derived) PROVE RequestCovers(t, ledger, derived)
      BY DEF HistoryInv, LedgerCovered
    <2>1. \A x \in Events : seen[x] = LedgerAfter(ledger, t)[x]
      BY <1>6, <1>7 DEF LedgerAfter
    <2>2. \A x \in Events : EventDay[x] \notin days /\ IsFinal(seen, x) =>
              seen[x] = ledger[x] /\ IsFinal(ledger, x)
      BY <1>6 DEF IsFinal
    <2> QED BY <1>2, <1>7, <2>1, <2>2, RefreshesCovers DEF Extends
  <1> QED BY <1>1, <1>8, <1>12, <1>13, <1>14, <1>15, Opens

(* A request that ends, with or without effect.                            *)
LEMMA Closes ==
    ASSUME HistoryInv, NEW w \in Writers, ~ Idle(w), writer' = [writer EXCEPT ![w] = None]
    PROVE  /\ writer' = [x \in Writers |-> writer'[x]]
           /\ \A x \in Writers : writer'[x] = IF x = w THEN None ELSE writer[x]
           /\ ~ Has({"overlap"}) => \A x \in Writers : writer'[x] = None
  <1>1. writer = [x \in Writers |-> writer[x]]
    BY DEF HistoryInv, HistoryTyped
  <1>2. \A x \in Writers : writer'[x] = IF x = w THEN None ELSE writer[x]
    BY <1>1
  <1>3. ~ Has({"overlap"}) => \A x \in Writers : x # w => writer[x] = None
    BY DEF HistoryInv, Exclusive, Idle
  <1> QED BY <1>1, <1>2, <1>3

LEMMA HistoryCommit ==
    ASSUME HistoryInv, NEW w \in Writers, CommitWriter(w)
    PROVE  HistoryInv'
  <1> DEFINE t == writer[w]
  <1>1. /\ ~ Idle(w)
        /\ ledger' = LedgerAfter(ledger, t)
        /\ recorded' = RecordedAfter(recorded, t)
        /\ derived' = DerivedAfter(derived, t)
        /\ imported' = Without(imported, t.erased)
        /\ writer' = [writer EXCEPT ![w] = None]
        /\ UNCHANGED <<traffic, today, hold, sweep, preview>>
    BY DEF CommitWriter
  <1>2. /\ ledger \in [Events -> Rows \union {None}] /\ recorded \in [Events -> Nat]
        /\ derived \in [Days -> [Groups -> Nat]] /\ imported \in [Days -> [Groups -> Nat]]
        /\ RequestTyped(t)
    BY <1>1 DEF HistoryInv, HistoryTyped
  <1>3. /\ writer' = [x \in Writers |-> writer'[x]]
        /\ \A x \in Writers : writer'[x] = IF x = w THEN None ELSE writer[x]
        /\ ~ Has({"overlap"}) => \A x \in Writers : writer'[x] = None
    BY <1>1, Closes
  <1>4. HistoryTyped'
    <2>1. imported' \in [Days -> [Groups -> Nat]]
      BY <1>1, <1>2 DEF Without, EmptyTable
    <2>2. /\ ledger' \in [Events -> Rows \union {None}]
          /\ recorded' \in [Events -> Nat] /\ derived' \in [Days -> [Groups -> Nat]]
      BY <1>1, <1>2, Leaves
    <2> QED BY <1>1, <1>3, <2>1, <2>2 DEF HistoryInv, HistoryTyped, Has, Idle
  <1>5. Exclusive'
    BY <1>1, <1>3 DEF Exclusive, Idle, Has
  <1>6. Bounded'
    <2> SUFFICES ASSUME ~ Has({"overlap"}) PROVE BoundedBy(ledger', recorded', derived')
      BY <1>1, <1>3 DEF Bounded, Idle, Has
    <2>1. BoundedBy(ledger, recorded, derived) /\ RequestBounded(t, recorded, derived)
      BY <1>1 DEF HistoryInv, Bounded
    <2> QED BY <1>1, <1>2, <2>1, CommitsBounded
  <1>7. Exact'
    <2> SUFFICES ASSUME ~ Has({"late", "v2", "rebuild", "erase", "strip", "overlap"})
                 PROVE  ExactIn(ledger', recorded', derived', Cutoff)
      BY <1>1, <1>3 DEF HistoryInv, Exact, Idle, Has, Cutoff
    <2>1. /\ ExactIn(ledger, recorded, derived, Cutoff)
          /\ RequestExact(t, recorded, derived, Cutoff)
      BY <1>1 DEF HistoryInv, Exact
    <2> QED BY <1>1, <1>2, <2>1, CommitsExact
  <1>8. SweptCounted'
    <2> SUFFICES ASSUME Timely
                 PROVE  /\ imported' = EmptyTable
                        /\ Accounted(ledger', recorded', Cutoff)
                        /\ sweep # None => SweepSound(sweep, ledger', derived', Cutoff)
      BY <1>1, <1>3 DEF SweptCounted, Timely, Has, Idle, Cutoff
    <2>1. /\ imported = EmptyTable /\ Accounted(ledger, recorded, Cutoff)
          /\ RequestAdds(t, recorded, Cutoff) /\ RequestCounts(t, ledger, derived, Cutoff)
          /\ sweep # None => SweepSound(sweep, ledger, derived, Cutoff)
      BY <1>1 DEF HistoryInv, SweptCounted
    <2>2. imported' = EmptyTable
      BY <1>1, <2>1 DEF Without, EmptyTable
    <2> HIDE DEF t
    <2>3. Accounted(ledger', recorded', Cutoff)
      BY <1>1, <1>2, <2>1, CommitsAccounted, CutoffType DEF HistoryInv
    <2>4. sweep # None => SweepSound(sweep, ledger', derived', Cutoff)
      BY <1>1, <1>2, <2>1, CommitsSound, CutoffType DEF HistoryInv, HistoryTyped
    <2> QED BY <2>2, <2>3, <2>4
  <1>9. LedgerCovered'
    <2>1. V1Alone => \A x \in Writers : writer'[x] = None
      BY <1>3 DEF V1Alone, Has
    <2>2. V1Alone => RequestCovers(t, ledger, derived)
      BY <1>1 DEF HistoryInv, LedgerCovered
    <2> QED BY <1>1, <2>1, <2>2 DEF LedgerCovered, RequestCovers, V1Alone, Has, Idle
  <1> QED BY <1>4, <1>5, <1>6, <1>7, <1>8, <1>9 DEF HistoryInv

LEMMA HistoryRollback ==
    ASSUME HistoryInv, NEW w \in Writers, WriterFails(w)
    PROVE  HistoryInv'
  <1>1. /\ ~ Idle(w) /\ writer' = [writer EXCEPT ![w] = None]
        /\ UNCHANGED <<traffic, today, hold, server, sweep, preview, recorded>>
    BY DEF WriterFails
  <1>2. /\ writer' = [x \in Writers |-> writer'[x]]
        /\ \A x \in Writers : writer'[x] = IF x = w THEN None ELSE writer[x]
    BY <1>1, Closes
  <1>3. HistoryTyped'
    BY <1>1, <1>2 DEF HistoryInv, HistoryTyped, Has, server, Idle
  <1>4. Exclusive' /\ Bounded'
    BY <1>1, <1>2 DEF HistoryInv, Exclusive, Bounded, Idle, Has, server
  <1>5. Exact'
    BY <1>1, <1>2 DEF HistoryInv, Exact, Idle, Has, server, Cutoff
  <1>6. SweptCounted'
    BY <1>1, <1>2 DEF HistoryInv, SweptCounted, Timely, Has, Idle, server, Cutoff
  <1>7. LedgerCovered'
    BY <1>1, <1>2 DEF HistoryInv, LedgerCovered, V1Alone, Idle, Has, server
  <1> QED BY <1>3, <1>4, <1>5, <1>6, <1>7 DEF HistoryInv

LEMMA HistoryIngest ==
    ASSUME HistoryInv, NEW e \in Events, NEW row \in Rows, V2Ingest(e, row)
    PROVE  HistoryInv'
  <1>1. /\ "v2" \in traffic /\ ~ RowLocked(e) /\ ~ IsFinal(ledger, e)
        /\ ledger' = [ledger EXCEPT ![e] = row]
        /\ recorded' = [recorded EXCEPT ![e] = Remembered(recorded[e], row)]
        /\ UNCHANGED <<traffic, today, hold, derived, imported, writer, sweep, preview>>
    BY DEF V2Ingest
  <1>2. /\ ledger \in [Events -> Rows \union {None}] /\ recorded \in [Events -> Nat]
        /\ derived \in [Days -> [Groups -> Nat]]
    BY DEF HistoryInv, HistoryTyped
  <1>3. /\ Remembered(recorded[e], row) \in Nat /\ Remembered(recorded[e], row) >= recorded[e]
        /\ row.final => Remembered(recorded[e], row) >= row.tokens
    BY <1>2, RemembersMost
  <1>4. /\ ledger' \in [Events -> Rows \union {None}] /\ recorded' \in [Events -> Nat]
        /\ \A x \in Events : recorded[x] <= recorded'[x]
        /\ \A x \in Events : x # e => recorded'[x] = recorded[x] /\ ledger'[x] = ledger[x]
        /\ ledger'[e] = row /\ (row.final => recorded'[e] >= row.tokens)
    BY <1>1, <1>2, <1>3
  <1>5. HistoryTyped'
    BY <1>1, <1>4 DEF HistoryInv, HistoryTyped, Has, Idle
  <1>6. ASSUME ~ Has({"overlap"}) PROVE BoundedBy(ledger', recorded', derived')
    <2>1. BoundedBy(ledger, recorded, derived)
      BY <1>6 DEF HistoryInv, Bounded
    <2>2. \A x \in Events : IsFinal(ledger', x) => ledger'[x].tokens <= recorded'[x]
      BY <1>4, <2>1, HistoryFacts DEF BoundedBy, IsFinal
    <2>3. ASSUME NEW d \in Days, NEW g \in Groups
          PROVE  derived'[d][g] <= Total(recorded', OfGroup(d, g))
      <3>1. Total(recorded, OfGroup(d, g)) <= Total(recorded', OfGroup(d, g))
        BY <1>2, <1>4, HistoryFacts, GroupGrows
      <3>2. /\ Total(recorded, OfGroup(d, g)) \in Nat /\ Total(recorded', OfGroup(d, g)) \in Nat
            /\ derived[d][g] \in Nat
        BY <1>2, <1>4, GroupType
      <3> QED BY <1>1, <2>1, <3>1, <3>2 DEF BoundedBy
    <2> QED BY <2>2, <2>3 DEF BoundedBy
  <1>7. ASSUME ~ Has({"overlap"}), NEW w \in Writers, ~ Idle(w)
        PROVE  RequestBounded(writer[w], recorded', derived)
    <2> DEFINE t == writer[w]
               was == RecordedAfter(recorded, t)
               new == RecordedAfter(recorded', t)
    <2>1. RequestTyped(t) /\ RequestBounded(t, recorded, derived)
      BY <1>7 DEF HistoryInv, HistoryTyped, Bounded
    <2>2. e \notin DOMAIN t.rows
      BY <1>1, <1>7 DEF RowLocked
    <2> HIDE DEF t
    <2>3. was \in [Events -> Nat] /\ new \in [Events -> Nat]
      BY <1>2, <1>4, <2>1, Leaves
    <2>4. \A x \in Events : was[x] <= new[x]
      <3>1. ASSUME NEW x \in Events PROVE was[x] <= new[x]
        <4>1. CASE x = e
          BY <1>4, <2>2, <4>1 DEF RecordedAfter
        <4>2. CASE x # e
          <5>1. was[x] = new[x]
            BY <1>4, <4>2 DEF RecordedAfter
          <5> QED BY <2>3, <5>1
        <4> QED BY <4>1, <4>2
      <3> QED BY <3>1
    <2> HIDE DEF was, new
    <2>5. ASSUME NEW d \in Days, NEW g \in Groups
          PROVE  DerivedAfter(derived, t)[d][g] <= Total(new, OfGroup(d, g))
      <3>1. Total(was, OfGroup(d, g)) <= Total(new, OfGroup(d, g))
        BY <2>3, <2>4, HistoryFacts, GroupGrows
      <3>2. /\ Total(was, OfGroup(d, g)) \in Nat /\ Total(new, OfGroup(d, g)) \in Nat
        BY <2>3, GroupType
      <3>3. DerivedAfter(derived, t)[d][g] \in Nat
        <4>1. DerivedAfter(derived, t) \in [Days -> [Groups -> Nat]]
          BY <1>2, <2>1, Leaves
        <4> QED BY <4>1
      <3>4. DerivedAfter(derived, t)[d][g] <= Total(was, OfGroup(d, g))
        BY <2>1 DEF RequestBounded, was
      <3> QED BY <3>1, <3>2, <3>3, <3>4
    <2> QED BY <2>5 DEF RequestBounded, new, t
  <1>8. Exclusive' /\ Bounded'
    BY <1>1, <1>6, <1>7 DEF HistoryInv, Exclusive, Bounded, Idle, Has
  <1>9. Exact'
    BY <1>1 DEF Exact, Has
  <1>10. SweptCounted'
    <2> SUFFICES ASSUME Timely
                 PROVE  /\ Accounted(ledger', recorded', Cutoff)
                        /\ \A w \in Writers : ~ Idle(w) =>
                              /\ RequestAdds(writer[w], recorded', Cutoff)
                              /\ RequestCounts(writer[w], ledger', derived, Cutoff)
                        /\ sweep # None => SweepSound(sweep, ledger', derived, Cutoff)
      BY <1>1 DEF HistoryInv, SweptCounted, Timely, Has, Idle, Cutoff
    <2>1. EventDay[e] >= Cutoff
      <3>1. today <= EventDay[e] + Retention
        BY DEF V2Ingest, Has, Timely, InTime
      <3>2. today \in Nat /\ Retention \in Nat /\ EventDay[e] \in Nat
        BY CutoffType, HistoryFacts, HistoryAssumption DEF HistoryInv
      <3> QED BY <3>1, <3>2 DEF Cutoff
    <2>2. Cutoff \in Int /\ \A x \in Events : EventDay[x] \in Int
      BY CutoffType, HistoryFacts DEF HistoryInv
    <2>3. \A x \in Events : EventDay[x] < Cutoff => x # e
      BY <2>1, <2>2
    <2>4. Accounted(ledger, recorded, Cutoff)
      BY DEF HistoryInv, SweptCounted
    <2>5. recorded'[e] = InLedger(ledger')[e]
      <3>1. recorded[e] = 0
        BY <1>1, <1>2, <2>3, <2>4, LedgerCounts DEF Accounted
      <3>2. InLedger(ledger')[e] = IF row.final THEN row.tokens ELSE 0
        BY <1>4, LedgerCounts, HistoryFacts DEF IsFinal
      <3>3. recorded'[e] = Remembered(0, row) /\ row.tokens \in Nat
        BY <1>1, <1>2, <3>1, HistoryFacts
      <3> QED BY <3>2, <3>3 DEF Remembered
    <2>6. ASSUME NEW x \in Events, x # e PROVE InLedger(ledger')[x] = InLedger(ledger)[x]
      BY <1>4, <2>6 DEF InLedger, IsFinal
    <2>7. Accounted(ledger', recorded', Cutoff)
      <3> SUFFICES ASSUME NEW x \in Events, x # e
                   PROVE  \/ recorded'[x] = InLedger(ledger')[x]
                          \/ /\ EventDay[x] < Cutoff
                             /\ \A f \in Events : EventDay[f] = EventDay[x] => ledger'[f] = None
        BY <2>5 DEF Accounted
      <3>1. CASE recorded[x] = InLedger(ledger)[x]
        BY <1>4, <2>6, <3>1
      <3>2. CASE EventDay[x] < Cutoff /\ \A f \in Events : EventDay[f] = EventDay[x] => ledger[f] = None
        BY <1>4, <2>3, <3>2
      <3> QED BY <2>4, <3>1, <3>2 DEF Accounted
    <2>8. ASSUME NEW w \in Writers, ~ Idle(w)
          PROVE  /\ RequestAdds(writer[w], recorded', Cutoff)
                 /\ RequestCounts(writer[w], ledger', derived, Cutoff)
      <3> DEFINE t == writer[w]
      <3>1. /\ RequestAdds(t, recorded, Cutoff) /\ RequestCounts(t, ledger, derived, Cutoff)
            /\ RequestTyped(t) /\ e \notin DOMAIN t.rows
        BY <1>1, <2>8 DEF HistoryInv, HistoryTyped, SweptCounted, RowLocked
      <3> HIDE DEF t
      <3>2. RequestAdds(t, recorded', Cutoff)
        BY <1>4, <3>1 DEF RequestAdds, RequestTyped
      <3>3. RequestCounts(t, ledger', derived, Cutoff)
        BY <1>4, <2>3, <3>1 DEF RequestCounts, IsFinal, Counted
      <3> QED BY <3>2, <3>3 DEF t
    <2>9. ASSUME sweep # None PROVE SweepSound(sweep, ledger', derived, Cutoff)
      <3>1. SweepSound(sweep, ledger, derived, Cutoff)
        BY <2>9 DEF HistoryInv, SweptCounted
      <3>2. sweep.deleted \subseteq Events /\ sweep.cutoff \in Int
        BY <2>9 DEF HistoryInv, HistoryTyped
      <3>3. \A x \in Events : EventDay[x] < sweep.cutoff => x # e /\ ledger'[x] = ledger[x]
        BY <1>4, <2>2, <2>3, <3>1, <3>2 DEF SweepSound
      <3>4. \A x \in Events : x \in sweep.deleted \/ (sweep.covered /\ EventDay[x] = sweep.day) =>
                EventDay[x] < sweep.cutoff
        BY <3>1 DEF SweepSound
      <3>5. \A x \in sweep.deleted : \A f \in Events :
                EventDay[f] = EventDay[x] /\ ledger'[f] # None => f \in sweep.deleted
        BY <3>1, <3>2, <3>3 DEF SweepSound
      <3>6. \A x \in Events : EventDay[x] < sweep.cutoff =>
                /\ IsFinal(ledger', x) <=> IsFinal(ledger, x)
                /\ Counted(ledger', derived, x) <=> Counted(ledger, derived, x)
        BY <3>3 DEF IsFinal, Counted
      <3> QED BY <3>1, <3>4, <3>5, <3>6 DEF SweepSound
    <2> QED BY <2>7, <2>8, <2>9
  <1>11. LedgerCovered'
    BY <1>1 DEF LedgerCovered, V1Alone, Has
  <1> QED BY <1>5, <1>8, <1>9, <1>10, <1>11 DEF HistoryInv

(* A day whose rollups, imports left aside, add up to what its finals do   *)
(* is counted: no rollup of a day that retention has not emptied is above  *)
(* its finals, so none is below.                                           *)
LEMMA CoverCounts ==
    ASSUME HistoryInv, Timely, NEW e \in Events, IsFinal(ledger, e), RollupsCoverDay(EventDay[e])
    PROVE  Counted(ledger, derived, e)
  <1> DEFINE d == EventDay[e]
             agg == [g \in Groups |-> Aggregate(ledger, d, g)]
  <1>1. d \in Days /\ EventGroup[e] \in Groups /\ IsFiniteSet(Groups)
    BY HistoryFacts, HistoryAssumption
  <1>2. /\ ledger \in [Events -> Rows \union {None}] /\ recorded \in [Events -> Nat]
        /\ derived \in [Days -> [Groups -> Nat]]
    BY DEF HistoryInv, HistoryTyped
  <1>3. /\ imported = EmptyTable /\ Accounted(ledger, recorded, Cutoff)
        /\ BoundedBy(ledger, recorded, derived)
    <2>1. ~ Has({"overlap"})
      BY DEF Timely, Has
    <2> QED BY <2>1 DEF HistoryInv, SweptCounted, Bounded
  <1>4. DayTotal(imported, d) = 0
    <2> DEFINE z == imported[d]
    <2>1. \A g \in Groups : z[g] = 0
      BY <1>1, <1>3 DEF EmptyTable
    <2> HIDE DEF z
    <2>2. Total(z, {}) = Total(z, Groups)
      BY <1>1, <2>1, TotalSubset
    <2>3. Total(z, Groups) = 0
      BY <2>2, TotalEmpty
    <2> QED BY <2>3 DEF DayTotal, z
  <1>5. DayTotal(derived, d) = Total(agg, Groups)
    <2>1. DayTotal(derived, d) \in Nat
      <3>1. \A g \in Groups : derived[d][g] \in Nat
        BY <1>1, <1>2
      <3> QED BY <1>1, <3>1, TotalType DEF DayTotal
    <2>2. DayTotal(derived, d) + DayTotal(imported, d) = Total(agg, Groups)
      BY DEF RollupsCoverDay
    <2> QED BY <1>4, <2>1, <2>2
  <1>6. ASSUME NEW g \in Groups
        PROVE  /\ agg[g] = Total(InLedger(ledger), OfGroup(d, g))
               /\ derived[d][g] \in Nat /\ agg[g] \in Nat /\ derived[d][g] <= agg[g]
    <2>1. agg[g] = Total(InLedger(ledger), OfGroup(d, g)) /\ agg[g] \in Nat
      BY <1>2, AggregateIs
    <2>2. \A x \in OfGroup(d, g) : InLedger(ledger)[x] = recorded[x]
      BY <1>3 DEF OfGroup, Accounted, IsFinal
    <2>3. Total(InLedger(ledger), OfGroup(d, g)) = Total(recorded, OfGroup(d, g))
      BY <2>2, GroupSame
    <2> QED BY <1>1, <1>2, <1>3, <2>1, <2>3 DEF BoundedBy
  <1> HIDE DEF d, agg
  <1>7. derived[d][EventGroup[e]] = agg[EventGroup[e]]
    <2>1. Total(derived[d], Groups) = Total(agg, Groups)
      BY <1>5 DEF DayTotal
    <2> QED BY <1>1, <1>6, <2>1, TotalGrows
  <1>8. ledger[e].tokens <= Total(InLedger(ledger), OfGroup(d, EventGroup[e]))
    BY <1>2, MemberCounted DEF d
  <1> QED BY <1>1, <1>6, <1>7, <1>8 DEF Counted, d

(* What the sweep does touches no rollup, and with v1 events in time only  *)
(* it deletes nothing of a day from the cutoff on.                         *)
LEMMA HistorySweep ==
    ASSUME HistoryInv, Sweep
    PROVE  HistoryInv'
  <1>1. UNCHANGED <<traffic, today, hold, derived, imported, writer, preview, recorded>>
    BY DEF Sweep, SweepStart, SweepCheckDay, SweepDeleteDay, SweepCommit, server
  <1>2. ledger \in [Events -> Rows \union {None}] /\ Cutoff \in Int
    BY CutoffType DEF HistoryInv, HistoryTyped
  <1> DEFINE InTimeOnly == ~ Has({"late", "v2", "rebuild", "erase", "strip", "overlap"})
             SweepShape == sweep # None => sweep \in
                 [day : {sweep.day}, cutoff : Int, covered : BOOLEAN, deleted : SUBSET Events]
             AllOlder == sweep # None => /\ sweep.cutoff <= Cutoff
                                         /\ \A e \in sweep.deleted : EventDay[e] < sweep.cutoff
                                         /\ sweep.covered => sweep.day < sweep.cutoff
  <1>3. SweepShape /\ (InTimeOnly => AllOlder)
    BY DEF HistoryInv, HistoryTyped, Exact
  <1>4. /\ SweepShape' /\ (InTimeOnly => AllOlder')
        /\ ledger' \in [Events -> Rows \union {None}]
        /\ \A e \in Events : ledger'[e] \in {ledger[e], None}
        /\ InTimeOnly => \A e \in Events : EventDay[e] >= Cutoff => ledger'[e] = ledger[e]
    <2>1. CASE SweepStart
      <3>1. PICK first : sweep' = [day |-> first, cutoff |-> Cutoff, covered |-> FALSE, deleted |-> {}]
        BY <2>1 DEF SweepStart
      <3>2. /\ sweep'.day = first /\ sweep'.cutoff = Cutoff /\ sweep'.covered = FALSE
            /\ sweep'.deleted = {} /\ ledger' = ledger
        BY <2>1, <3>1 DEF SweepStart, server
      <3>3. sweep' \in [day : {first}, cutoff : Int, covered : BOOLEAN, deleted : SUBSET Events]
        BY <1>2, <3>1
      <3> QED BY <1>1, <1>2, <3>2, <3>3 DEF Cutoff
    <2>2. CASE SweepCheckDay
      <3>1. /\ sweep # None /\ ledger' = ledger /\ sweep.day < sweep.cutoff
            /\ \/ sweep' = [sweep EXCEPT !.covered = TRUE]
               \/ sweep' = [sweep EXCEPT !.day = @ + 1] /\ ~ sweep.covered
        BY <2>2 DEF SweepCheckDay, server
      <3>2. CASE sweep' = [sweep EXCEPT !.covered = TRUE]
        BY <1>1, <1>2, <1>3, <3>1, <3>2 DEF Cutoff
      <3>3. CASE sweep' = [sweep EXCEPT !.day = @ + 1] /\ ~ sweep.covered
        BY <1>1, <1>2, <1>3, <3>1, <3>3 DEF Cutoff
      <3> QED BY <3>1, <3>2, <3>3
    <2>3. CASE SweepDeleteDay
      <3> DEFINE gone == sweep.deleted \union OfDay(sweep.day)
      <3>1. /\ sweep # None /\ ledger' = ledger /\ sweep.covered
            /\ sweep' = [sweep EXCEPT !.covered = FALSE, !.day = @ + 1,
                                      !.deleted = @ \union OfDay(sweep.day)]
        BY <2>3 DEF SweepDeleteDay, server
      <3>2. gone \subseteq Events
        BY <1>3, <3>1 DEF OfDay
      <3>3. InTimeOnly => \A e \in gone : EventDay[e] < sweep.cutoff
        BY <1>3, <3>1 DEF OfDay
      <3> HIDE DEF gone
      <3>4. /\ sweep'.cutoff = sweep.cutoff /\ sweep'.deleted = gone /\ sweep'.covered = FALSE
            /\ SweepShape'
        BY <1>3, <3>1, <3>2 DEF gone
      <3> QED BY <1>1, <1>2, <1>3, <3>1, <3>3, <3>4 DEF Cutoff
    <2>4. CASE SweepCommit
      <3>1. /\ sweep # None /\ sweep' = None
            /\ ledger' = [e \in Events |-> IF e \in sweep.deleted THEN None ELSE ledger[e]]
        BY <2>4 DEF SweepCommit
      <3>2. \A e \in Events : EventDay[e] \in Int
        BY HistoryFacts
      <3>3. InTimeOnly => \A e \in Events : EventDay[e] >= Cutoff => e \notin sweep.deleted
        BY <1>2, <1>3, <3>1, <3>2
      <3> QED BY <1>2, <3>1, <3>3
    <2> QED BY <2>1, <2>2, <2>3, <2>4 DEF Sweep
  <1>5. HistoryTyped'
    BY <1>1, <1>4 DEF HistoryInv, HistoryTyped, Has, Idle
  <1>6. Exclusive' /\ Bounded'
    BY <1>1, <1>4 DEF HistoryInv, Exclusive, Bounded, BoundedBy, IsFinal, Idle, Has
  <1>7. Exact'
    <2> SUFFICES ASSUME InTimeOnly
                 PROVE  /\ ExactIn(ledger', recorded, derived, Cutoff)
                        /\ \A w \in Writers : ~ Idle(w) =>
                              RequestExact(writer[w], recorded, derived, Cutoff)
      BY <1>1, <1>4 DEF Exact, Idle, Has, Cutoff
    <2>1. /\ ExactIn(ledger, recorded, derived, Cutoff)
          /\ \A w \in Writers : ~ Idle(w) => RequestExact(writer[w], recorded, derived, Cutoff)
      BY DEF HistoryInv, Exact
    <2> QED BY <1>4, <2>1 DEF ExactIn
  <1>8. SweptCounted'
    <2> SUFFICES ASSUME Timely
                 PROVE  /\ Accounted(ledger', recorded, Cutoff)
                        /\ \A w \in Writers : ~ Idle(w) =>
                              /\ RequestAdds(writer[w], recorded, Cutoff)
                              /\ RequestCounts(writer[w], ledger', derived, Cutoff)
                        /\ sweep' # None => SweepSound(sweep', ledger', derived, Cutoff)
      BY <1>1 DEF HistoryInv, SweptCounted, Timely, Has, Idle, Cutoff
    <2>1. /\ Accounted(ledger, recorded, Cutoff)
          /\ \A w \in Writers : ~ Idle(w) =>
                /\ RequestAdds(writer[w], recorded, Cutoff)
                /\ RequestCounts(writer[w], ledger, derived, Cutoff)
          /\ sweep # None => SweepSound(sweep, ledger, derived, Cutoff)
      BY DEF HistoryInv, SweptCounted
    <2>2. CASE SweepStart
      <3>1. /\ ledger' = ledger /\ sweep'.cutoff = Cutoff /\ sweep'.covered = FALSE
            /\ sweep'.deleted = {}
        BY <2>2 DEF SweepStart, server
      <3>2. SweepSound(sweep', ledger, derived, Cutoff)
        BY <1>2, <3>1 DEF SweepSound
      <3> QED BY <2>1, <3>1, <3>2
    <2>3. CASE SweepCheckDay
      <3>1. /\ sweep # None /\ ledger' = ledger /\ sweep.day < sweep.cutoff /\ ~ sweep.covered
            /\ sweep' = IF RollupsCoverDay(sweep.day) THEN [sweep EXCEPT !.covered = TRUE]
                        ELSE [sweep EXCEPT !.day = @ + 1]
        BY <2>3 DEF SweepCheckDay, server
      <3>2. CASE RollupsCoverDay(sweep.day)
        <4>1. /\ sweep'.day = sweep.day /\ sweep'.cutoff = sweep.cutoff
              /\ sweep'.deleted = sweep.deleted
          BY <1>3, <3>1, <3>2
        <4>2. \A e \in Events : IsFinal(ledger, e) /\ EventDay[e] = sweep.day =>
                  Counted(ledger, derived, e)
          BY <3>2, CoverCounts
        <4>3. SweepSound(sweep', ledger, derived, Cutoff)
          BY <2>1, <3>1, <4>1, <4>2 DEF SweepSound
        <4> QED BY <2>1, <3>1, <4>3
      <3>3. CASE ~ RollupsCoverDay(sweep.day)
        <4>1. /\ sweep'.covered = sweep.covered /\ sweep'.cutoff = sweep.cutoff
              /\ sweep'.deleted = sweep.deleted
          BY <1>3, <3>1, <3>3
        <4>2. SweepSound(sweep', ledger, derived, Cutoff)
          BY <2>1, <3>1, <4>1 DEF SweepSound
        <4> QED BY <2>1, <3>1, <4>2
      <3> QED BY <3>2, <3>3
    <2>4. CASE SweepDeleteDay
      <3>1. /\ sweep # None /\ ledger' = ledger /\ sweep.covered
            /\ sweep' = [sweep EXCEPT !.covered = FALSE, !.day = @ + 1,
                                      !.deleted = @ \union OfDay(sweep.day)]
        BY <2>4 DEF SweepDeleteDay, server
      <3>2. /\ sweep'.covered = FALSE /\ sweep'.cutoff = sweep.cutoff
            /\ sweep'.deleted = sweep.deleted \union OfDay(sweep.day)
        BY <1>3, <3>1
      <3>3. \A e : e \in OfDay(sweep.day) <=>
                e \in Events /\ ledger[e] # None /\ EventDay[e] = sweep.day
        BY DEF OfDay
      <3>4. SweepSound(sweep', ledger, derived, Cutoff)
        BY <2>1, <3>1, <3>2, <3>3 DEF SweepSound
      <3> QED BY <2>1, <3>1, <3>4
    <2>5. CASE SweepCommit
      <3>1. /\ sweep # None /\ sweep' = None
            /\ ledger' = [e \in Events |-> IF e \in sweep.deleted THEN None ELSE ledger[e]]
        BY <2>5 DEF SweepCommit
      <3>2. /\ SweepSound(sweep, ledger, derived, Cutoff)
            /\ sweep.deleted \subseteq Events /\ sweep.cutoff \in Int
        BY <1>3, <2>1, <3>1
      <3>3. \A e \in Events : EventDay[e] \in Int
        BY HistoryFacts
      <3>4. ASSUME NEW e \in Events, recorded[e] = InLedger(ledger)[e], e \notin sweep.deleted
            PROVE  recorded[e] = InLedger(ledger')[e]
        BY <3>1, <3>4 DEF InLedger, IsFinal
      <3>5. ASSUME NEW e \in Events, e \in sweep.deleted
            PROVE  /\ EventDay[e] < Cutoff
                   /\ \A f \in Events : EventDay[f] = EventDay[e] => ledger'[f] = None
        BY <1>2, <3>1, <3>2, <3>3, <3>5 DEF SweepSound
      <3>6. \A f \in Events : ledger[f] = None => ledger'[f] = None
        BY <3>1
      <3>7. Accounted(ledger', recorded, Cutoff)
        BY <2>1, <3>4, <3>5, <3>6 DEF Accounted
      <3>8. \A e \in Events : IsFinal(ledger', e) => IsFinal(ledger, e) /\ ledger'[e] = ledger[e]
        BY <1>4 DEF IsFinal
      <3>9. \A w \in Writers : ~ Idle(w) => RequestCounts(writer[w], ledger', derived, Cutoff)
        BY <2>1, <3>8 DEF RequestCounts, Counted
      <3> QED BY <2>1, <3>1, <3>7, <3>9
    <2> QED BY <2>2, <2>3, <2>4, <2>5 DEF Sweep
  <1>9. LedgerCovered'
    <2> SUFFICES ASSUME V1Alone
                 PROVE  /\ Covers(ledger', derived)
                        /\ \A w \in Writers : ~ Idle(w) => RequestCovers(writer[w], ledger', derived)
      BY <1>1 DEF LedgerCovered, V1Alone, Has, Idle
    <2>1. Covers(ledger, derived)
      BY DEF HistoryInv, LedgerCovered
    <2>2. derived \in [Days -> [Groups -> Nat]]
      BY DEF HistoryInv, HistoryTyped
    <2>3. \A e \in Events : IsFinal(ledger', e) => ledger'[e] = ledger[e] /\ IsFinal(ledger, e)
      BY <1>4 DEF IsFinal
    <2>4. Covers(ledger', derived)
      BY <1>2, <1>4, <2>1, <2>2, <2>3, CoversLess DEF Less
    <2>5. ASSUME NEW w \in Writers, ~ Idle(w) PROVE RequestCovers(writer[w], ledger', derived)
      <3> DEFINE t == writer[w]
                 old == LedgerAfter(ledger, t)
                 new == LedgerAfter(ledger', t)
                 der == DerivedAfter(derived, t)
      <3>1. RequestTyped(t) /\ RequestCovers(t, ledger, derived)
        BY <2>5 DEF HistoryInv, HistoryTyped, LedgerCovered
      <3> HIDE DEF t
      <3>2. /\ old \in [Events -> Rows \union {None}] /\ new \in [Events -> Rows \union {None}]
            /\ der \in [Days -> [Groups -> Nat]]
        <4>1. recorded \in [Events -> Nat]
          BY DEF HistoryInv, HistoryTyped
        <4> QED BY <1>2, <1>4, <2>2, <3>1, <4>1, Leaves
      <3>3. \A e \in Events : IsFinal(new, e) => new[e] = old[e] /\ IsFinal(old, e)
        BY <2>3 DEF LedgerAfter, IsFinal
      <3>4. Covers(old, der)
        BY <3>1 DEF RequestCovers
      <3> HIDE DEF old, new, der
      <3>5. Covers(new, der)
        BY <3>2, <3>3, <3>4, CoversLess DEF Less
      <3> QED BY <3>5 DEF RequestCovers, new, der, t
    <2> QED BY <2>4, <2>5
  <1> QED BY <1>5, <1>6, <1>7, <1>8, <1>9 DEF HistoryInv

LEMMA HistoryOther ==
    ASSUME HistoryInv,
           \/ \E row \in Imports : Bootstrap(row)
           \/ \E criteria \in Criteria : PreviewDeletion(criteria)
           \/ SetHold \/ DayPasses \/ UNCHANGED vars
    PROVE  HistoryInv'
  <1>1. CASE \E row \in Imports : Bootstrap(row)
    <2>1. PICK row \in Imports : Bootstrap(row)
      BY <1>1
    <2>2. row.day \in Days /\ row.group \in Groups /\ row.tokens \in Nat
      BY HistoryFacts, HistoryAssumption
    <2>3. imported' \in [Days -> [Groups -> Nat]]
      BY <2>1, <2>2 DEF Bootstrap, HistoryInv, HistoryTyped
    <2>4. UNCHANGED <<traffic, today, ledger, derived, writer, sweep, preview, recorded>>
      BY <2>1 DEF Bootstrap
    <2>5. HistoryTyped'
      BY <2>3, <2>4 DEF HistoryInv, HistoryTyped, Has, Idle
    <2>6. Exclusive' /\ Bounded' /\ Exact' /\ LedgerCovered'
      BY <2>4 DEF HistoryInv, Exclusive, Bounded, Exact, LedgerCovered, V1Alone, Idle, Has, Cutoff
    <2>7. SweptCounted'
      BY <2>1, <2>4 DEF Bootstrap, SweptCounted, Timely, Has
    <2> QED BY <2>5, <2>6, <2>7 DEF HistoryInv
  <1>2. CASE \E criteria \in Criteria : PreviewDeletion(criteria)
    <2>1. /\ Has({"erase", "strip"})
          /\ UNCHANGED <<traffic, today, server, writer, sweep, recorded>>
      BY <1>2 DEF PreviewDeletion
    <2>2. HistoryTyped'
      BY <2>1 DEF HistoryInv, HistoryTyped, Has, Idle, server
    <2>3. Exclusive' /\ Bounded' /\ Exact' /\ LedgerCovered'
      BY <2>1 DEF HistoryInv, Exclusive, Bounded, Exact, LedgerCovered, V1Alone, Idle, Has, Cutoff,
                  server
    <2>4. SweptCounted'
      BY <2>1 DEF HistoryInv, SweptCounted, Timely, Idle, Has, Cutoff, server
    <2> QED BY <2>2, <2>3, <2>4 DEF HistoryInv
  <1>3. CASE SetHold \/ UNCHANGED vars
    <2>1. UNCHANGED <<traffic, today, server, writer, sweep, preview, recorded>>
      BY <1>3 DEF SetHold, vars
    <2>2. HistoryTyped'
      BY <2>1 DEF HistoryInv, HistoryTyped, Has, Idle, server
    <2>3. Exclusive' /\ Bounded' /\ Exact' /\ LedgerCovered'
      BY <2>1 DEF HistoryInv, Exclusive, Bounded, Exact, LedgerCovered, V1Alone, Idle, Has, Cutoff,
                  server
    <2>4. SweptCounted'
      BY <2>1 DEF HistoryInv, SweptCounted, Timely, Idle, Has, Cutoff, server
    <2> QED BY <2>2, <2>3, <2>4 DEF HistoryInv
  <1>4. CASE DayPasses
    <2>1. /\ today < LastDay /\ today' = today + 1
          /\ "late" \in traffic \/ \A w \in Writers : Idle(w)
          /\ UNCHANGED <<traffic, hold, server, writer, sweep, preview, recorded>>
      BY <1>4 DEF DayPasses
    <2>2. today' \in Days
      BY <2>1, HistoryAssumption DEF HistoryInv, HistoryTyped, Days
    <2>3. HistoryTyped'
      BY <2>1, <2>2 DEF HistoryInv, HistoryTyped, Has, Idle, server
    <2>4. Exclusive' /\ Bounded' /\ LedgerCovered'
      BY <2>1 DEF HistoryInv, Exclusive, Bounded, LedgerCovered, V1Alone, Idle, Has, server
    <2>5. Exact'
      <3> SUFFICES ASSUME ~ Has({"late", "v2", "rebuild", "erase", "strip", "overlap"})
                   PROVE  /\ ExactIn(ledger, recorded, derived, Cutoff')
                          /\ sweep # None => /\ sweep.cutoff <= Cutoff'
                                             /\ \A e \in sweep.deleted : EventDay[e] < sweep.cutoff
                                             /\ sweep.covered => sweep.day < sweep.cutoff
        BY <2>1 DEF Exact, Idle, Has, server
      <3>1. Cutoff \in Int /\ Cutoff' = Cutoff + 1
        BY <2>1, CutoffType, HistoryAssumption DEF HistoryInv, Cutoff
      <3>2. \A e \in Events : EventDay[e] \in Int
        BY HistoryFacts
      <3>3. ExactIn(ledger, recorded, derived, Cutoff)
        BY DEF HistoryInv, Exact
      <3>4. ExactIn(ledger, recorded, derived, Cutoff')
        BY <3>1, <3>2, <3>3 DEF ExactIn
      <3>5. sweep # None => sweep.cutoff \in Int
        BY DEF HistoryInv, HistoryTyped
      <3> QED BY <3>1, <3>4, <3>5 DEF HistoryInv, Exact
    <2>6. SweptCounted'
      <3> SUFFICES ASSUME Timely
                   PROVE  /\ Accounted(ledger, recorded, Cutoff')
                          /\ sweep # None => SweepSound(sweep, ledger, derived, Cutoff')
        BY <2>1 DEF HistoryInv, SweptCounted, Timely, Idle, Has, server
      <3>1. Cutoff \in Int /\ Cutoff' = Cutoff + 1
        BY <2>1, CutoffType, HistoryAssumption DEF HistoryInv, Cutoff
      <3>2. \A e \in Events : EventDay[e] \in Int
        BY HistoryFacts
      <3>3. sweep # None => sweep.cutoff \in Int
        BY DEF HistoryInv, HistoryTyped
      <3>4. /\ Accounted(ledger, recorded, Cutoff)
            /\ sweep # None => SweepSound(sweep, ledger, derived, Cutoff)
        BY DEF HistoryInv, SweptCounted
      <3>5. Accounted(ledger, recorded, Cutoff')
        BY <3>1, <3>2, <3>4 DEF Accounted
      <3>6. sweep # None => SweepSound(sweep, ledger, derived, Cutoff')
        BY <3>1, <3>3, <3>4 DEF SweepSound
      <3> QED BY <3>5, <3>6
    <2> QED BY <2>3, <2>4, <2>5, <2>6 DEF HistoryInv
  <1> QED BY <1>1, <1>2, <1>3, <1>4

LEMMA HistoryStep == HistoryInv /\ [Next]_vars => HistoryInv'
  BY HistoryReport, HistoryIngest, HistoryRebuild, HistoryErase, HistoryCommit, HistoryRollback,
     HistorySweep, HistoryOther DEF Next

(* The totals history is told by are neither short nor padded: between     *)
(* requests every day and group reports just the tokens of its v1 attempts *)
(* that came in time, those retention deleted included, and no total ever  *)
(* counts an attempt twice or one that an administrator erased with its    *)
(* rollups recomputed (services/rollups.py, retention_worker.py,           *)
(* admin_deletion.py), for any attempts, groups, days, writers and imports.*)
THEOREM HistoryIsHonest == Spec => []TotalsHonest
  <1>1. HistoryInv => TotalsHonest
    BY DEF HistoryInv, Bounded, BoundedBy, Exact, ExactIn, TotalsHonest, HistoryKeptInTime,
           HistoryKept, NothingErasedCounted, RecordedTotal
  <1> QED BY HistoryStarts, HistoryStep, <1>1, PTL DEF Spec

(* What the sweep removes was counted: a final goes only when the rollup   *)
(* of its day and group holds its tokens (retention_worker.py:228-249).    *)
(* For v1 events that is so whatever comes late, also between the check of *)
(* a day and its delete, and whatever rebuilds, imports and deletions come *)
(* in between; for v2 events, whose ingest refreshes no rollup, when they  *)
(* come in time and no import or unrefreshed deletion stands in for them.  *)
(* For any attempts, groups, days, writers and criteria.                   *)
THEOREM SweepDeletesOnlyCounted == Spec => DeletesOnlyCounted
  <1> DEFINE A == Countable /\ sweep # None /\ sweep' = None =>
                      \A e \in Events : IsFinal(ledger, e) /\ ledger'[e] = None =>
                          derived[EventDay[e]][EventGroup[e]] >= ledger[e].tokens
  <1>1. HistoryInv /\ [Next]_vars => [A]_vars
    <2> SUFFICES ASSUME HistoryInv, Next, Countable, sweep # None, sweep' = None,
                        NEW e \in Events, IsFinal(ledger, e), ledger'[e] = None
                 PROVE  Counted(ledger, derived, e)
      BY DEF Counted
    <2>1. CASE V1Alone
      <3>1. /\ ledger \in [Events -> Rows \union {None}] /\ derived \in [Days -> [Groups -> Nat]]
            /\ Covers(ledger, derived)
        BY <2>1 DEF HistoryInv, HistoryTyped, LedgerCovered
      <3> DEFINE S == OfGroup(EventDay[e], EventGroup[e])
      <3>2. ledger[e].tokens <= Total(InLedger(ledger), S)
        BY <3>1, MemberCounted
      <3>3. EventDay[e] \in Days /\ EventGroup[e] \in Groups
        BY HistoryFacts
      <3>4. Total(InLedger(ledger), S) <= derived[EventDay[e]][EventGroup[e]]
        BY <3>1, <3>3 DEF Covers
      <3>5. Total(InLedger(ledger), S) \in Nat
        BY <3>1, LedgerCounts, GroupType
      <3>6. ledger[e].tokens \in Nat /\ derived[EventDay[e]][EventGroup[e]] \in Nat
        BY <3>1, <3>3, HistoryFacts DEF IsFinal
      <3> HIDE DEF S
      <3> QED BY <3>2, <3>4, <3>5, <3>6 DEF Counted
    <2>2. CASE ~ V1Alone
      <3>1. Timely
        BY <2>2 DEF Countable, V1Alone, Timely, Has
      <3>2. SweepSound(sweep, ledger, derived, Cutoff)
        BY <3>1 DEF HistoryInv, SweptCounted
      <3>3. CASE SweepCommit
        <4>1. e \in sweep.deleted
          BY <3>3 DEF SweepCommit, IsFinal
        <4> QED BY <3>2, <4>1 DEF SweepSound
      <3>4. CASE SweepStart \/ SweepCheckDay \/ SweepDeleteDay
        BY <3>4 DEF SweepStart, SweepCheckDay, SweepDeleteDay, server, IsFinal
      <3> QED BY <3>3, <3>4 DEF Next, Sweep, V1Begin, V2Ingest, Bootstrap, RebuildBegin,
              PreviewDeletion, ExecuteDeletion, CommitWriter, WriterFails, SetHold, DayPasses
    <2> QED BY <2>1, <2>2
  <1>2. Spec => [][A]_vars
    BY HistoryStarts, HistoryStep, <1>1, PTL DEF Spec
  <1> QED BY <1>2 DEF DeletesOnlyCounted

-----------------------------------------------------------------------------
-----------------------------------------------------------------------------
(* Limits: flood control.                                                  *)

(* The rows that limits come in.                                           *)
AnyAccount == Accounts \union {Nil}
                \union UNION {{b[i][2] : i \in DOMAIN b} : b \in GatewayBatches}

LimitRows ==
    [provider : {w[1] : w \in Windows}, kind : {w[2] : w \in Windows}, account : AnyAccount,
     source : {"collector", "gateway"}, ts : Times, pct : Pcts, resets : Resets \union {Nil}]

RowsIn(q) == {q[i] : i \in DOMAIN q}

(* What an open request has judged.                                        *)
Judgings == [batch : Seq(LimitRows), next : Nat, rows : Seq(LimitRows)]

LimitsTables ==
    /\ now \in Times
    /\ stored \in Seq(LimitRows)
    /\ queue \in Seq(Seq(LimitRows))
    /\ waiting # Nil => queue # <<>>
    /\ judging = [r \in Posts |-> judging[r]]
    /\ \A r \in Posts : Open(r) =>
          /\ judging[r] \in Judgings
          /\ judging[r].next \in 1 .. Len(judging[r].batch) + 1
    /\ answered \subseteq LimitRows

(* x stands for the snapshot s.                                            *)
StandsFor(x, s) ==
    /\ x.provider = s.provider /\ x.kind = s.kind
    /\ \/ x.ts >= s.ts
       \/ Interval > 0 /\ s.ts - x.ts < Interval

(* Whatever was judged, or answered for, has a row that stands for it.     *)
NothingForgotten ==
    /\ \A s \in answered : \E x \in RowsIn(stored) : StandsFor(x, s)
    /\ \A r \in Posts : Open(r) =>
          \A k \in 1 .. judging[r].next - 1 :
              \E x \in RowsIn(stored) \union RowsIn(judging[r].rows) :
                  StandsFor(x, judging[r].batch[k])

Apart(x, y) == FloodKey(x) = FloodKey(y) => y.ts - x.ts >= Interval

Spaced(q) == \A i, j \in DOMAIN q : i < j => Apart(q[i], q[j])

(* One request at a time keeps the rows an interval apart.                 *)
OneAtATime ==
    ~ overlapped /\ Interval > 0 =>
        /\ \A q, r \in Posts : Open(q) /\ Open(r) => q = r
        /\ Spaced(stored)
        /\ \A r \in Posts : Open(r) =>
              /\ Spaced(judging[r].rows)
              /\ \A x \in RowsIn(stored), y \in RowsIn(judging[r].rows) : Apart(x, y)

LimitsInv == LimitsTables /\ NothingForgotten /\ OneAtATime

LEMMA ClockFacts ==
    /\ Interval \in Nat /\ Block \in Nat \ {0} /\ Week \in Nat \ {0} /\ Lookback \in Nat \ {0}
    /\ MaxTime \in Nat /\ Times = 0 .. MaxTime /\ Times \subseteq Nat
    /\ Pcts \subseteq 0 .. 100 /\ Resets \subseteq Nat /\ Nil \notin Int /\ Nil \notin Posts
    /\ \A x \in LimitRows : /\ x.ts \in Times /\ x.ts \in Nat /\ x.pct \in Pcts
                            /\ x.resets = Nil \/ x.resets \in Resets
  <1>1. /\ Interval \in Nat /\ Block \in Nat \ {0} /\ Week \in Nat \ {0} /\ Lookback \in Nat \ {0}
        /\ MaxTime \in Nat /\ Pcts \subseteq 0 .. 100 /\ Resets \subseteq Nat
        /\ Nil \notin Int /\ Nil \notin Posts
    BY LimitsAssumption
  <1>2. Times = 0 .. MaxTime /\ Times \subseteq Nat
    BY <1>1 DEF Times
  <1>3. \A x \in LimitRows : /\ x.ts \in Times /\ x.pct \in Pcts
                             /\ x.resets = Nil \/ x.resets \in Resets
    BY DEF LimitRows
  <1> QED BY <1>1, <1>2, <1>3

(* Sequences of rows.                                                      *)
LEMMA RowSeqs ==
    ASSUME NEW q \in Seq(LimitRows)
    PROVE  /\ DOMAIN q = 1 .. Len(q) /\ Len(q) \in Nat
           /\ \A i \in 1 .. Len(q) : q[i] \in LimitRows
           /\ RowsIn(q) \subseteq LimitRows /\ IsFiniteSet(RowsIn(q))
  <1>1. /\ DOMAIN q = 1 .. Len(q) /\ Len(q) \in Nat
        /\ \A i \in 1 .. Len(q) : q[i] \in LimitRows
    OBVIOUS
  <1>2. IsFiniteSet(DOMAIN q)
    BY <1>1, LastPlace
  <1>3. IsFiniteSet(RowsIn(q))
    BY <1>2, ImageIsFinite DEF RowsIn
  <1> QED BY <1>1, <1>3 DEF RowsIn

LEMMA ItemsAppend ==
    ASSUME NEW q \in Seq(LimitRows), NEW s \in LimitRows
    PROVE  /\ Append(q, s) \in Seq(LimitRows)
           /\ RowsIn(Append(q, s)) = RowsIn(q) \union {s}
           /\ Spaced(q) /\ (\A x \in RowsIn(q) : Apart(x, s)) => Spaced(Append(q, s))
  <1> DEFINE new == Append(q, s)
             n == Len(q)
  <1>1. /\ new \in Seq(LimitRows) /\ n \in Nat /\ DOMAIN q = 1 .. n /\ DOMAIN new = 1 .. n + 1
        /\ new[n + 1] = s /\ \A i \in 1 .. n : new[i] = q[i]
    OBVIOUS
  <1> HIDE DEF new, n
  <1>2. \A i \in 1 .. n + 1 : i \in 1 .. n \/ i = n + 1
    BY <1>1
  <1>3. \A i \in 1 .. n : i \in 1 .. n + 1
    BY <1>1
  <1>4. n + 1 \in 1 .. n + 1
    BY <1>1
  <1>5. RowsIn(new) = RowsIn(q) \union {s}
    <2>1. ASSUME NEW x \in RowsIn(new) PROVE x \in RowsIn(q) \union {s}
      BY <1>1, <1>2, <2>1 DEF RowsIn
    <2>2. ASSUME NEW x \in RowsIn(q) \union {s} PROVE x \in RowsIn(new)
      BY <1>1, <1>3, <1>4, <2>2 DEF RowsIn
    <2> QED BY <2>1, <2>2
  <1>6. ASSUME Spaced(q), \A x \in RowsIn(q) : Apart(x, s) PROVE Spaced(new)
    <2> SUFFICES ASSUME NEW i \in 1 .. n + 1, NEW j \in 1 .. n + 1, i < j
                 PROVE  Apart(new[i], new[j])
      BY <1>1 DEF Spaced
    <2>1. i \in 1 .. n
      BY <1>1
    <2>2. CASE j = n + 1
      BY <1>1, <1>6, <2>1, <2>2 DEF RowsIn
    <2>3. CASE j \in 1 .. n
      BY <1>1, <1>6, <2>1, <2>3 DEF Spaced
    <2> QED BY <1>2, <2>2, <2>3
  <1> QED BY <1>1, <1>5, <1>6 DEF new

LEMMA ItemsJoined ==
    ASSUME NEW a \in Seq(LimitRows), NEW b \in Seq(LimitRows)
    PROVE  /\ a \o b \in Seq(LimitRows)
           /\ RowsIn(a \o b) = RowsIn(a) \union RowsIn(b)
           /\ Spaced(a) /\ Spaced(b) /\ (\A x \in RowsIn(a), y \in RowsIn(b) : Apart(x, y))
                => Spaced(a \o b)
  <1> DEFINE new == a \o b
             n == Len(a)
             m == Len(b)
  <1>1. /\ new \in Seq(LimitRows) /\ n \in Nat /\ m \in Nat
        /\ DOMAIN a = 1 .. n /\ DOMAIN b = 1 .. m /\ DOMAIN new = 1 .. n + m
        /\ \A i \in 1 .. n : new[i] = a[i]
        /\ \A i \in 1 .. m : new[n + i] = b[i]
    OBVIOUS
  <1> HIDE DEF new, n, m
  <1>2. \A i \in 1 .. n + m : i \in 1 .. n \/ (i - n \in 1 .. m /\ n + (i - n) = i)
    BY <1>1
  <1>3. \A i \in 1 .. n : i \in 1 .. n + m
    BY <1>1
  <1>4. \A i \in 1 .. m : n + i \in 1 .. n + m
    BY <1>1
  <1>5. ASSUME NEW i \in 1 .. n + m
        PROVE  \/ i \in 1 .. n /\ new[i] = a[i] /\ new[i] \in RowsIn(a)
               \/ i - n \in 1 .. m /\ new[i] = b[i - n] /\ new[i] \in RowsIn(b)
    <2>1. CASE i \in 1 .. n
      BY <1>1, <2>1 DEF RowsIn
    <2>2. CASE i - n \in 1 .. m /\ n + (i - n) = i
      <3> DEFINE k == i - n
      <3>1. new[n + k] = b[k]
        BY <1>1, <2>2
      <3> QED BY <1>1, <2>2, <3>1 DEF RowsIn
    <2> QED BY <1>2, <2>1, <2>2
  <1>6. RowsIn(new) = RowsIn(a) \union RowsIn(b)
    <2>1. ASSUME NEW x \in RowsIn(new) PROVE x \in RowsIn(a) \union RowsIn(b)
      BY <1>1, <1>5 DEF RowsIn
    <2>2. ASSUME NEW x \in RowsIn(a) PROVE x \in RowsIn(new)
      BY <1>1, <1>3 DEF RowsIn
    <2>3. ASSUME NEW x \in RowsIn(b) PROVE x \in RowsIn(new)
      <3>1. PICK i \in 1 .. m : x = b[i]
        BY <1>1 DEF RowsIn
      <3>2. x = new[n + i] /\ n + i \in DOMAIN new
        BY <1>1, <1>4, <3>1
      <3> QED BY <3>2 DEF RowsIn
    <2> QED BY <2>1, <2>2, <2>3
  <1>7. ASSUME Spaced(a), Spaced(b), \A x \in RowsIn(a), y \in RowsIn(b) : Apart(x, y)
        PROVE  Spaced(new)
    <2> SUFFICES ASSUME NEW i \in 1 .. n + m, NEW j \in 1 .. n + m, i < j
                 PROVE  Apart(new[i], new[j])
      BY <1>1 DEF Spaced
    <2>1. CASE i \in 1 .. n /\ new[i] = a[i] /\ new[i] \in RowsIn(a)
      <3>1. CASE j \in 1 .. n /\ new[j] = a[j]
        BY <1>1, <1>7, <2>1, <3>1 DEF Spaced
      <3>2. CASE new[j] \in RowsIn(b)
        BY <1>7, <2>1, <3>2
      <3> QED BY <1>5, <3>1, <3>2
    <2>2. CASE i - n \in 1 .. m /\ new[i] = b[i - n]
      <3>1. j - n \in 1 .. m /\ i - n < j - n
        BY <1>1, <1>2, <2>2
      <3>2. new[j] = b[j - n]
        <4> DEFINE k == j - n
        <4>1. new[n + k] = b[k] /\ n + k = j
          BY <1>1, <3>1
        <4> QED BY <4>1
      <3> QED BY <1>1, <1>7, <2>2, <3>1, <3>2 DEF Spaced
    <2> QED BY <1>5, <2>1, <2>2
  <1> QED BY <1>1, <1>6, <1>7 DEF new

(* The latest row of a key.                                                *)
LEMMA LatestIs ==
    ASSUME NEW q \in Seq(LimitRows), NEW k
    PROVE  /\ OfKey(q, k) = {x \in RowsIn(q) : FloodKey(x) = k}
           /\ OfKey(q, k) = {} => Latest(OfKey(q, k)) = Nil
           /\ OfKey(q, k) # {} =>
                 /\ Latest(OfKey(q, k)) \in Nat
                 /\ Latest(OfKey(q, k)) # Nil
                 /\ \E x \in OfKey(q, k) : x.ts = Latest(OfKey(q, k))
                 /\ \A x \in OfKey(q, k) : x.ts <= Latest(OfKey(q, k))
  <1> DEFINE snaps == OfKey(q, k)
             ts == [x \in LimitRows |-> x.ts]
             times == {ts[x] : x \in snaps}
  <1>1. snaps = {x \in RowsIn(q) : FloodKey(x) = k}
    BY DEF OfKey, RowsIn
  <1>2. snaps \subseteq LimitRows /\ IsFiniteSet(snaps)
    <2>1. snaps \in SUBSET RowsIn(q)
      BY <1>1
    <2> HIDE DEF snaps
    <2> QED BY <2>1, RowSeqs, FS_Subset
  <1> HIDE DEF snaps
  <1>3. times = {x.ts : x \in snaps}
    BY <1>2
  <1>4. \A x \in snaps : ts[x] = x.ts /\ x.ts \in Nat
    BY <1>2, ClockFacts
  <1> HIDE DEF ts
  <1>5. times \subseteq Int /\ times \subseteq Nat /\ IsFiniteSet(times)
    BY <1>2, <1>4, ImageIsFinite
  <1>6. Latest(snaps) = IF snaps = {} THEN Nil ELSE Max(times)
    BY <1>3 DEF Latest
  <1>7. ASSUME snaps # {}
        PROVE  Max(times) \in times /\ \A t \in times : t <= Max(times)
    <2>1. times # {}
      BY <1>7
    <2> HIDE DEF times
    <2> QED BY <1>5, <2>1, Extremes
  <1>8. ASSUME snaps # {}
        PROVE  /\ Latest(snaps) \in Nat /\ Latest(snaps) # Nil
               /\ \E x \in snaps : x.ts = Latest(snaps)
               /\ \A x \in snaps : x.ts <= Latest(snaps)
    <2>1. Latest(snaps) = Max(times) /\ Max(times) \in Nat
      BY <1>5, <1>6, <1>7, <1>8
    <2>2. \E x \in snaps : x.ts = Latest(snaps)
      BY <1>4, <1>7, <1>8, <2>1
    <2>3. \A x \in snaps : x.ts <= Latest(snaps)
      BY <1>4, <1>7, <1>8, <2>1
    <2>4. Nil \notin Nat
      BY ClockFacts
    <2> QED BY <2>1, <2>2, <2>3, <2>4
  <1> QED BY <1>1, <1>6, <1>8 DEF snaps

-----------------------------------------------------------------------------
(* What the steps do to LimitsInv.                                         *)

LEMMA LimitsInitInv == LimitsInit => LimitsInv
  <1> SUFFICES ASSUME LimitsInit PROVE LimitsInv
    OBVIOUS
  <1>1. LimitsTables
    BY ClockFacts DEF LimitsInit, LimitsTables, Open
  <1>2. NothingForgotten
    BY DEF LimitsInit, NothingForgotten, Open
  <1>3. OneAtATime
    BY DEF LimitsInit, OneAtATime, Open, Spaced
  <1> QED BY <1>1, <1>2, <1>3 DEF LimitsInv

(* A step that leaves the table and the open requests, or closes some.     *)
ClosesOnly ==
    /\ UNCHANGED <<stored, answered, overlapped>>
    /\ judging' = [r \in Posts |-> judging'[r]]
    /\ \A r \in Posts : judging'[r] # Nil => judging'[r] = judging[r]

LEMMA ClosingKeeps ==
    ASSUME LimitsInv, ClosesOnly
    PROVE  /\ NothingForgotten' /\ OneAtATime'
           /\ \A r \in Posts : judging'[r] # Nil =>
                 /\ judging'[r] \in Judgings
                 /\ judging'[r].next \in 1 .. Len(judging'[r].batch) + 1
  <1>1. \A r \in Posts : judging'[r] # Nil => judging'[r] = judging[r] /\ judging[r] # Nil
    BY DEF ClosesOnly
  <1>2. NothingForgotten'
    BY <1>1 DEF LimitsInv, ClosesOnly, NothingForgotten, Open
  <1>3. OneAtATime'
    BY <1>1 DEF LimitsInv, ClosesOnly, OneAtATime, Open
  <1>4. ASSUME NEW r \in Posts, judging'[r] # Nil
        PROVE  /\ judging'[r] \in Judgings
               /\ judging'[r].next \in 1 .. Len(judging'[r].batch) + 1
    BY <1>1, <1>4 DEF LimitsInv, LimitsTables, Open
  <1> QED BY <1>2, <1>3, <1>4

LEMMA IdleKeeps ==
    ASSUME LimitsInv, Tick \/ TimeOut \/ UNCHANGED limitsVars
    PROVE  LimitsInv'
  <1>1. /\ UNCHANGED <<queue, judging, stored, answered, overlapped>>
        /\ waiting' = waiting \/ waiting' = Nil
    BY DEF Tick, TimeOut, limitsVars
  <1>2. now' \in Times
    <2>1. CASE Tick
      BY <2>1, ClockFacts DEF Tick, LimitsInv, LimitsTables
    <2>2. CASE now' = now
      BY <2>2 DEF LimitsInv, LimitsTables
    <2> QED BY <2>1, <2>2 DEF TimeOut, limitsVars
  <1>3. ClosesOnly
    BY <1>1 DEF ClosesOnly, LimitsInv, LimitsTables
  <1>4. LimitsTables'
    BY <1>1, <1>2 DEF LimitsInv, LimitsTables, Open
  <1> QED BY <1>3, <1>4, ClosingKeeps DEF LimitsInv

LEMMA FailKeeps ==
    ASSUME LimitsInv, NEW r \in Posts, Fail(r)
    PROVE  LimitsInv'
  <1>1. /\ UNCHANGED <<now, queue, stored, answered, overlapped>>
        /\ judging' = [judging EXCEPT ![r] = Nil]
        /\ waiting' = waiting \/ waiting' = Nil
    BY DEF Fail
  <1>2. ClosesOnly
    BY <1>1 DEF ClosesOnly, LimitsInv, LimitsTables
  <1>3. LimitsTables'
    BY <1>1, <1>2, ClosingKeeps DEF LimitsInv, LimitsTables, Open, ClosesOnly
  <1> QED BY <1>2, <1>3, ClosingKeeps DEF LimitsInv

(* Any order of a finite set of rows is a sequence of them.                *)
LEMMA OrderedRows ==
    ASSUME NEW snaps \in SUBSET LimitRows, IsFiniteSet(snaps)
    PROVE  InAnyOrder(snaps) \in Seq(LimitRows)
  <1> DEFINE n == Cardinality(snaps)
  <1>1. n \in Nat /\ \E f : f \in [1 .. n -> snaps] /\ \A x \in snaps : \E i \in 1 .. n : f[i] = x
    <2>1. n \in Nat
      BY FS_CardinalityType
    <2>2. PICK f : f \in Bijection(1 .. n, snaps)
      BY FS_CardinalityType DEF ExistsBijection
    <2>3. f \in [1 .. n -> snaps] /\ \A x \in snaps : \E i \in 1 .. n : f[i] = x
      BY <2>2 DEF Bijection, Surjection, Injection
    <2> QED BY <2>1, <2>3
  <1> HIDE DEF n
  <1>2. InAnyOrder(snaps) = CHOOSE s \in [1 .. n -> snaps] :
                              \A x \in snaps : \E i \in DOMAIN s : s[i] = x
    BY DEF InAnyOrder, n
  <1>3. InAnyOrder(snaps) \in [1 .. n -> snaps]
    BY <1>1, <1>2
  <1> QED BY <1>1, <1>3

LEMMA PollKeeps ==
    ASSUME LimitsInv, NEW p, NEW account \in Accounts \union {Nil},
           NEW answer \in [WindowsOf(p) -> Readings \union {Nil}], Poll(p, answer, account)
    PROVE  LimitsInv'
  <1>1. /\ UNCHANGED <<now, waiting, judging, stored, answered, overlapped>>
        /\ queue' = IF Polled(p, answer, account) = {} THEN queue
                    ELSE Append(queue, InAnyOrder(Polled(p, answer, account)))
    BY DEF Poll
  <1> DEFINE answering == {w \in WindowsOf(p) : answer[w] # Nil}
             f == [w \in answering |-> Snapshot(w, AccountSent(p, account), now, answer[w],
                                                "collector")]
  <1>2. Polled(p, answer, account) = {f[w] : w \in answering}
    BY DEF Polled
  <1>3. IsFiniteSet(answering)
    <2>1. answering \in SUBSET Windows /\ IsFiniteSet(Windows)
      BY LimitsAssumption DEF WindowsOf
    <2> HIDE DEF answering
    <2> QED BY <2>1, FS_Subset
  <1>4. \A w \in answering : f[w] \in LimitRows
    <2> SUFFICES ASSUME NEW w \in answering
                 PROVE  Snapshot(w, AccountSent(p, account), now, answer[w], "collector")
                          \in LimitRows
      OBVIOUS
    <2>1. w \in Windows /\ answer[w] \in Readings /\ now \in Times
      BY DEF WindowsOf, LimitsInv, LimitsTables
    <2>2. AccountSent(p, account) \in AnyAccount
      BY DEF AccountSent, AnyAccount
    <2> QED BY <2>1, <2>2 DEF Snapshot, LimitRows, Readings
  <1> HIDE DEF f, answering
  <1>5. Polled(p, answer, account) \in SUBSET LimitRows /\ IsFiniteSet(Polled(p, answer, account))
    BY <1>2, <1>3, <1>4, ImageIsFinite
  <1>6. InAnyOrder(Polled(p, answer, account)) \in Seq(LimitRows)
    BY <1>5, OrderedRows
  <1>7. queue' \in Seq(Seq(LimitRows)) /\ (queue # <<>> => queue' # <<>>)
    <2> DEFINE batch == InAnyOrder(Polled(p, answer, account))
               S == Seq(LimitRows)
    <2>1. batch \in S /\ queue \in Seq(S)
      BY <1>6 DEF LimitsInv, LimitsTables
    <2>2. queue' = queue \/ queue' = Append(queue, batch)
      BY <1>1
    <2> HIDE DEF S, batch
    <2>3. Append(queue, batch) \in Seq(S) /\ Append(queue, batch) # <<>>
      BY <2>1
    <2>4. queue' \in Seq(S) /\ (queue # <<>> => queue' # <<>>)
      BY <2>1, <2>2, <2>3
    <2> QED BY <2>4 DEF S
  <1>8. ClosesOnly
    BY <1>1 DEF ClosesOnly, LimitsInv, LimitsTables
  <1>9. LimitsTables'
    BY <1>1, <1>7 DEF LimitsInv, LimitsTables, Open
  <1> QED BY <1>8, <1>9, ClosingKeeps DEF LimitsInv

(* A request that is received has judged nothing yet.                      *)
LEMMA ReceiveKeeps ==
    ASSUME LimitsInv, NEW r \in Posts, NEW batch \in Seq(LimitRows), Receive(r, batch),
           UNCHANGED <<now, queue, stored, answered>>,
           waiting' # Nil => queue # <<>>
    PROVE  LimitsInv'
  <1> DEFINE new == [batch |-> batch, next |-> 1, rows |-> <<>>]
  <1>1. /\ judging[r] = Nil /\ judging' = [judging EXCEPT ![r] = new]
        /\ overlapped' = (overlapped \/ \E q \in Posts : Open(q))
    BY DEF Receive, Open
  <1>2. /\ judging' = [q \in Posts |-> judging'[q]]
        /\ judging'[r] = new
        /\ \A q \in Posts : q # r => judging'[q] = judging[q]
    BY <1>1 DEF LimitsInv, LimitsTables
  <1>3. /\ new.batch = batch /\ new.rows = <<>> /\ new.next = 1
        /\ new \in Judgings /\ new.next \in 1 .. Len(new.batch) + 1
        /\ RowsIn(new.rows) = {} /\ Spaced(new.rows)
    BY RowSeqs DEF RowsIn, Spaced, Judgings
  <1> HIDE DEF new
  <1>4. LimitsTables'
    BY <1>2, <1>3 DEF LimitsInv, LimitsTables, Open
  <1>5. NothingForgotten'
    BY <1>2, <1>3 DEF LimitsInv, NothingForgotten, Open
  <1>6. OneAtATime'
    BY <1>1, <1>2, <1>3 DEF LimitsInv, OneAtATime, Open
  <1> QED BY <1>4, <1>5, <1>6 DEF LimitsInv

LEMMA SendKeeps ==
    ASSUME LimitsInv, NEW r \in Posts, Send(r)
    PROVE  LimitsInv'
  <1>1. /\ queue # <<>> /\ Receive(r, Head(queue))
        /\ UNCHANGED <<now, queue, stored, answered>>
    BY DEF Send
  <1>2. Head(queue) \in Seq(LimitRows)
    <2> DEFINE S == Seq(LimitRows)
    <2>1. queue \in Seq(S)
      BY DEF LimitsInv, LimitsTables
    <2> HIDE DEF S
    <2>2. Head(queue) \in S
      BY <1>1, <2>1
    <2> QED BY <2>2 DEF S
  <1> QED BY <1>1, <1>2, ReceiveKeeps

LEMMA GatewayKeeps ==
    ASSUME LimitsInv, NEW r \in Posts, NEW batch \in GatewayBatches, GatewaySends(r, batch)
    PROVE  LimitsInv'
  <1>1. /\ \A i \in DOMAIN batch : now >= batch[i][3]
        /\ Receive(r, GatewayRows(batch))
        /\ UNCHANGED <<now, queue, waiting, stored, answered>>
    BY DEF GatewaySends
  <1>2. GatewayRows(batch) \in Seq(LimitRows)
    <2>1. /\ DOMAIN batch = 1 .. Len(batch) /\ Len(batch) \in Nat
          /\ \A i \in DOMAIN batch : /\ batch[i][1] \in Windows /\ batch[i][3] \in Nat
                                     /\ batch[i][4] \in Pcts /\ batch[i][2] \in AnyAccount
      <3> DEFINE Sent == UNION {{b[i] : i \in DOMAIN b} : b \in GatewayBatches}
      <3>1. /\ batch \in Seq(Sent)
            /\ \A x \in Sent : x[1] \in Windows /\ x[3] \in Nat /\ x[4] \in Pcts
        BY LimitsAssumption
      <3>2. \A i \in DOMAIN batch : batch[i] \in Sent
        OBVIOUS
      <3> HIDE DEF Sent
      <3>3. DOMAIN batch = 1 .. Len(batch) /\ Len(batch) \in Nat
        BY <3>1
      <3>4. \A i \in DOMAIN batch : batch[i][2] \in AnyAccount
        BY DEF AnyAccount
      <3> QED BY <3>1, <3>2, <3>3, <3>4
    <2> DEFINE f(i) == Snapshot(batch[i][1], batch[i][2], now - batch[i][3],
                                [pct |-> batch[i][4], resets |-> Nil], "gateway")
    <2>2. ASSUME NEW i \in DOMAIN batch PROVE f(i) \in LimitRows
      <3>0. now \in 0 .. MaxTime /\ MaxTime \in Nat
        BY ClockFacts DEF LimitsInv, LimitsTables
      <3>1. now - batch[i][3] \in Times
        BY SMTT(30), <1>1, <2>1, <3>0 DEF Times
      <3> QED BY <2>1, <3>1 DEF Snapshot, LimitRows
    <2> HIDE DEF f
    <2>3. GatewayRows(batch) = [i \in 1 .. Len(batch) |-> f(i)]
      BY <2>1 DEF GatewayRows, f
    <2> QED BY <2>1, <2>2, <2>3
  <1>3. waiting' # Nil => queue # <<>>
    BY <1>1 DEF LimitsInv, LimitsTables
  <1> QED BY <1>1, <1>2, <1>3, ReceiveKeeps

(* What is dropped has a row that stands for it; what is not is far enough *)
(* from every row of its key.                                              *)
LEMMA FloodLimits ==
    ASSUME NEW j, j.rows \in Seq(LimitRows), stored \in Seq(LimitRows), NEW s \in LimitRows
    PROVE  /\ FloodLimited(j, s) => \E x \in RowsIn(stored) \union RowsIn(j.rows) : StandsFor(x, s)
           /\ ~ FloodLimited(j, s) /\ Interval > 0
                 /\ (\A x \in RowsIn(stored), y \in RowsIn(j.rows) : Apart(x, y))
                 => \A x \in RowsIn(stored) \union RowsIn(j.rows) : Apart(x, s)
  <1> DEFINE k == FloodKey(s)
             mine == OfKey(j.rows, k)
             theirs == OfKey(stored, k)
  <1>1. /\ mine = {x \in RowsIn(j.rows) : FloodKey(x) = k}
        /\ mine = {} => Latest(mine) = Nil
        /\ mine # {} => /\ Latest(mine) \in Nat /\ Latest(mine) # Nil
                        /\ \E x \in mine : x.ts = Latest(mine)
                        /\ \A x \in mine : x.ts <= Latest(mine)
    BY LatestIs
  <1>2. /\ theirs = {x \in RowsIn(stored) : FloodKey(x) = k}
        /\ theirs = {} => Latest(theirs) = Nil
        /\ theirs # {} => /\ Latest(theirs) \in Nat /\ Latest(theirs) # Nil
                          /\ \E x \in theirs : x.ts = Latest(theirs)
                          /\ \A x \in theirs : x.ts <= Latest(theirs)
    BY LatestIs
  <1>3. Threshold(j, s) = IF mine # {} THEN Latest(mine) ELSE Latest(theirs)
    BY DEF Threshold
  <1>4. \A x : FloodKey(x) = k => x.provider = s.provider /\ x.kind = s.kind
    BY DEF FloodKey
  <1>5. Interval \in Nat /\ \A x \in LimitRows : x.ts \in Nat
    BY ClockFacts
  <1>6. RowsIn(j.rows) \subseteq LimitRows /\ RowsIn(stored) \subseteq LimitRows
    BY RowSeqs
  <1> HIDE DEF mine, theirs, k
  <1>7. ASSUME FloodLimited(j, s)
        PROVE  \E x \in RowsIn(stored) \union RowsIn(j.rows) : StandsFor(x, s)
    <2>1. /\ Interval > 0 /\ Threshold(j, s) # Nil
          /\ s.ts - Threshold(j, s) < Interval
      BY <1>7 DEF FloodLimited
    <2>2. \E x \in mine \union theirs : x.ts = Threshold(j, s)
      BY <1>1, <1>2, <1>3, <2>1
    <2> QED BY <1>1, <1>2, <1>4, <2>1, <2>2 DEF StandsFor
  <1>8. ASSUME ~ FloodLimited(j, s), Interval > 0,
               \A x \in RowsIn(stored), y \in RowsIn(j.rows) : Apart(x, y),
               NEW x \in RowsIn(stored) \union RowsIn(j.rows), FloodKey(x) = k
        PROVE  s.ts - x.ts >= Interval
    <2>0. x \in mine \union theirs
      BY <1>1, <1>2, <1>8
    <2>1. Threshold(j, s) = Nil \/ s.ts - Threshold(j, s) >= Interval
      <3>1. Threshold(j, s) = Nil \/ Threshold(j, s) \in Nat
        BY <1>1, <1>2, <1>3
      <3> QED BY <1>5, <1>8, <3>1 DEF FloodLimited
    <2>2. CASE mine # {}
      <3>1. /\ Latest(mine) \in Nat /\ s.ts - Latest(mine) >= Interval
            /\ \A y \in mine : y.ts <= Latest(mine)
        BY <1>1, <1>3, <2>1, <2>2
      <3>2. CASE x \in mine
        <4>1. x.ts <= Latest(mine) /\ x.ts \in Nat /\ s.ts \in Nat
          BY <1>1, <1>5, <1>6, <3>1, <3>2
        <4> QED BY <1>5, <3>1, <4>1
      <3>3. CASE x \in theirs
        <4>1. PICK y \in mine : TRUE
          BY <2>2
        <4>2. /\ y \in RowsIn(j.rows) /\ FloodKey(y) = k /\ x \in RowsIn(stored)
              /\ y.ts \in Nat /\ x.ts \in Nat
          BY <1>1, <1>2, <1>5, <1>6, <3>3, <4>1
        <4>3. y.ts - x.ts >= Interval
          BY <1>8, <4>2 DEF Apart
        <4> QED BY <1>5, <3>1, <4>2, <4>3
      <3> QED BY <2>0, <3>2, <3>3
    <2>3. CASE mine = {}
      <3>1. /\ x \in theirs /\ Latest(theirs) \in Nat /\ s.ts - Latest(theirs) >= Interval
            /\ x.ts <= Latest(theirs)
        BY <1>2, <1>3, <2>0, <2>1, <2>3
      <3>2. x.ts \in Nat
        BY <1>2, <1>5, <1>6, <3>1
      <3> QED BY <1>5, <3>1, <3>2
    <2> QED BY <2>2, <2>3
  <1> QED BY <1>7, <1>8 DEF Apart, k

LEMMA JudgeKeeps ==
    ASSUME LimitsInv, NEW r \in Posts, Judge(r)
    PROVE  LimitsInv'
  <1> DEFINE j == judging[r]
             s == j.batch[j.next]
             snaps == IF FloodLimited(j, s) THEN j.rows ELSE Append(j.rows, s)
             new == judging'[r]
  <1>1. /\ Open(r) /\ j.next <= Len(j.batch)
        /\ judging' = [judging EXCEPT ![r].next = @ + 1, ![r].rows = snaps]
        /\ UNCHANGED <<now, queue, waiting, stored, answered, overlapped>>
    BY DEF Judge
  <1>2. /\ stored \in Seq(LimitRows) /\ j \in Judgings
        /\ j.batch \in Seq(LimitRows) /\ j.rows \in Seq(LimitRows)
        /\ j.next \in 1 .. Len(j.batch) + 1
        /\ judging = [q \in Posts |-> judging[q]]
    BY <1>1 DEF LimitsInv, LimitsTables, Judgings
  <1>3. /\ j.next \in 1 .. Len(j.batch) /\ s \in LimitRows
        /\ j.next + 1 \in 1 .. Len(j.batch) + 1 /\ j.next + 1 \in Nat
    BY <1>1, <1>2, RowSeqs
  <1>4. /\ judging' = [q \in Posts |-> judging'[q]]
        /\ new = [j EXCEPT !.next = @ + 1, !.rows = snaps]
        /\ \A q \in Posts : q # r => judging'[q] = judging[q]
    BY <1>1, <1>2
  <1>5. /\ snaps \in Seq(LimitRows)
        /\ RowsIn(snaps) = RowsIn(j.rows) \/ RowsIn(snaps) = RowsIn(j.rows) \union {s}
        /\ FloodLimited(j, s) => snaps = j.rows
        /\ ~ FloodLimited(j, s) =>
              /\ RowsIn(snaps) = RowsIn(j.rows) \union {s}
              /\ Spaced(j.rows) /\ (\A x \in RowsIn(j.rows) : Apart(x, s)) => Spaced(snaps)
    BY <1>2, <1>3, ItemsAppend
  <1> HIDE DEF snaps
  <1>6. /\ new \in Judgings /\ new.batch = j.batch /\ new.next = j.next + 1 /\ new.rows = snaps
    BY <1>2, <1>3, <1>4, <1>5 DEF Judgings
  <1>7. /\ FloodLimited(j, s) => \E x \in RowsIn(stored) \union RowsIn(j.rows) : StandsFor(x, s)
        /\ ~ FloodLimited(j, s) /\ Interval > 0
              /\ (\A x \in RowsIn(stored), y \in RowsIn(j.rows) : Apart(x, y))
              => \A x \in RowsIn(stored) \union RowsIn(j.rows) : Apart(x, s)
    BY <1>2, <1>3, FloodLimits
  <1>8. \E x \in RowsIn(stored) \union RowsIn(snaps) : StandsFor(x, s)
    <2>1. CASE FloodLimited(j, s)
      BY <1>5, <1>7, <2>1
    <2>2. CASE ~ FloodLimited(j, s)
      <3>1. s.ts \in Nat
        BY <1>3, ClockFacts
      <3>2. StandsFor(s, s) /\ s \in RowsIn(snaps)
        BY <1>5, <2>2, <3>1 DEF StandsFor
      <3> QED BY <3>2
    <2> QED BY <2>1, <2>2
  <1> HIDE DEF s, j, new
  <1>9. LimitsTables'
    <2>1. new \in Judgings /\ new.next \in 1 .. Len(new.batch) + 1
      BY <1>3, <1>6
    <2> QED BY <1>1, <1>4, <2>1 DEF LimitsInv, LimitsTables, Open, new
  <1>10. NothingForgotten'
    <2>1. ASSUME NEW k \in 1 .. new.next - 1
          PROVE  \E x \in RowsIn(stored) \union RowsIn(new.rows) : StandsFor(x, new.batch[k])
      <3>1. CASE k = j.next
        BY <1>6, <1>8, <3>1 DEF s
      <3>2. CASE k \in 1 .. j.next - 1
        <4>1. \E x \in RowsIn(stored) \union RowsIn(j.rows) : StandsFor(x, j.batch[k])
          BY <1>1, <3>2 DEF LimitsInv, NothingForgotten, j
        <4> QED BY <1>5, <1>6, <4>1
      <3>3. k = j.next \/ k \in 1 .. j.next - 1
        BY <1>3, <1>6
      <3> QED BY <3>1, <3>2, <3>3
    <2>2. \A q \in Posts : judging'[q] # Nil =>
             \A k \in 1 .. judging'[q].next - 1 :
                \E x \in RowsIn(stored) \union RowsIn(judging'[q].rows) :
                    StandsFor(x, judging'[q].batch[k])
      BY <1>4, <2>1 DEF LimitsInv, NothingForgotten, Open, new
    <2> QED BY <1>1, <2>2 DEF LimitsInv, NothingForgotten, Open
  <1>11. OneAtATime'
    <2> SUFFICES ASSUME ~ overlapped, Interval > 0
                 PROVE  /\ \A p, q \in Posts : judging'[p] # Nil /\ judging'[q] # Nil => p = q
                        /\ Spaced(stored)
                        /\ \A q \in Posts : judging'[q] # Nil =>
                              /\ Spaced(judging'[q].rows)
                              /\ \A x \in RowsIn(stored), y \in RowsIn(judging'[q].rows) :
                                    Apart(x, y)
      BY <1>1 DEF OneAtATime, Open
    <2>1. /\ \A p, q \in Posts : Open(p) /\ Open(q) => p = q
          /\ Spaced(stored) /\ Spaced(j.rows)
          /\ \A x \in RowsIn(stored), y \in RowsIn(j.rows) : Apart(x, y)
      BY <1>1 DEF LimitsInv, OneAtATime, j
    <2>2. /\ Spaced(snaps)
          /\ \A x \in RowsIn(stored), y \in RowsIn(snaps) : Apart(x, y)
      <3>1. CASE FloodLimited(j, s)
        BY <1>5, <2>1, <3>1
      <3>2. CASE ~ FloodLimited(j, s)
        BY <1>5, <1>7, <2>1, <3>2
      <3> QED BY <3>1, <3>2
    <2>3. \A q \in Posts : judging'[q] # Nil => q = r
      BY <1>1, <1>4, <2>1 DEF Open
    <2> QED BY <1>6, <2>1, <2>2, <2>3 DEF new
  <1> QED BY <1>9, <1>10, <1>11 DEF LimitsInv

LEMMA CommitLimitsKeeps ==
    ASSUME LimitsInv, NEW r \in Posts, Commit(r)
    PROVE  LimitsInv'
  <1> DEFINE j == judging[r]
  <1>1. /\ Open(r) /\ j.next > Len(j.batch)
        /\ stored' = stored \o j.rows
        /\ answered' = answered \union {j.batch[i] : i \in DOMAIN j.batch}
        /\ judging' = [judging EXCEPT ![r] = Nil]
        /\ queue' = queue \/ (waiting = r /\ queue' = Tail(queue))
        /\ waiting' = IF waiting = r THEN Nil ELSE waiting
        /\ waiting # r => queue' = queue
        /\ UNCHANGED <<now, overlapped>>
    BY DEF Commit, Judged
  <1>2. /\ stored \in Seq(LimitRows) /\ j \in Judgings
        /\ j.batch \in Seq(LimitRows) /\ j.rows \in Seq(LimitRows)
        /\ j.next \in 1 .. Len(j.batch) + 1
        /\ judging = [q \in Posts |-> judging[q]]
    BY <1>1 DEF LimitsInv, LimitsTables, Judgings
  <1>3. /\ judging' = [q \in Posts |-> judging'[q]]
        /\ judging'[r] = Nil /\ \A q \in Posts : q # r => judging'[q] = judging[q]
    BY <1>1, <1>2
  <1>4. /\ stored' \in Seq(LimitRows)
        /\ RowsIn(stored') = RowsIn(stored) \union RowsIn(j.rows)
        /\ Spaced(stored) /\ Spaced(j.rows)
              /\ (\A x \in RowsIn(stored), y \in RowsIn(j.rows) : Apart(x, y)) => Spaced(stored')
    BY <1>1, <1>2, ItemsJoined
  <1>5. queue' \in Seq(Seq(LimitRows)) /\ (waiting' # Nil => queue' # <<>>)
    <2> DEFINE S == Seq(LimitRows)
    <2>1. queue \in Seq(S) /\ (waiting # Nil => queue # <<>>) /\ r # Nil
      BY ClockFacts DEF LimitsInv, LimitsTables
    <2> HIDE DEF S
    <2>2. waiting = r => Tail(queue) \in Seq(S)
      BY <2>1
    <2>3. queue' \in Seq(S) /\ (waiting' # Nil => queue' # <<>>)
      BY <1>1, <2>1, <2>2
    <2> QED BY <2>3 DEF S
  <1>6. {j.batch[i] : i \in DOMAIN j.batch} \subseteq LimitRows
    BY <1>2
  <1>7. LimitsTables'
    BY <1>1, <1>3, <1>4, <1>5, <1>6 DEF LimitsInv, LimitsTables, Open
  <1> HIDE DEF j
  <1>8. NothingForgotten'
    <2>1. ASSUME NEW s \in answered' PROVE \E x \in RowsIn(stored') : StandsFor(x, s)
      <3>1. CASE s \in answered
        BY <1>4, <3>1 DEF LimitsInv, NothingForgotten
      <3>2. ASSUME NEW i \in DOMAIN j.batch, s = j.batch[i]
            PROVE  \E x \in RowsIn(stored') : StandsFor(x, s)
        <4>1. i \in 1 .. j.next - 1
          BY <1>1, <1>2, RowSeqs
        <4> QED BY <1>1, <1>4, <3>2, <4>1 DEF LimitsInv, NothingForgotten, j
      <3> QED BY <1>1, <3>1, <3>2
    <2>2. \A q \in Posts : judging'[q] # Nil =>
             \A k \in 1 .. judging'[q].next - 1 :
                \E x \in RowsIn(stored') \union RowsIn(judging'[q].rows) :
                    StandsFor(x, judging'[q].batch[k])
      BY <1>3, <1>4 DEF LimitsInv, NothingForgotten, Open
    <2> QED BY <2>1, <2>2 DEF NothingForgotten, Open
  <1>9. OneAtATime'
    BY <1>1, <1>3, <1>4 DEF LimitsInv, OneAtATime, Open, j
  <1> QED BY <1>7, <1>8, <1>9 DEF LimitsInv

LEMMA LimitsStep == LimitsInv /\ [LimitsNext]_limitsVars => LimitsInv'
  <1> SUFFICES ASSUME LimitsInv, [LimitsNext]_limitsVars PROVE LimitsInv'
    OBVIOUS
  <1>1. CASE Tick \/ TimeOut \/ UNCHANGED limitsVars
    BY <1>1, IdleKeeps
  <1>2. ASSUME NEW p, NEW account \in Accounts \union {Nil},
               NEW answer \in [WindowsOf(p) -> Readings \union {Nil}], Poll(p, answer, account)
        PROVE  LimitsInv'
    BY <1>2, PollKeeps
  <1>3. ASSUME NEW r \in Posts, Send(r) PROVE LimitsInv'
    BY <1>3, SendKeeps
  <1>4. ASSUME NEW r \in Posts, Judge(r) PROVE LimitsInv'
    BY <1>4, JudgeKeeps
  <1>5. ASSUME NEW r \in Posts, Commit(r) PROVE LimitsInv'
    BY <1>5, CommitLimitsKeeps
  <1>6. ASSUME NEW r \in Posts, Fail(r) PROVE LimitsInv'
    BY <1>6, FailKeeps
  <1>7. ASSUME NEW r \in Posts, NEW batch \in GatewayBatches, GatewaySends(r, batch)
        PROVE  LimitsInv'
    BY <1>7, GatewayKeeps
  <1> QED BY <1>1, <1>2, <1>3, <1>4, <1>5, <1>6, <1>7 DEF LimitsNext

(* Of a window that has a row, what is current is as new as any of them.   *)
LEMMA CurrentIs ==
    ASSUME LimitsTables, NEW n \in DOMAIN stored
    PROVE  \E i \in Current : SameWindow(i, n) /\ stored[n].ts <= stored[i].ts
  <1> DEFINE S == {i \in DOMAIN stored : SameWindow(i, n)}
             ts == [i \in DOMAIN stored |-> stored[i].ts]
             times == {ts[i] : i \in S}
  <1>1. /\ DOMAIN stored = 1 .. Len(stored) /\ Len(stored) \in Nat
        /\ \A i \in DOMAIN stored : stored[i].ts \in Nat
    BY RowSeqs, ClockFacts DEF LimitsTables
  <1>2. S \in SUBSET (1 .. Len(stored)) /\ n \in S /\ \A i \in S : ts[i] = stored[i].ts
    BY <1>1 DEF SameWindow
  <1>3. \A i \in S : ts[i] \in Int
    BY <1>1, <1>2
  <1>4. \A i \in S, k \in DOMAIN stored : SameWindow(i, k) => k \in S
    BY DEF SameWindow
  <1> HIDE DEF S, ts
  <1>5. IsFiniteSet(S)
    BY <1>1, <1>2, LastPlace
  <1>6. times \subseteq Int /\ times # {} /\ IsFiniteSet(times) /\ \A i \in S : ts[i] \in times
    BY <1>2, <1>3, <1>5, ImageIsFinite
  <1>7. PICK i \in S : \A k \in S : ts[k] <= ts[i]
    <2>1. Max(times) \in times /\ \A t \in times : t <= Max(times)
      <3> HIDE DEF times
      <3> QED BY <1>6, Extremes
    <2> QED BY <1>6, <2>1
  <1>8. i \in Current
    BY <1>1, <1>2, <1>4, <1>7 DEF Current
  <1>9. SameWindow(i, n)
    BY DEF S
  <1> QED BY <1>2, <1>7, <1>8, <1>9

LEMMA FloodControlIsKept == LimitsInv => FloodControlHolds
  <1> SUFFICES ASSUME LimitsInv PROVE FloodControlHolds
    OBVIOUS
  <1>1. ShownIsFresh
    <2> SUFFICES ASSUME NEW s \in answered
                 PROVE  \E i \in Current :
                           /\ stored[i].provider = s.provider /\ stored[i].kind = s.kind
                           /\ \/ stored[i].ts >= s.ts
                              \/ Interval > 0 /\ s.ts - stored[i].ts < Interval
      BY DEF ShownIsFresh
    <2>1. PICK n \in DOMAIN stored : StandsFor(stored[n], s)
      BY DEF LimitsInv, NothingForgotten, RowsIn
    <2>2. PICK i \in Current : SameWindow(i, n) /\ stored[n].ts <= stored[i].ts
      BY CurrentIs DEF LimitsInv
    <2>3. /\ stored[i].ts \in Nat /\ stored[n].ts \in Nat /\ s.ts \in Nat /\ Interval \in Nat
      BY RowSeqs, ClockFacts DEF LimitsInv, LimitsTables, Current
    <2> QED BY <2>1, <2>2, <2>3 DEF StandsFor, SameWindow
  <1>2. OneInAnInterval
    BY DEF LimitsInv, OneAtATime, OneInAnInterval, Spaced, Apart
  <1> QED BY <1>1, <1>2 DEF FloodControlHolds

-----------------------------------------------------------------------------
(* What is shown of the limits.                                            *)

LEMMA WholePeriods ==
    ASSUME NEW x \in Int, NEW p \in Nat \ {0}
    PROVE  /\ x \div p \in Int /\ p * (x \div p) <= x /\ x < p * (x \div p) + p
           /\ \A n \in Int : p * n <= x /\ x < p * n + p => x \div p = n
  OBVIOUS

LEMMA EvenlyDivided ==
    ASSUME NEW k \in Int, NEW p \in Nat \ {0}
    PROVE  (k * p) % p = 0
  OBVIOUS

LEMMA SameMultiple ==
    ASSUME NEW k \in Int, NEW n \in Int, NEW p \in Nat \ {0}, k * p = n * p
    PROVE  k = n
  OBVIOUS

(* A reset in the past moves to the first whole period ahead.              *)
LEMMA RolledAhead ==
    ASSUME NEW resets \in Nat, NEW p \in Nat \ {0}, NEW t \in Nat, resets <= t
    PROVE  /\ RolledBy(resets, p, t) > t /\ RolledBy(resets, p, t) <= t + p
           /\ (RolledBy(resets, p, t) - resets) % p = 0
  <1> DEFINE x == t - resets
             d == x \div p
             k == d + 1
  <1>1. d \in Int /\ p * d <= x /\ x < p * d + p
    BY WholePeriods
  <1>2. RolledBy(resets, p, t) = resets + k * p
    BY DEF RolledBy
  <1> HIDE DEF d
  <1>3. k * p = p * d + p /\ k * p \in Int /\ k \in Int
    BY <1>1
  <1> DEFINE m == k * p
  <1>4. m % p = 0
    BY <1>3, EvenlyDivided
  <1>5. m \in Int /\ m > x /\ m <= x + p /\ RolledBy(resets, p, t) = resets + m
    BY <1>1, <1>2, <1>3
  <1> HIDE DEF m
  <1>6. resets + m > t /\ resets + m <= t + p /\ resets + m - resets = m
    BY <1>5
  <1> QED BY <1>4, <1>5, <1>6

LEMMA ResetsAhead == LimitsTables => ResetsAreAhead
  <1> SUFFICES ASSUME LimitsTables, NEW i \in Current,
                      stored[i].resets # Nil, Period(stored[i].kind) # Nil
               PROVE  LET row == stored[i]
                          shown == RollForward(row.kind, row.resets, now)
                      IN  /\ shown > now
                          /\ shown # row.resets => shown <= now + Period(row.kind)
                          /\ (shown - row.resets) % Period(row.kind) = 0
    BY DEF ResetsAreAhead
  <1> DEFINE resets == stored[i].resets
             p == Period(stored[i].kind)
             shown == RollForward(stored[i].kind, resets, now)
  <1>1. /\ now \in Nat /\ resets \in Nat /\ resets # Nil /\ p # Nil
    BY RowSeqs, ClockFacts DEF LimitsTables, Current
  <1>2. p \in Nat \ {0}
    BY <1>1, ClockFacts DEF Period
  <1>3. shown = IF resets > now THEN resets ELSE RolledBy(resets, p, now)
    BY <1>1 DEF RollForward
  <1> HIDE DEF resets, p, shown
  <1>4. CASE resets > now
    <2>1. shown = resets /\ shown - resets = 0 * p
      BY <1>1, <1>2, <1>3, <1>4
    <2>2. (0 * p) % p = 0
      BY <1>2, EvenlyDivided
    <2> QED BY <1>4, <2>1, <2>2 DEF resets, p, shown
  <1>5. CASE ~ (resets > now)
    <2>1. resets <= now
      BY <1>1, <1>5
    <2>2. /\ RolledBy(resets, p, now) > now /\ RolledBy(resets, p, now) <= now + p
          /\ (RolledBy(resets, p, now) - resets) % p = 0
      BY <1>1, <1>2, <2>1, RolledAhead
    <2> QED BY <1>3, <1>5, <2>2 DEF resets, p, shown
  <1> QED BY <1>4, <1>5

(* The first and the last row, by time and then by id.                     *)
LEMMA EndsOf ==
    ASSUME LimitsTables, NEW is \in SUBSET DOMAIN stored, is # {}
    PROVE  /\ FirstOf(is) \in is /\ \A j \in is : stored[FirstOf(is)].ts <= stored[j].ts
           /\ LastOf(is) \in is /\ \A j \in is : stored[j].ts <= stored[LastOf(is)].ts
           /\ IsFiniteSet(is)
  <1>1. /\ DOMAIN stored = 1 .. Len(stored) /\ Len(stored) \in Nat
        /\ \A i \in DOMAIN stored : stored[i].ts \in Nat
    BY RowSeqs, ClockFacts DEF LimitsTables
  <1>2. IsFiniteSet(is) /\ \A i \in is : i \in Nat /\ stored[i].ts \in Nat
    BY <1>1, LastPlace
  <1>3. \A i, j \in is : i # j => Before(i, j) \/ Before(j, i)
    BY <1>2 DEF Before
  <1>4. /\ \A i \in is : ~ Before(i, i)
        /\ \A i, j, k \in is : Before(i, j) /\ Before(j, k) => Before(i, k)
    BY <1>2 DEF Before
  <1>5. \A i, j \in is : Before(i, j) => stored[i].ts <= stored[j].ts
    BY <1>2 DEF Before
  <1>6. \E i \in is : \A j \in is \ {i} : Before(i, j)
    <2> DEFINE R == {e \in is \X is : Before(e[1], e[2])}
    <2>1. \A i, j \in is : <<i, j>> \in R <=> Before(i, j)
      OBVIOUS
    <2> HIDE DEF R
    <2>2. /\ \A i \in is : <<i, i>> \notin R
          /\ \A i, j, k \in is : <<i, j>> \in R /\ <<j, k>> \in R => <<i, k>> \in R
      BY <1>4, <2>1
    <2>3. PICK i \in is : \A j \in is : <<j, i>> \notin R
      BY <1>2, <2>2, LeastElement
    <2> QED BY <1>3, <2>1, <2>3
  <1>7. \E i \in is : \A j \in is \ {i} : Before(j, i)
    <2> DEFINE R == {e \in is \X is : Before(e[2], e[1])}
    <2>1. \A i, j \in is : <<i, j>> \in R <=> Before(j, i)
      OBVIOUS
    <2> HIDE DEF R
    <2>2. /\ \A i \in is : <<i, i>> \notin R
          /\ \A i, j, k \in is : <<i, j>> \in R /\ <<j, k>> \in R => <<i, k>> \in R
      BY <1>4, <2>1
    <2>3. PICK i \in is : \A j \in is : <<j, i>> \notin R
      BY <1>2, <2>2, LeastElement
    <2> QED BY <1>3, <2>1, <2>3
  <1>8. FirstOf(is) \in is /\ \A j \in is \ {FirstOf(is)} : Before(FirstOf(is), j)
    BY <1>6 DEF FirstOf
  <1>9. LastOf(is) \in is /\ \A j \in is \ {LastOf(is)} : Before(j, LastOf(is))
    BY <1>7 DEF LastOf
  <1>10. \A j \in is : stored[FirstOf(is)].ts <= stored[j].ts
    BY <1>2, <1>5, <1>8
  <1>11. \A j \in is : stored[j].ts <= stored[LastOf(is)].ts
    BY <1>2, <1>5, <1>9
  <1> QED BY <1>2, <1>8, <1>9, <1>10, <1>11

LEMMA ExhaustedIs ==
    ASSUME NEW first \in LimitRows, NEW last \in LimitRows, Exhausted(first, last) # Nil
    PROVE  /\ Exhausted(first, last) \in Nat /\ last.ts <= Exhausted(first, last)
           /\ first.ts < last.ts /\ first.pct < last.pct
  <1> DEFINE a == 100 - last.pct
             b == last.ts - first.ts
             c == last.pct - first.pct
             q == (a * b) \div c
  <1>1. /\ Rises(first, last)
        /\ Exhausted(first, last) = last.ts + q
    BY DEF Exhausted
  <1>2. /\ first.ts \in Nat /\ last.ts \in Nat /\ first.pct \in 0 .. 100 /\ last.pct \in 0 .. 100
    BY ClockFacts
  <1>3. /\ a \in Nat /\ b \in Nat /\ c \in Nat \ {0}
        /\ first.ts < last.ts /\ first.pct < last.pct
    <2>1. last.ts > first.ts /\ last.pct > first.pct /\ last.pct < 100
      BY <1>1 DEF Rises
    <2> HIDE DEF q
    <2>2. \A x, y \in Nat, u, v \in 0 .. 100 : x > y /\ u > v /\ u < 100 =>
             100 - u \in Nat /\ x - y \in Nat /\ u - v \in Nat \ {0} /\ y < x /\ v < u
      OBVIOUS
    <2> QED BY <1>2, <2>1, <2>2
  <1> HIDE DEF a, b, c
  <1>4. q \in Nat
    <2> DEFINE x == a * b
    <2>1. x \in Nat
      BY <1>3
    <2> HIDE DEF x
    <2>2. x \div c \in Nat
      BY <1>3, <2>1
    <2> QED BY <2>2 DEF x
  <1> HIDE DEF q
  <1> QED BY <1>1, <1>2, <1>3, <1>4

LEMMA PredictionIsAhead == LimitsTables => PredictionFollows
  <1> SUFFICES ASSUME LimitsTables, NEW w \in Windows, Prediction(w[2]) # Nil,
                      NEW i \in OfKind(w[2], InRange(now - Lookback, now))
               PROVE  stored[i].ts <= Prediction(w[2])
    BY DEF PredictionFollows
  <1> DEFINE is == OfKind(w[2], InRange(now - Lookback, now))
             first == stored[FirstOf(is)]
             last == stored[LastOf(is)]
  <1>1. is \in SUBSET DOMAIN stored /\ is # {}
    BY DEF OfKind, InRange
  <1>2. Prediction(w[2]) = Exhausted(first, last)
    BY DEF Prediction
  <1> HIDE DEF is
  <1>3. /\ FirstOf(is) \in is /\ LastOf(is) \in is
        /\ \A j \in is : stored[j].ts <= last.ts
    BY <1>1, EndsOf
  <1>4. \A j \in DOMAIN stored : stored[j] \in LimitRows
    BY RowSeqs DEF LimitsTables
  <1>5. first \in LimitRows /\ last \in LimitRows
    BY <1>1, <1>3, <1>4
  <1> HIDE DEF first, last
  <1>6. Exhausted(first, last) \in Nat /\ last.ts <= Exhausted(first, last)
    BY <1>2, <1>5, ExhaustedIs
  <1>7. stored[i].ts <= last.ts /\ stored[i].ts \in Nat /\ last.ts \in Nat
    BY <1>1, <1>3, <1>4, <1>5, ClockFacts DEF is
  <1> QED BY <1>2, <1>6, <1>7

LEMMA ForecastsAreApart == LimitsTables => ForecastsApart
  <1> SUFFICES ASSUME LimitsTables, NEW i \in InRange(0, now)
               PROVE  LET is == InRange(0, now)
                          own == {j \in is : /\ SameWindow(i, j)
                                             /\ stored[j].account = stored[i].account
                                             /\ stored[j].source = stored[i].source}
                          forecast == Forecasts(is)[StreamKey(stored[i])]
                      IN  forecast.at # Nil =>
                            /\ \E j, l \in own : /\ stored[j].ts < stored[l].ts
                                                 /\ stored[j].pct < stored[l].pct
                            /\ \A j \in own : stored[j].ts <= forecast.at
                            /\ forecast.confidence = "available"
    BY DEF ForecastsApart
  <1> DEFINE is == InRange(0, now)
             own == {j \in is : /\ SameWindow(i, j)
                                /\ stored[j].account = stored[i].account
                                /\ stored[j].source = stored[i].source}
             first == stored[FirstOf(own)]
             last == stored[LastOf(own)]
             forecast == Forecasts(is)[StreamKey(stored[i])]
  <1>1. own = {j \in is : StreamKey(stored[j]) = StreamKey(stored[i])}
    BY DEF StreamKey, SameWindow
  <1>2. StreamKey(stored[i]) \in Streams(is)
    BY DEF Streams
  <1>3. forecast = Forecast(own)
    BY <1>1, <1>2 DEF Forecasts
  <1>4. i \in own /\ own \in SUBSET DOMAIN stored
    BY DEF InRange, SameWindow
  <1> SUFFICES ASSUME forecast.at # Nil
               PROVE  /\ \E j, l \in own : /\ stored[j].ts < stored[l].ts
                                           /\ stored[j].pct < stored[l].pct
                      /\ \A j \in own : stored[j].ts <= forecast.at
                      /\ forecast.confidence = "available"
    OBVIOUS
  <1> HIDE DEF own, forecast
  <1>5. /\ FirstOf(own) \in own /\ LastOf(own) \in own /\ IsFiniteSet(own)
        /\ \A j \in own : stored[j].ts <= last.ts
    BY <1>4, EndsOf
  <1>6. \A j \in DOMAIN stored : stored[j] \in LimitRows
    BY RowSeqs DEF LimitsTables
  <1>7. first \in LimitRows /\ last \in LimitRows
    BY <1>4, <1>5, <1>6
  <1>8. /\ forecast.at = Exhausted(first, last)
        /\ forecast.confidence = IF Cardinality(own) < 2 \/ first.ts = last.ts
                                 THEN "unavailable" ELSE "available"
    BY <1>3 DEF Forecast
  <1>9. /\ forecast.at \in Nat /\ last.ts <= forecast.at
        /\ first.ts < last.ts /\ first.pct < last.pct
    BY <1>7, <1>8, ExhaustedIs
  <1>10. \A j \in own : stored[j].ts \in Nat /\ last.ts \in Nat /\ first.ts \in Nat
    BY <1>4, <1>6, <1>7, ClockFacts
  <1>11. \A j \in own : stored[j].ts <= forecast.at
    BY <1>5, <1>9, <1>10
  <1>12. Cardinality(own) >= 2 /\ first.ts # last.ts
    <2>1. first.ts # last.ts /\ FirstOf(own) # LastOf(own)
      BY <1>5, <1>9, <1>10
    <2> DEFINE a == FirstOf(own)
               b == LastOf(own)
    <2>2. {a} \union {b} \in SUBSET own /\ Cardinality({a} \union {b}) = 2
      <3>1. a \in own /\ b \in own /\ a # b
        BY <1>5, <2>1
      <3> HIDE DEF a, b
      <3>2. IsFiniteSet({a}) /\ Cardinality({a}) = 1 /\ b \notin {a}
        BY <3>1, FS_Singleton
      <3> QED BY <3>1, <3>2, FS_AddElement
    <2>3. Cardinality({a} \union {b}) <= Cardinality(own) /\ Cardinality(own) \in Nat
      BY <1>5, <2>2, FS_Subset, FS_CardinalityType
    <2> QED BY <2>1, <2>2, <2>3
  <1>13. forecast.confidence = "available"
    <2>1. Cardinality(own) \in Nat
      BY <1>5, FS_CardinalityType
    <2>2. ~ (Cardinality(own) < 2 \/ first.ts = last.ts)
      BY <1>12, <2>1
    <2> QED BY <1>8, <2>2
  <1>14. \E j, l \in own : stored[j].ts < stored[l].ts /\ stored[j].pct < stored[l].pct
    BY <1>5, <1>9
  <1> QED BY <1>11, <1>13, <1>14

-----------------------------------------------------------------------------
(* Blocks of usage.                                                        *)

(* The numbers and the blocks of a table's events.                         *)
LEMMA BlocksAre ==
    ASSUME LimitsTables, NEW usage \in EventTables, NEW anchor \in Nat
    PROVE  /\ \A n \in Int : anchor + n * Block \in Int
           /\ \A n, k \in Int : anchor + n * Block = anchor + k * Block => n = k
           /\ \A t \in With(usage) : BlockOf(t, anchor) \in Int
           /\ \A t \in With(usage), n \in Int : BlockOf(t, anchor) = n <=>
                 t \in (anchor + n * Block) .. (anchor + n * Block + Block - 1)
  <1>1. Block \in Nat \ {0}
    BY ClockFacts
  <1>2. \A t \in With(usage) : t \in Nat
    BY ClockFacts DEF With, Times
  <1>3. \A n \in Int : n * Block \in Int /\ n * Block = Block * n
    BY <1>1
  <1>4. ASSUME NEW n \in Int, NEW k \in Int, anchor + n * Block = anchor + k * Block
        PROVE  n = k
    <2> DEFINE x == n * Block
               y == k * Block
    <2>1. x \in Int /\ y \in Int /\ anchor + x = anchor + y
      BY <1>3, <1>4
    <2> HIDE DEF x, y
    <2>2. x = y
      BY <2>1
    <2> QED BY <1>1, <2>2, SameMultiple DEF x, y
  <1>5. ASSUME NEW t \in With(usage)
        PROVE  /\ BlockOf(t, anchor) \in Int
               /\ \A n \in Int : BlockOf(t, anchor) = n <=>
                    t \in (anchor + n * Block) .. (anchor + n * Block + Block - 1)
    <2> DEFINE x == t - anchor
    <2>1. x \in Int /\ BlockOf(t, anchor) = x \div Block /\ t = anchor + x /\ t \in Nat
      BY <1>2 DEF BlockOf
    <2> HIDE DEF x
    <2>2. /\ x \div Block \in Int /\ Block * (x \div Block) <= x
          /\ x < Block * (x \div Block) + Block
          /\ \A n \in Int : Block * n <= x /\ x < Block * n + Block => x \div Block = n
      BY <1>1, <2>1, WholePeriods
    <2>3. ASSUME NEW n \in Int
          PROVE  x \div Block = n <=>
                   t \in (anchor + n * Block) .. (anchor + n * Block + Block - 1)
      <3> DEFINE m == n * Block
                 q == x \div Block
      <3>1. m \in Int /\ m = Block * n /\ q \in Int
        BY <1>3, <2>2
      <3>2. q = n => m <= x /\ x < m + Block
        BY <2>2, <3>1
      <3>3. m <= x /\ x < m + Block => q = n
        BY <2>2, <3>1
      <3> HIDE DEF m, q
      <3>4. m <= x /\ x < m + Block <=> t \in (anchor + m) .. (anchor + m + Block - 1)
        BY <1>1, <2>1, <3>1
      <3> QED BY <3>2, <3>3, <3>4 DEF m, q
    <2> QED BY <2>1, <2>2, <2>3
  <1> QED BY <1>3, <1>4, <1>5

(* The events of a table, and the sums over them.                          *)
LEMMA UsedIs ==
    ASSUME LimitsTables, NEW usage \in EventTables
    PROVE  /\ IsFiniteSet(Times) /\ IsFiniteSet(With(usage)) /\ With(usage) \in SUBSET Times
           /\ \A t \in Times : usage[t] \in Nat
           /\ Used(usage, With(usage)) = Used(usage, Times)
  <1>1. IsFiniteSet(Times) /\ With(usage) \in SUBSET Times
    BY ClockFacts, FS_Interval DEF Times, With
  <1>2. \A t \in Times : usage[t] \in Nat
    BY DEF EventTables
  <1>3. \A t \in Times \ With(usage) : usage[t] = 0
    BY <1>2 DEF With
  <1>4. Total(usage, With(usage)) = Total(usage, Times)
    BY <1>1, <1>2, <1>3, TotalSubset
  <1> QED BY <1>1, <1>2, <1>4, FS_Subset DEF Used

(* Whatever instant anchors the grid, its blocks partition the usage.      *)
LEMMA AnyAnchorPartitions ==
    ASSUME LimitsTables, NEW usage \in EventTables, NEW anchor \in Nat
    PROVE  Partition(usage, anchor)
  <1> DEFINE with == With(usage)
             start(n) == anchor + n * Block
             tokens(n) == Used(usage, {t \in with : BlockOf(t, anchor) = n})
             block(n) == [start |-> start(n), tokens |-> tokens(n)]
             bs == Blocks(usage, anchor)
             ns == {BlockOf(t, anchor) : t \in with}
  <1>1. /\ \A n \in Int : start(n) \in Int
        /\ \A n, k \in Int : start(n) = start(k) => n = k
        /\ \A t \in with : BlockOf(t, anchor) \in Int
        /\ \A t \in with, n \in Int : BlockOf(t, anchor) = n <=>
              t \in start(n) .. (start(n) + Block - 1)
    BY BlocksAre
  <1>2. bs = {block(n) : n \in ns}
    BY DEF Blocks
  <1>3. ns \subseteq Int /\ \A t \in with : BlockOf(t, anchor) \in ns
    BY <1>1
  <1>4. \A n : block(n).start = start(n) /\ block(n).tokens = tokens(n)
    OBVIOUS
  <1> HIDE DEF with, start, tokens, block, bs, ns
  <1>5. \A b \in bs : \E n \in Int : b = block(n)
    BY <1>2, <1>3
  <1>6. \A a, b \in bs : a.start = b.start => a = b
    BY <1>1, <1>4, <1>5
  <1>7. ASSUME NEW b \in bs
        PROVE  b.tokens = Used(usage, with \cap (b.start .. b.start + Block - 1))
    <2>1. PICK n \in Int : b = block(n)
      BY <1>5
    <2>2. {t \in with : BlockOf(t, anchor) = n} = with \cap (start(n) .. (start(n) + Block - 1))
      BY <1>1
    <2>3. tokens(n) = Used(usage, with \cap (start(n) .. (start(n) + Block - 1)))
      BY <2>2 DEF tokens
    <2>4. b.start = start(n) /\ b.tokens = tokens(n)
      BY <1>4, <2>1
    <2> QED BY <2>3, <2>4
  <1>8. Total([b \in bs |-> b.tokens], bs) = Used(usage, Times)
    <2> DEFINE h == [t \in with |-> block(BlockOf(t, anchor))]
               g == [b \in bs |-> b.tokens]
    <2>1. /\ IsFiniteSet(with) /\ with \in SUBSET Times /\ \A t \in Times : usage[t] \in Nat
          /\ Used(usage, with) = Used(usage, Times)
      BY UsedIs DEF with
    <2>2. \A t \in with : h[t] \in bs /\ h[t] = block(BlockOf(t, anchor))
      BY <1>2, <1>3
    <2>3. IsFiniteSet(bs)
      <3>1. bs = {h[t] : t \in with}
        BY <1>2 DEF ns
      <3> HIDE DEF h
      <3> QED BY <2>1, <3>1, ImageIsFinite
    <2>4. ASSUME NEW b \in bs
          PROVE  Total(usage, {t \in with : h[t] = b}) = g[b]
      <3>1. PICK n \in Int : b = block(n)
        BY <1>5
      <3>2. \A t \in with : h[t] = b <=> BlockOf(t, anchor) = n
        BY <1>1, <1>4, <2>2, <3>1
      <3>3. {t \in with : h[t] = b} = {t \in with : BlockOf(t, anchor) = n}
        BY <3>2
      <3>4. g[b] = tokens(n)
        BY <1>4, <3>1
      <3> QED BY <3>3, <3>4 DEF tokens, Used
    <2> HIDE DEF h, g
    <2>5. InGroups(with, usage, bs, h, g)
      BY <2>1, <2>2, <2>4 DEF InGroups
    <2>6. Total(usage, with) = Total(g, bs)
      BY <2>1, <2>3, <2>5, TotalOfGroups
    <2> QED BY <2>1, <2>6 DEF g, Used
  <1> QED BY <1>6, <1>7, <1>8 DEF Partition, bs, with

LEMMA BlocksArePartitions == LimitsTables => BlocksPartitionUsage
  <1> SUFFICES ASSUME LimitsTables PROVE BlocksPartitionUsage
    OBVIOUS
  <1>1. FirstEventIsSound
    <2> SUFFICES ASSUME NEW usage \in EventTables, With(usage) # {}
                 PROVE  Partition(usage, Min(With(usage)))
      BY DEF FirstEventIsSound
    <2>1. IsFiniteSet(With(usage)) /\ With(usage) \in SUBSET Times
      BY UsedIs
    <2>2. \A t \in With(usage) : t \in Nat
      BY <2>1, ClockFacts DEF Times
    <2>3. Min(With(usage)) \in With(usage)
      BY <2>1, <2>2, Extremes
    <2> QED BY <2>2, <2>3, AnyAnchorPartitions
  <1>2. LatestResets \subseteq SoundAnchors
    <2> SUFFICES ASSUME NEW anchor \in LatestResets PROVE anchor \in SoundAnchors
      OBVIOUS
    <2>1. PICK i \in DOMAIN stored : anchor = stored[i].resets /\ stored[i].resets # Nil
      BY DEF LatestResets
    <2>2. anchor \in Resets /\ anchor \in Nat
      BY <2>1, RowSeqs, ClockFacts DEF LimitsTables
    <2>3. \A usage \in EventTables : Partition(usage, anchor)
      BY <2>2, AnyAnchorPartitions
    <2> QED BY <2>2, <2>3 DEF SoundAnchors
  <1> QED BY <1>1, <1>2 DEF BlocksPartitionUsage

(* What the limits endpoints show follows from what was polled: flood       *)
(* control drops enough and not too much, however batches are lost, sent    *)
(* again and handled together, and the resets, predictions, forecasts and   *)
(* blocks derived from any table it leaves are sound                        *)
(* (services/ingest_v2_meta.py, analytics.py, limit_forecast.py).          *)
THEOREM LimitsAreSound == LimitsSpec => []LimitsSound
  <1>1. LimitsInv => LimitsSound
    BY FloodControlIsKept, ResetsAhead, PredictionIsAhead, ForecastsAreApart,
       BlocksArePartitions DEF LimitsInv, LimitsSound, ShownLimitsSound
  <1> QED BY <1>1, LimitsInitInv, LimitsStep, PTL DEF LimitsSpec
=============================================================================
