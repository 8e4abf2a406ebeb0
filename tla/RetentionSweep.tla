-------------------------- MODULE RetentionSweep --------------------------
(***************************************************************************)
(* The retention policy and the sweep of every category but the raw events *)
(* (services/retention.py, retention_worker.py, api/v2/retention.py):      *)
(* superseded states and corrections, which share one table; the rollups,  *)
(* by whole days; the archive of an earlier release, all at once; and a    *)
(* table that is swept by age (limits, batches, audit, alerts).  The raw   *)
(* events are in History.                                                  *)
(*                                                                         *)
(* A sweep reads the policy once, deletes category by category in one      *)
(* transaction, and keeps a status row of each; rows are added meanwhile.  *)
(***************************************************************************)
EXTENDS Integers, Sequences, FiniteSets, FiniteSetsExt, SequencesExt

CONSTANTS
    Items,          \* rows of the swept tables
    TableOf,        \* the table of each
    ReasonOf,       \* the reason a revision was archived for
    StampsOf,       \* the stamps each may have when it is added
    DayLength,      \* ticks of a day
    DefaultRules,   \* DEFAULT_RETENTION_POLICY
    Edits,          \* policies an admin may ask for: [rules, hold]
    BatchSize,      \* retention_worker_batch_size
    LastTick,       \* bound on the time
    MaxEdits,       \* bound on the changes of the policy
    Unset,          \* an indefinite duration, no sweep, no row yet
    Gone            \* a row that was deleted; ids are not used again

(* In the order of a sweep.  RETENTION_CATEGORIES.                         *)
Categories == <<"superseded", "rollups", "aged", "corrections", "archive">>
Swept      == {Categories[i] : i \in DOMAIN Categories}

(* A rule of a policy; the policies, with a rule for every category.       *)
Rule     == [days : Int \union {Unset}, enabled : BOOLEAN]
Policies == [rules : [Swept -> Rule], hold : BOOLEAN]

ASSUME RetentionAssumption ==
    /\ IsFiniteSet(Items)
    /\ DayLength \in Nat \ {0}
    /\ BatchSize \in Nat \ {0}
    /\ LastTick \in Nat
    /\ TableOf \in [Items -> {"revisions", "rollups", "aged", "archive"}]
    /\ StampsOf \in [Items -> SUBSET (0 .. LastTick)]
    /\ DefaultRules \in [Swept -> Rule]
    /\ \A p \in Edits : DOMAIN p.rules = Swept => p \in Policies
    /\ Unset \notin Int /\ Gone \notin Int /\ Unset # Gone

VARIABLES
    ticks,          \* the time
    rows,           \* the time stamp of each row, or Unset or Gone
    settings,       \* app_settings: the overrides of the policy, or Unset
    edits,          \* the number of changes of the policy
    status,         \* retention_status of each category
    retiring        \* the open sweep, or Unset

retentionVars == <<ticks, rows, settings, edits, status, retiring>>

-----------------------------------------------------------------------------
(* The policy.                                                             *)

(* validate_retention_policy, and the categories _from_body insists on.    *)
ValidPolicy(p) ==
    /\ DOMAIN p.rules = Swept
    /\ \A c \in Swept : p.rules[c].days = Unset \/ p.rules[c].days >= 1

(* resolve_retention_policy: the defaults under what is stored.            *)
Resolved ==
    IF settings = Unset THEN [rules |-> DefaultRules, hold |-> FALSE] ELSE settings

(* is_deletion_active.                                                     *)
DeletionActive(p, c) == ~ p.hold /\ p.rules[c].enabled /\ p.rules[c].days # Unset

-----------------------------------------------------------------------------
(* The categories.                                                         *)

(* Mutant: the revisions are not split by their reason. *)
AnyRevision(c) ==
    {i \in Items : TableOf[i] = IF c \in {"superseded", "corrections"} THEN "revisions" ELSE c}

InCategory(c) ==
    {i \in Items :
        CASE c = "superseded"  -> TableOf[i] = "revisions" /\ ReasonOf[i] # "correction"
          [] c = "corrections" -> TableOf[i] = "revisions" /\ ReasonOf[i] = "correction"
          [] OTHER             -> TableOf[i] = c}

DayStart(tick) == tick - (tick % DayLength)

(* A rollup is stamped with its day, and kept if the cutoff is on that day. *)
Horizon(c, cutoff) == IF c = "rollups" THEN DayStart(cutoff) ELSE cutoff

Eligible(table, c, cutoff) ==
    {i \in InCategory(c) : table[i] \notin {Unset, Gone} /\ table[i] < Horizon(c, cutoff)}

IsOldest(table, batch, eligible) ==
    \A i \in batch, j \in eligible \ batch : table[i] <= table[j]

(* The batches that may be deleted: oldest first, rows of one time in any  *)
(* order; the archive has no bound.                                        *)
DeletionBatches(table, c, cutoff) ==
    LET eligible == Eligible(table, c, cutoff)
        count == IF c = "archive" THEN Cardinality(eligible)
                 ELSE Min({BatchSize, Cardinality(eligible)})
    IN  {b \in SUBSET eligible : Cardinality(b) = count /\ IsOldest(table, b, eligible)}

Oldest(table, c) ==
    LET left == {table[i] : i \in {j \in InCategory(c) : table[j] \notin {Unset, Gone}}}
    IN  IF left = {} THEN Unset ELSE Min(left)

NoStatus == [ran |-> FALSE, last |-> 0, total |-> 0, backlog |-> 0, oldest |-> Unset]

(* Mutant: the total starts again with every sweep. *)
StatusOfSweep(old, deleted, backlog, oldest) ==
    [ran |-> TRUE, last |-> deleted, total |-> deleted, backlog |-> backlog, oldest |-> oldest]

(* _record_status.                                                         *)
StatusAfter(old, deleted, backlog, oldest) ==
    [ran |-> TRUE, last |-> deleted, total |-> old.total + deleted,
     backlog |-> backlog, oldest |-> oldest]

-----------------------------------------------------------------------------
RetentionInit ==
    /\ ticks = 0
    /\ rows = [i \in Items |-> Unset]
    /\ settings = Unset
    /\ edits = 0
    /\ status = [c \in Swept |-> NoStatus]
    /\ retiring = Unset

(* Another part of the server adds a row, stamped now; a rollup with the   *)
(* day of its events, which may be an earlier one.                         *)
AddRow(i, at) ==
    /\ rows[i] = Unset
    /\ IF TableOf[i] = "rollups" THEN at <= ticks /\ at = DayStart(at) ELSE at = ticks
    /\ rows' = [rows EXCEPT ![i] = at]
    /\ UNCHANGED <<ticks, settings, edits, status, retiring>>

(* put_retention_policy; a policy that is refused writes nothing.          *)
PutPolicy(p) ==
    /\ edits < MaxEdits
    /\ settings' = IF ValidPolicy(p) THEN p ELSE settings
    /\ edits' = edits + 1
    /\ UNCHANGED <<ticks, rows, status, retiring>>

(* _retention_loop: the policy, then the time.                             *)
RetireStart ==
    /\ retiring = Unset
    /\ retiring' = [policy |-> Resolved, now |-> ticks, next |-> 1,
                    deleted |-> {}, status |-> status]
    /\ UNCHANGED <<ticks, rows, settings, edits, status>>

(* What the sweep sees: what is committed, without what it deleted.        *)
Visible == [i \in Items |-> IF i \in retiring.deleted THEN Gone ELSE rows[i]]

RetireCategory ==
    /\ retiring # Unset
    /\ retiring.next <= Len(Categories)
    /\ LET c == Categories[retiring.next]
           cutoff == retiring.now - retiring.policy.rules[c].days * DayLength
       IN  IF ~ DeletionActive(retiring.policy, c)
           THEN retiring' = [retiring EXCEPT !.next = @ + 1]
           ELSE \E batch \in DeletionBatches(Visible, c, cutoff) :
                  LET left == [i \in Items |-> IF i \in batch THEN Gone ELSE Visible[i]]
                  IN  retiring' = [retiring EXCEPT
                        !.next = @ + 1,
                        !.deleted = @ \union batch,
                        !.status[c] = StatusAfter(@, Cardinality(batch),
                           Cardinality(Eligible(left, c, cutoff)), Oldest(left, c))]
    /\ UNCHANGED <<ticks, rows, settings, edits, status>>

RetireCommit ==
    /\ retiring # Unset
    /\ retiring.next > Len(Categories)
    /\ rows' = [i \in Items |-> IF i \in retiring.deleted THEN Gone ELSE rows[i]]
    /\ status' = retiring.status
    /\ retiring' = Unset
    /\ UNCHANGED <<ticks, settings, edits>>

(* The sweep fails, or the server stops: nothing it did stays.             *)
RetireFails ==
    /\ retiring # Unset
    /\ retiring' = Unset
    /\ UNCHANGED <<ticks, rows, settings, edits, status>>

TickOfDay ==
    /\ ticks < LastTick
    /\ ticks' = ticks + 1
    /\ UNCHANGED <<rows, settings, edits, status, retiring>>

RetentionNext ==
    \/ \E i \in Items : \E at \in StampsOf[i] : AddRow(i, at)
    \/ \E p \in Edits : PutPolicy(p)
    \/ RetireStart
    \/ RetireCategory
    \/ RetireCommit
    \/ RetireFails
    \/ TickOfDay

RetentionSpec == RetentionInit /\ [][RetentionNext]_retentionVars

-----------------------------------------------------------------------------
(* Properties.                                                             *)

(* A row is removed only by a sweep that began under a policy that had the *)
(* row's own category enabled, with a duration the row had outlived, and   *)
(* no hold; a rollup only when its whole day had (retention.py:84-97,      *)
(* retention_worker.py:87-107, :152-184, docs/architecture/retention.md).  *)
OnlyExpiredRemoved ==
    [][\A i \in Items : rows[i] # Gone /\ rows'[i] = Gone =>
          \E c \in Swept :
             LET p == retiring.policy
                 own == TableOf[i] = c \/ (TableOf[i] = "revisions"
                          /\ c = IF ReasonOf[i] = "correction" THEN "corrections"
                                 ELSE "superseded")
             IN  /\ own
                 /\ DeletionActive(p, c)
                 /\ rows[i] + (IF c = "rollups" THEN DayLength ELSE 1)
                      <= retiring.now - p.rules[c].days * DayLength]_retentionVars

(* The status an operator reads is true: the total is what was ever        *)
(* deleted of a category, through sweeps that fail and sweeps that the     *)
(* bound of a batch cuts short, and rows are said to be left over only by  *)
(* one that deleted a full batch (retention_worker.py:331-350).            *)
StatusIsTrue ==
    \A c \in Swept :
        /\ status[c].total = Cardinality({i \in InCategory(c) : rows[i] = Gone})
        /\ status[c].backlog > 0 => status[c].last >= BatchSize
=============================================================================
