----------------------------- MODULE Revisions -----------------------------
(***************************************************************************)
(* The pure decision of the revision engine (services/revisions.py): what  *)
(* happens to an incoming state of an event when the ledger already holds  *)
(* a state of the same (provider, event_id).  No variables: Ledger applies *)
(* these operators inside a database transaction.                          *)
(*                                                                         *)
(* A row keeps the columns the decision reads.  `detail' stands for every  *)
(* other fingerprinted column (tokens other than output, model, project,   *)
(* source_id, timestamps, ...): two rows differ in one of them exactly     *)
(* when their details differ.  `money' is the text of the row's money      *)
(* column (observed_cost, or the cost_usd of a v1 event): absent, written  *)
(* with fewer fractional digits than the column's scale ("short", as in    *)
(* 0.012), or with all of them ("scaled", as in 0.0120000000).             *)
(***************************************************************************)
EXTENDS Naturals

CONSTANTS
    Details,   \* values of the columns the decision only compares
    NoRow      \* what session.get returns for an unknown event id

Finalities == {"snapshot", "final"}
MoneyTexts == {"none", "short", "scaled"}

Rows == [finality : Finalities, sequence : Nat, output : Nat,
         detail : Details, money : MoneyTexts]

ASSUME NoRowAssumption == NoRow \notin Rows

Modes    == {"revision", "keep_max"}
Outcomes == {"accepted", "updated", "duplicate", "rejected", "corrected"}
Reasons  == {"superseded", "correction"}
NoReason == "none"

----------------------------------------------------------------------------
(* A Numeric(20, 10) column returns its value with ten fractional digits,  *)
(* whatever text it was given: a row read back is not always the row that  *)
(* was sent.                                                               *)
StoredMoney(money) == IF money = "short" THEN "scaled" ELSE money

Stored(row) == [row EXCEPT !.money = StoredMoney(row.money)]

(* Mutant: an UPDATE that sets every column. *)
WholeRow(current, seen, new) == new

(* The ORM's UPDATE sets only the columns whose value differs from the one *)
(* the session read; the others keep the value the row has by then.        *)
Column(current, seen, new) == IF new = seen THEN current ELSE new

(* The row after a session that read `seen' writes `new' over `current'.   *)
Updated(current, seen, new) ==
    [finality |-> Column(current.finality, seen.finality, new.finality),
     sequence |-> Column(current.sequence, seen.sequence, new.sequence),
     output   |-> Column(current.output, seen.output, new.output),
     detail   |-> Column(current.detail, seen.detail, new.detail),
     money    |-> Column(current.money, StoredMoney(seen.money),
                         StoredMoney(new.money))]

(* row_fingerprint renders every column as JSON text, decimals by str():   *)
(* two rows fingerprint equal when they agree on every column and write    *)
(* the money column with the same digits.                                  *)
SameFingerprint(a, b) == a = b

(* What happens to the incoming row.  `reason' is the archive reason, or   *)
(* NoReason when the prior state is not archived.                          *)
Decision(outcome, write, reason, conflict) ==
    [outcome |-> outcome, write |-> write, reason |-> reason,
     conflict |-> conflict]

Decisions == [outcome : Outcomes, write : BOOLEAN,
              reason : Reasons \cup {NoReason}, conflict : BOOLEAN]

Accept    == Decision("accepted",  TRUE,  NoReason,     FALSE)
Supersede == Decision("updated",   TRUE,  "superseded", FALSE)
Overwrite == Decision("updated",   TRUE,  NoReason,     FALSE)
Correct   == Decision("corrected", TRUE,  "correction", FALSE)
Reject    == Decision("rejected",  FALSE, NoReason,     TRUE)
Ignore    == Decision("duplicate", FALSE, NoReason,     FALSE)

(* Mutant: keep-max keeps the smaller output. *)
KeepMin(incoming, existing) ==
    IF incoming.output <= existing.output THEN Overwrite ELSE Ignore

ResolveKeepMax(incoming, existing) ==
    IF /\ ~ SameFingerprint(incoming, existing)
       /\ incoming.output >= existing.output
    THEN Overwrite
    ELSE Ignore

(* Mutant: a snapshot may be replaced by one with a lower sequence. *)
AnySnapshotSupersedes(incoming, existing) ==
    IF incoming.finality = "final" \/ incoming.sequence # existing.sequence
    THEN Supersede
    ELSE Reject

(* Mutant: a snapshot that outranks the stored one is dropped. *)
OnlyFinalSupersedes(incoming, existing) ==
    IF incoming.finality = "final" THEN Supersede
    ELSE IF incoming.sequence = existing.sequence THEN Reject ELSE Ignore

ResolveOverSnapshot(incoming, existing) ==
    IF \/ incoming.finality = "final"
       \/ incoming.sequence > existing.sequence
    THEN Supersede
    ELSE IF incoming.sequence = existing.sequence THEN Reject ELSE Ignore

(* Mutant: two disagreeing finals are dropped without a conflict. *)
SilentFinal(incoming, correction) ==
    IF incoming.finality = "final" /\ correction THEN Correct ELSE Ignore

ResolveOverFinal(incoming, correction) ==
    IF incoming.finality # "final" THEN Ignore
    ELSE IF correction THEN Correct ELSE Reject

(* Mutant: the identical-replay check is missing. *)
ResolveNoReplay(incoming, existing, mode, correction) ==
    CASE existing = NoRow      -> Accept
      [] existing # NoRow /\ mode = "keep_max" ->
             ResolveKeepMax(incoming, existing)
      [] existing # NoRow /\ mode = "revision" ->
             IF existing.finality = "final"
             THEN ResolveOverFinal(incoming, correction)
             ELSE ResolveOverSnapshot(incoming, existing)

(* resolve(): exactly one outcome for an incoming row. *)
Resolve(incoming, existing, mode, correction) ==
    IF existing = NoRow THEN Accept
    ELSE IF mode = "keep_max" THEN ResolveKeepMax(incoming, existing)
    ELSE IF SameFingerprint(incoming, existing) THEN Ignore
    ELSE IF existing.finality = "final"
         THEN ResolveOverFinal(incoming, correction)
         ELSE ResolveOverSnapshot(incoming, existing)

----------------------------------------------------------------------------
(* `Outranks(a, b)': a is a newer state of the event than b.  A final is   *)
(* newer than every snapshot; snapshots are ordered by sequence.           *)
Outranks(a, b) ==
    \/ a.finality = "final" /\ b.finality = "snapshot"
    \/ /\ a.finality = "snapshot" /\ b.finality = "snapshot"
       /\ a.sequence > b.sequence
============================================================================
