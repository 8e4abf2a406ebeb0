----------------------------- MODULE MCLedger -----------------------------
(***************************************************************************)
(* Instances of Ledger for TLC.  Each configuration takes its batches from *)
(* one of the sets below; a batch may be sent any number of times.         *)
(***************************************************************************)
EXTENDS Ledger

CONSTANTS a, b   \* event ids

Row(finality, sequence, output, detail, money) ==
    [finality |-> finality, sequence |-> sequence, output |-> output,
     detail |-> detail, money |-> money]

Snapshot(sequence, output) == Row("snapshot", sequence, output, "d1", "none")
Final(output)              == Row("final", 0, output, "d1", "none")

Ev(id, row)              == [id |-> id, row |-> row, units |-> NoUnits]
EvUnits(id, row, u)      == [id |-> id, row |-> row, units |-> u]

V2(events)         == [mode |-> "revision", correction |-> FALSE, events |-> events]
Correction(events) == [mode |-> "revision", correction |-> TRUE, events |-> events]
V1(events)         == [mode |-> "keep_max", correction |-> FALSE, events |-> events]

(* The life of one event: snapshots out of order, a conflicting snapshot,  *)
(* two finals that disagree, a correction, v1 traffic for the same id with *)
(* a larger, an equal and a smaller output; one event twice in a batch; a  *)
(* batch of two events; and an event with a cost, which is then corrected. *)
LifeBatches ==
    {V2(<<Ev(a, Snapshot(0, 1))>>),
     V2(<<EvUnits(a, Snapshot(1, 2), "u1")>>),
     V2(<<Ev(a, Snapshot(1, 3))>>),
     V2(<<Ev(a, Final(2))>>),
     V2(<<Ev(a, Snapshot(2, 2)), EvUnits(a, Final(3), "u2")>>),
     Correction(<<EvUnits(a, Final(1), "u1")>>),
     V1(<<Ev(a, Final(1))>>),
     V1(<<Ev(a, Final(3)), Ev(b, Final(1))>>),
     V1(<<Ev(b, Row("final", 0, 1, "d2", "none"))>>),
     V1(<<Ev(b, Row("final", 0, 2, "d1", "short"))>>),
     Correction(<<Ev(b, Final(1))>>)}

(* Requests that overlap: two ids taken in opposite orders, snapshots of   *)
(* different age, finals, a correction and v1 traffic.                     *)
OverlapBatches ==
    {V2(<<Ev(a, Snapshot(0, 1))>>),
     V2(<<Ev(a, Snapshot(1, 2)), Ev(b, Final(1))>>),
     V2(<<Ev(b, Final(2)), Ev(a, Final(3))>>),
     Correction(<<Ev(a, Final(1))>>),
     V1(<<Ev(a, Final(2))>>)}

(* The smallest overlap: one event, two snapshots and its final.           *)
RaceBatches ==
    {V2(<<Ev(a, Snapshot(0, 1))>>),
     V2(<<Ev(a, Snapshot(1, 2))>>),
     V2(<<Ev(a, Final(3))>>)}
=============================================================================
