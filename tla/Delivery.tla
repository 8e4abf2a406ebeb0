------------------------------ MODULE Delivery ------------------------------
(***************************************************************************)
(* What the collector and the server promise the tools whose usage is      *)
(* tracked: a tool emits usage events, each with an id and the output      *)
(* count known so far; the server keeps, for every id, the largest output  *)
(* of the events it has recorded.  Nothing else is ever recorded, and what *)
(* is recorded is never taken back, however often an event is delivered.   *)
(* Collector implements this specification.                                *)
(***************************************************************************)
EXTENDS Naturals, FiniteSets

CONSTANTS
    EventIds,   \* event ids
    Outputs     \* the output counts events carry, all above 0

VARIABLES
    emitted,    \* the events emitted so far
    recorded    \* event id -> largest output recorded, 0 when none is

Emittable == [id : EventIds, output : Outputs]

Nothing == [id \in EventIds |-> 0]

(* `recorded' once the events of S are recorded too. *)
KeepMaximum(stored, S) ==
    [id \in EventIds |->
        IF \E e \in S : e.id = id /\ e.output > stored[id]
        THEN CHOOSE n \in {e.output : e \in {x \in S : x.id = id}} :
                \A e \in S : e.id = id => e.output <= n
        ELSE stored[id]]

Init == emitted = {} /\ recorded = Nothing

Emit(e) ==
    /\ emitted' = emitted \cup {e}
    /\ UNCHANGED recorded

Record(S) ==
    /\ recorded' = KeepMaximum(recorded, S)
    /\ UNCHANGED emitted

Next ==
    \/ \E e \in Emittable : Emit(e)
    \/ \E S \in SUBSET emitted : Record(S)

Spec == Init /\ [][Next]_<<emitted, recorded>>
=============================================================================
