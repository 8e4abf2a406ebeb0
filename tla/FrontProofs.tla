----------------------------- MODULE FrontProofs -----------------------------
(***************************************************************************)
(* Proofs about what meets the server from outside, and what the dashboard *)
(* reads of it.  Client, for every set of reports and calls, every batch   *)
(* size and every number of retries; Otlp, for every set of exports, every *)
(* convention of content attributes and any number of requests; Traces,    *)
(* for every set of deployments and every size of a page.                  *)
(***************************************************************************)
EXTENDS Traces, Otlp, SumLemmas, FiniteSetTheorems, WellFoundedInduction, TLAPS

(* The slices to submit follow one another, the first one from next on.    *)
SlicesInOrder ==
    /\ \A i \in DOMAIN ends : next <= ends[i]
    /\ \A i, j \in DOMAIN ends : i < j => ends[i] < ends[j]
    /\ phase = "running" => posts <= MaxRetries

ClientInv == ClientTypeOK /\ SlicesInOrder /\ PoisonIsolated

(* The reports before n the server refuses.                                *)
BadBefore(n) == {i \in 1 .. (n - 1) : events[i] \in Bad}

-----------------------------------------------------------------------------
LEMMA BadBeforeFinite ==
    ASSUME NEW n \in Nat
    PROVE  IsFiniteSet(BadBefore(n)) /\ Cardinality(BadBefore(n)) \in Nat
  <1>1. IsFiniteSet(1 .. (n - 1))
    BY FS_Interval
  <1>2. IsFiniteSet(BadBefore(n))
    BY <1>1, FS_Subset DEF BadBefore
  <1> QED BY <1>2, FS_CardinalityType

LEMMA Halved ==
    ASSUME NEW lo \in Nat, NEW hi \in Nat, lo < hi
    PROVE  lo + (hi - lo + 1) \div 2 - 1 \in lo .. (hi - 1)
  OBVIOUS

(* The first slice of a busy call lies within it.                          *)
LEMMA FirstSlice ==
    ASSUME ClientInv, ends # <<>>
    PROVE  /\ next \in 1 .. Len(events) /\ ends[1] \in next .. Len(events)
           /\ Len(events) \in Nat /\ events \in Seq(Reports)
           /\ \A i \in 1 .. Len(events) : events[i] \in Reports
           /\ Tail(ends) \in Seq(1 .. Len(events))
           /\ \A i \in DOMAIN Tail(ends) : Tail(ends)[i] = ends[i + 1] /\ i + 1 \in DOMAIN ends
           /\ 1 \in DOMAIN ends
           /\ Current \in Seq(Reports)
  <1>1. 1 \in DOMAIN ends /\ ends[1] \in 1 .. Len(events)
    BY DEF ClientInv, ClientTypeOK
  <1>2. next \in 1 .. Len(events) /\ ends[1] \in next .. Len(events)
    BY <1>1 DEF ClientInv, ClientTypeOK, SlicesInOrder
  <1>3. Current \in Seq(Reports)
    BY <1>2 DEF Current, ClientInv, ClientTypeOK
  <1>4. /\ Tail(ends) \in Seq(1 .. Len(events))
        /\ \A i \in DOMAIN Tail(ends) : Tail(ends)[i] = ends[i + 1] /\ i + 1 \in DOMAIN ends
    BY DEF ClientInv, ClientTypeOK
  <1> QED BY <1>1, <1>2, <1>3, <1>4 DEF ClientInv, ClientTypeOK

LEMMA EndsInOrder ==
    ASSUME ClientInv
    PROVE  /\ \A i \in DOMAIN ends : next <= ends[i] /\ ends[i] \in Nat /\ i \in Nat
           /\ \A i, j \in DOMAIN ends : i < j => ends[i] < ends[j]
           /\ MaxRetries \in Nat
  BY ClientAssumption DEF ClientInv, SlicesInOrder, ClientTypeOK

(* The reports up to hi are those before lo and those of the slice.        *)
LEMMA SliceUnion ==
    ASSUME NEW lo \in Nat \ {0}, NEW hi \in Nat, lo <= hi
    PROVE  Slice(1, hi) = Slice(1, lo - 1) \union Slice(lo, hi)
  <1>1. 1 .. hi = (1 .. (lo - 1)) \union (lo .. hi)
    OBVIOUS
  <1> QED BY <1>1 DEF Slice

LEMMA ClientInitInv == ClientInit => ClientInv
  <1> SUFFICES ASSUME ClientInit PROVE ClientInv
    OBVIOUS
  <1>1. ClientTypeOK /\ SlicesInOrder
    BY ClientAssumption DEF ClientInit, ClientTypeOK, SlicesInOrder
  <1>2. Slice(1, next - 1) = {} /\ Range(poison) = {} /\ Len(poison) = 0
    BY DEF ClientInit, Slice, Range
  <1>3. {i \in 1 .. next - 1 : events[i] \in Bad} = {}
    BY DEF ClientInit
  <1> QED BY <1>1, <1>2, <1>3, FS_EmptySet DEF ClientInit, ClientInv, PoisonIsolated

LEMMA CallInv ==
    ASSUME ClientInv, NEW reports \in Calls, Call(reports)
    PROVE  ClientInv'
  <1>1. ClientTypeOK' /\ SlicesInOrder'
    <2>1. reports \in Seq(Reports)
      BY ClientAssumption
    <2> QED BY <2>1, ClientAssumption DEF Call, ClientInv, ClientTypeOK, SlicesInOrder
  <1>2. Slice(1, next - 1)' = {} /\ Range(poison)' = {} /\ Len(poison)' = 0
    BY DEF Call, Slice, Range
  <1>3. {i \in 1 .. next - 1 : events[i] \in Bad}' = {}
    BY DEF Call
  <1> QED BY <1>1, <1>2, <1>3, FS_EmptySet DEF Call, ClientInv, PoisonIsolated

LEMMA TakeBatchInv == ASSUME ClientInv, TakeBatch PROVE ClientInv'
  <1>1. PICK hi \in next .. Len(events) : ends' = <<hi>>
    BY DEF TakeBatch
  <1>2. UNCHANGED <<phase, events, next, posts, poison, calls, stored, late>>
    BY DEF TakeBatch
  <1>3. hi \in 1 .. Len(events)
    BY <1>1 DEF ClientInv, ClientTypeOK
  <1> QED BY <1>1, <1>2, <1>3
          DEF ClientInv, ClientTypeOK, SlicesInOrder, PoisonIsolated, Slice

(* What the server has stored only grows, and late slices are slices.      *)
LEMMA ServerKeeps ==
    ASSUME ClientInv, ends # <<>>, NEW status, NEW commits \in BOOLEAN, Server(status, commits)
    PROVE  /\ stored \subseteq stored' /\ stored' \subseteq Reports
           /\ late' \subseteq Seq(Reports)
  <1>1. Slice(next, ends[1]) \subseteq Reports
    BY FirstSlice DEF Slice
  <1> QED BY <1>1, FirstSlice DEF Server, ClientInv, ClientTypeOK

(* A slice that was stored is settled.                                     *)
LEMMA StoredInv ==
    ASSUME ClientInv, phase = "running", ends # <<>>, NEW status,
           Answers(status, TRUE), Server(status, TRUE),
           Settled(Tail(ends), poison, ends[1] + 1), UNCHANGED <<events, calls>>
    PROVE  ClientInv'
  <1>a. /\ next \in 1 .. Len(events) /\ ends[1] \in next .. Len(events)
        /\ Len(events) \in Nat /\ events \in Seq(Reports)
    BY FirstSlice
  <1>b. /\ Tail(ends) \in Seq(1 .. Len(events)) /\ 1 \in DOMAIN ends
        /\ \A i \in DOMAIN Tail(ends) : Tail(ends)[i] = ends[i + 1] /\ i + 1 \in DOMAIN ends
        /\ \A i \in DOMAIN Tail(ends) : i \in Nat \ {0}
    BY FirstSlice
  <1>c. /\ stored \subseteq stored' /\ stored' \subseteq Reports
        /\ late' \subseteq Seq(Reports)
    BY ServerKeeps
  <1>d. /\ \A i \in DOMAIN ends : next <= ends[i] /\ ends[i] \in Nat /\ i \in Nat
        /\ \A i, j \in DOMAIN ends : i < j => ends[i] < ends[j]
        /\ MaxRetries \in Nat
    BY EndsInOrder
  <1>e. ClientTypeOK /\ PoisonIsolated
    BY DEF ClientInv
  <1>1. /\ next' = ends[1] + 1 /\ ends' = Tail(ends) /\ poison' = poison /\ posts' = 0
        /\ phase' = "running" /\ events' = events /\ calls' = calls
    BY DEF Settled
  <1>2. ClientTypeOK'
    <2>1. next' \in 1 .. Len(events') + 1
      BY <1>a, <1>1
    <2>2. posts' \in 0 .. MaxRetries + 1
      BY <1>d, <1>1
    <2> QED BY <1>b, <1>c, <1>e, <1>1, <2>1, <2>2 DEF ClientTypeOK
  <1>3. SlicesInOrder'
    <2>1. ASSUME NEW i \in DOMAIN Tail(ends) PROVE ends[1] + 1 <= Tail(ends)[i]
      <3>1. i \in Nat \ {0} /\ i + 1 \in DOMAIN ends /\ Tail(ends)[i] = ends[i + 1]
        BY <1>b
      <3>2. ends[1] < ends[i + 1] /\ ends[1] \in Nat /\ ends[i + 1] \in Nat
        BY <1>b, <1>d, <3>1
      <3> QED BY <3>1, <3>2
    <2>2. \A i, j \in DOMAIN Tail(ends) : i < j => Tail(ends)[i] < Tail(ends)[j]
      BY <1>b, <1>d
    <2> QED BY <1>1, <1>d, <2>1, <2>2 DEF SlicesInOrder
  <1>4. Slice(1, next - 1)' = Slice(1, next - 1) \union Slice(next, ends[1])
    <2>1. Slice(1, ends[1]) = Slice(1, next - 1) \union Slice(next, ends[1])
      BY <1>a, SliceUnion
    <2>2. next' - 1 = ends[1]
      BY <1>a, <1>1
    <2>3. Slice(1, next - 1)' = Slice(1, ends[1])
      BY <1>1, <2>2 DEF Slice
    <2> QED BY <2>1, <2>3
  <1>5. Slice(next, ends[1]) \intersect Bad = {} /\ Slice(next, ends[1]) \subseteq stored'
    BY DEF Answers, Server
  <1>6. {i \in 1 .. next - 1 : events[i] \in Bad}' = {i \in 1 .. next - 1 : events[i] \in Bad}
    <2>1. \A i \in next .. ends[1] : events[i] \notin Bad
      BY <1>5 DEF Slice
    <2> QED BY <1>a, <1>1, <2>1
  <1>7. PoisonIsolated'
    BY <1>c, <1>e, <1>1, <1>4, <1>5, <1>6 DEF PoisonIsolated
  <1> QED BY <1>2, <1>3, <1>7 DEF ClientInv

(* A report refused alone is bad, and is set aside.                        *)
LEMMA SetAsideInv ==
    ASSUME ClientInv, phase = "running", ends # <<>>, next = ends[1],
           NEW commits \in BOOLEAN, Answers("poison", commits), Server("poison", commits),
           Settled(Tail(ends), Append(poison, events[next]), next + 1),
           UNCHANGED <<events, calls>>
    PROVE  ClientInv'
  <1>a. /\ next \in 1 .. Len(events) /\ ends[1] \in next .. Len(events)
        /\ Len(events) \in Nat /\ events \in Seq(Reports)
    BY FirstSlice
  <1>b. /\ Tail(ends) \in Seq(1 .. Len(events)) /\ 1 \in DOMAIN ends
        /\ \A i \in DOMAIN Tail(ends) : Tail(ends)[i] = ends[i + 1] /\ i + 1 \in DOMAIN ends
        /\ \A i \in DOMAIN Tail(ends) : i \in Nat \ {0}
    BY FirstSlice
  <1>c. /\ stored \subseteq stored' /\ stored' \subseteq Reports
        /\ late' \subseteq Seq(Reports)
    BY ServerKeeps
  <1>d. /\ \A i \in DOMAIN ends : next <= ends[i] /\ ends[i] \in Nat /\ i \in Nat
        /\ \A i, j \in DOMAIN ends : i < j => ends[i] < ends[j]
        /\ MaxRetries \in Nat
    BY EndsInOrder
  <1>e. ClientTypeOK /\ PoisonIsolated
    BY DEF ClientInv
  <1>1. /\ next' = next + 1 /\ ends' = Tail(ends) /\ poison' = Append(poison, events[next])
        /\ posts' = 0 /\ phase' = "running" /\ events' = events /\ calls' = calls
    BY DEF Settled
  <1>2. events[next] \in Bad /\ events[next] \in Reports
    BY FirstSlice DEF Answers, Slice
  <1>3. ClientTypeOK'
    <2>1. next' \in 1 .. Len(events') + 1
      BY <1>a, <1>1
    <2>2. posts' \in 0 .. MaxRetries + 1
      BY <1>d, <1>1
    <2>3. poison' \in Seq(Bad)
      BY <1>e, <1>1, <1>2 DEF ClientTypeOK
    <2> QED BY <1>b, <1>c, <1>e, <1>1, <2>1, <2>2, <2>3 DEF ClientTypeOK
  <1>4. SlicesInOrder'
    <2>1. \A i \in DOMAIN Tail(ends) : next + 1 <= Tail(ends)[i]
      BY SMTT(30), <1>a, <1>b, <1>d
    <2>2. \A i, j \in DOMAIN Tail(ends) : i < j => Tail(ends)[i] < Tail(ends)[j]
      BY <1>b, <1>d
    <2> QED BY <1>1, <1>d, <2>1, <2>2 DEF SlicesInOrder
  <1>5. Slice(1, next - 1)' = Slice(1, next - 1) \union {events[next]}
    <2>1. Slice(1, next) = Slice(1, next - 1) \union Slice(next, next)
      BY <1>a, SliceUnion
    <2>2. next' - 1 = next /\ next .. next = {next}
      BY <1>a, <1>1
    <2>3. Slice(1, next - 1)' = Slice(1, next) /\ Slice(next, next) = {events[next]}
      BY <1>1, <2>2 DEF Slice
    <2> QED BY <2>1, <2>3
  <1>6. poison \in Seq(Bad)
    BY DEF ClientInv, ClientTypeOK
  <1>7. Range(poison') = Range(poison) \union {events[next]} /\ Len(poison') = Len(poison) + 1
    <2> DEFINE x == events[next]
    <2>1. /\ Append(poison, x)[Len(poison) + 1] = x
          /\ DOMAIN Append(poison, x) = DOMAIN poison \union {Len(poison) + 1}
          /\ \A i \in DOMAIN poison : Append(poison, x)[i] = poison[i]
          /\ Len(Append(poison, x)) = Len(poison) + 1
      BY <1>2, <1>6
    <2> QED BY <1>1, <2>1 DEF Range
  <1>8. BadBefore(next)' = BadBefore(next) \union {next} /\ next \notin BadBefore(next)
    <2>1. 1 .. (next + 1 - 1) = (1 .. (next - 1)) \union {next} /\ next \notin 1 .. (next - 1)
      BY <1>a
    <2> QED BY <1>1, <1>2, <2>1 DEF BadBefore
  <1>9. Cardinality(BadBefore(next)') = Cardinality(BadBefore(next)) + 1
    <2>1. next \in Nat
      BY <1>a
    <2> QED BY <1>8, <2>1, BadBeforeFinite, FS_AddElement
  <1>10. PoisonIsolated'
    <2>1. /\ (Slice(1, next - 1) \ Bad \subseteq stored)'
          /\ (Range(poison) = Slice(1, next - 1) \intersect Bad)'
      BY <1>c, <1>e, <1>1, <1>2, <1>5, <1>7 DEF PoisonIsolated
    <2>2. (Len(poison) = Cardinality(BadBefore(next)))'
      BY <1>e, <1>7, <1>9 DEF PoisonIsolated, BadBefore
    <2> QED BY <1>1, <2>1, <2>2 DEF PoisonIsolated, BadBefore
  <1> QED BY <1>3, <1>4, <1>10 DEF ClientInv

(* Bisecting a slice settles nothing.                                      *)
LEMMA BisectInv ==
    ASSUME ClientInv, phase = "running", ends # <<>>, next # ends[1],
           NEW status, NEW commits \in BOOLEAN, Server(status, commits),
           Settled(<<next + (ends[1] - next + 1) \div 2 - 1>> \o ends, poison, next),
           UNCHANGED <<events, calls>>
    PROVE  ClientInv'
  <1> DEFINE mid == next + (ends[1] - next + 1) \div 2 - 1
  <1>a. /\ next \in 1 .. Len(events) /\ ends[1] \in next .. Len(events)
        /\ Len(events) \in Nat /\ events \in Seq(Reports)
    BY FirstSlice
  <1>b. 1 \in DOMAIN ends
    BY FirstSlice
  <1>c. /\ stored \subseteq stored' /\ stored' \subseteq Reports
        /\ late' \subseteq Seq(Reports)
    BY ServerKeeps
  <1>d. /\ \A i \in DOMAIN ends : next <= ends[i] /\ ends[i] \in Nat /\ i \in Nat
        /\ \A i, j \in DOMAIN ends : i < j => ends[i] < ends[j]
        /\ MaxRetries \in Nat
    BY EndsInOrder
  <1>e. ClientTypeOK /\ PoisonIsolated
    BY DEF ClientInv
  <1>1. mid \in next .. (ends[1] - 1)
    <2>1. next \in Nat /\ ends[1] \in Nat /\ next < ends[1]
      BY <1>a
    <2> QED BY <2>1, Halved
  <1>2. /\ next' = next /\ ends' = <<mid>> \o ends /\ poison' = poison /\ posts' = 0
        /\ phase' = "running" /\ events' = events /\ calls' = calls
    BY DEF Settled
  <1> HIDE DEF mid
  <1>3. mid \in 1 .. Len(events) /\ ends \in Seq(1 .. Len(events))
    BY <1>a, <1>e, <1>1 DEF ClientTypeOK
  <1>4. /\ ends' \in Seq(1 .. Len(events)) /\ ends'[1] = mid
        /\ Len(ends') = Len(ends) + 1
        /\ \A i \in 2 .. Len(ends') : ends'[i] = ends[i - 1] /\ i - 1 \in DOMAIN ends
    BY <1>2, <1>3
  <1>5. ClientTypeOK'
    <2>1. posts' \in 0 .. MaxRetries + 1
      BY <1>d, <1>2
    <2> QED BY <1>c, <1>e, <1>2, <1>4, <2>1 DEF ClientTypeOK
  <1>6. SlicesInOrder'
    <2>1. \A i \in DOMAIN ends' : next <= ends'[i]
      <3>1. \A i \in DOMAIN ends' : i = 1 \/ i \in 2 .. Len(ends')
        BY <1>4
      <3> QED BY <1>1, <1>d, <1>4, <3>1
    <2>2. \A i \in DOMAIN ends : mid < ends[i]
      <3>1. \A i \in DOMAIN ends : i = 1 \/ 1 < i
        BY <1>3
      <3>2. \A i \in DOMAIN ends : ends[1] <= ends[i]
        BY <1>b, <1>d, <3>1
      <3>3. mid < ends[1] /\ mid \in Nat
        BY <1>a, <1>1
      <3> QED BY <1>b, <1>d, <3>2, <3>3
    <2>3. ASSUME NEW i \in DOMAIN ends', NEW j \in DOMAIN ends', i < j
          PROVE  ends'[i] < ends'[j]
      <3>1. CASE i = 1
        <4>1. j \in 2 .. Len(ends')
          BY <1>4, <2>3, <3>1
        <4> QED BY <1>4, <2>2, <3>1, <4>1
      <3>2. CASE i # 1
        <4>1. i \in 2 .. Len(ends') /\ j \in 2 .. Len(ends') /\ i - 1 < j - 1
          BY <1>4, <2>3, <3>2
        <4> QED BY <1>d, <1>4, <4>1
      <3> QED BY <3>1, <3>2
    <2> QED BY <1>d, <1>2, <2>1, <2>3 DEF SlicesInOrder
  <1>7. PoisonIsolated'
    BY <1>c, <1>e, <1>2 DEF PoisonIsolated, Slice
  <1> QED BY <1>5, <1>6, <1>7 DEF ClientInv

(* A retry, and an answer that ends the call, settle nothing either.       *)
LEMMA UnsettledInv ==
    ASSUME ClientInv, phase = "running", ends # <<>>, NEW status, NEW commits \in BOOLEAN,
           Server(status, commits), UNCHANGED <<next, ends, poison, events, calls>>,
           \/ posts' = posts + 1 /\ phase' = IF posts = MaxRetries THEN "raised" ELSE "running"
           \/ posts' = posts /\ phase' = "raised"
    PROVE  ClientInv'
  <1>1. ClientTypeOK' /\ SlicesInOrder'
    BY ServerKeeps, ClientAssumption DEF ClientInv, ClientTypeOK, SlicesInOrder
  <1>2. PoisonIsolated'
    BY ServerKeeps DEF ClientInv, PoisonIsolated, Slice
  <1> QED BY <1>1, <1>2 DEF ClientInv

LEMMA PostInv ==
    ASSUME ClientInv, NEW status \in Statuses, NEW commits \in BOOLEAN, Post(status, commits)
    PROVE  ClientInv'
  <1>1. CASE status = "ok"
    <2>1. commits = TRUE
      BY <1>1 DEF Post, Answers
    <2> QED BY <1>1, <2>1, StoredInv DEF Post
  <1>2. CASE status = "poison"
    <2>1. CASE next = ends[1]
      BY <1>2, <2>1, SetAsideInv DEF Post, Isolate
    <2>2. CASE next # ends[1]
      BY <1>2, <2>2, BisectInv DEF Post, Isolate
    <2> QED BY <2>1, <2>2
  <1>3. CASE status = "busy"
    BY <1>3, UnsettledInv DEF Post, Retry
  <1>4. CASE status \notin {"ok", "poison", "busy"}
    BY <1>4, UnsettledInv DEF Post
  <1> QED BY <1>1, <1>2, <1>3, <1>4

LEMMA ClientNextInv == ClientInv /\ [ClientNext]_clientVars => ClientInv'
  <1> SUFFICES ASSUME ClientInv, [ClientNext]_clientVars PROVE ClientInv'
    OBVIOUS
  <1>1. CASE Return
    <2>1. next = Len(events) + 1
      BY <1>1 DEF Return, ClientInv, ClientTypeOK
    <2> QED BY <1>1, <2>1
            DEF Return, ClientInv, ClientTypeOK, SlicesInOrder, PoisonIsolated, Slice
  <1>2. ASSUME NEW slice \in late, HandleLate(slice) PROVE ClientInv'
    <2>1. Range(slice) \subseteq Reports
      BY DEF ClientInv, ClientTypeOK, Range
    <2> QED BY <1>2, <2>1
            DEF HandleLate, ClientInv, ClientTypeOK, SlicesInOrder, PoisonIsolated, Slice
  <1>3. CASE UNCHANGED clientVars
    BY <1>3 DEF clientVars, ClientInv, ClientTypeOK, SlicesInOrder, PoisonIsolated, Slice
  <1> QED BY <1>1, <1>2, <1>3, CallInv, TakeBatchInv, PostInv DEF ClientNext, ClientStep

-----------------------------------------------------------------------------
(* Every reachable state of a call is well typed: what is still to submit  *)
(* lies within the call, and it never posts a slice more than MaxRetries   *)
(* times again (packages/clients/python, client.py:250-260).               *)
THEOREM ClientTyped == ClientSpec => []ClientTypeOK
  <1>1. ClientInv => ClientTypeOK
    BY DEF ClientInv
  <1> QED BY <1>1, ClientInitInv, ClientNextInv, PTL DEF ClientSpec

(* One refused report never blocks the rest, however the server's answers, *)
(* late or lost, fall (client.py:232-248, client.ts:140-178).              *)
THEOREM PoisonIsIsolated == ClientSpec => []PoisonIsolated
  <1>1. ClientInv => PoisonIsolated
    BY DEF ClientInv
  <1> QED BY <1>1, ClientInitInv, ClientNextInv, PTL DEF ClientSpec

-----------------------------------------------------------------------------
(* Otlp.                                                                   *)

OtlpTypeOK ==
    /\ wire \in [Exports -> Nat]
    /\ sends \in Nat
    /\ DOMAIN imported = RowKeys /\ DOMAIN firsts = RowKeys
    /\ DOMAIN outcomes = Exports

(* A row is the event of the span that brought its key first, which passed *)
(* the gate.                                                               *)
RowsOfFirsts ==
    \A k \in RowKeys :
        /\ imported[k] = Absent <=> firsts[k] = Absent
        /\ imported[k] # Absent =>
              /\ imported[k] = EventOf(firsts[k])
              /\ Leftovers(firsts[k]) \cap ContentKeys = {}

(* A stored export had an id for each of its spans.                        *)
StoredParse == \A x \in Exports : "stored" \in outcomes[x] => Parses(x)

OtlpInv == OtlpTypeOK /\ RowsOfFirsts /\ StoredParse /\ ExportsFaithful

-----------------------------------------------------------------------------
(* The first span of a key is one of the export.                           *)
LEMMA FirstIsThere ==
    ASSUME NEW x \in Exports, NEW k \in KeysIn(x), Parses(x)
    PROVE  /\ k \in RowKeys
           /\ \E i \in EventsOf(x) : FirstIn(x, k) = x[i] /\ x[i] \in Spans /\ IsGenAi(x[i])
  <1> DEFINE places == {i \in EventsOf(x) : KeyOf(x[i]) = k}
             First(i) == i \in EventsOf(x) /\ KeyOf(x[i]) = k
                           /\ \A j \in EventsOf(x) : j < i => KeyOf(x[j]) # k
  <1>1. \A i \in EventsOf(x) : i \in Nat /\ x[i] \in Spans /\ IsGenAi(x[i]) /\ x[i].id # Absent
    BY OtlpAssumption DEF EventsOf, Parses
  <1>2. places \subseteq Nat /\ places # {}
    BY <1>1 DEF KeysIn
  <1>3. PICK i \in places : \A j \in places : ~ (<<j, i>> \in OpToRel(<, Nat))
    BY <1>2, WFMin, NatLessThanWellFounded
  <1>4. \A j \in places : ~ (j < i)
    BY <1>2, <1>3 DEF OpToRel
  <1>5. First(i)
    BY <1>4
  <1>6. First(CHOOSE n \in EventsOf(x) :
                KeyOf(x[n]) = k /\ \A j \in EventsOf(x) : j < n => KeyOf(x[j]) # k)
    BY <1>5
  <1>7. k \in RowKeys
    BY <1>1, <1>5 DEF RowKeys
  <1> QED BY <1>1, <1>6, <1>7 DEF FirstIn

(* What the event of a span that passed the gate keeps of it.              *)
LEMMA ExtraOfFirst ==
    ASSUME NEW span, Leftovers(span) \cap ContentKeys = {}
    PROVE  EventOf(span).extra = {key \in span.others \ ContentKeys : key \notin span.compound}
  BY OtlpAssumption DEF EventOf, Leftovers, Scalars

LEMMA StoredKept ==
    ASSUME OtlpInv, NEW x \in Exports, StoreExport(x)
    PROVE  OtlpInv'
  <1> DEFINE New(k) == k \in KeysIn(x) /\ imported[k] = Absent
  <1>1. Parses(x) /\ PassesGate(x)
    BY DEF StoreExport
  <1>2. ASSUME NEW k \in KeysIn(x)
        PROVE  /\ k \in RowKeys
               /\ FirstIn(x, k) # Absent /\ EventOf(FirstIn(x, k)) # Absent
               /\ Leftovers(FirstIn(x, k)) \cap ContentKeys = {}
    BY <1>1, FirstIsThere, PresentAssumption DEF PassesGate
  <1>3. \A k \in RowKeys :
           /\ New(k) => imported'[k] = EventOf(FirstIn(x, k)) /\ firsts'[k] = FirstIn(x, k)
           /\ ~ New(k) => imported'[k] = imported[k] /\ firsts'[k] = firsts[k]
    BY DEF StoreExport, SpansStored, OtlpInv, RowsOfFirsts
  <1>4. /\ DOMAIN imported' = RowKeys /\ DOMAIN firsts' = RowKeys /\ DOMAIN outcomes' = Exports
        /\ wire' \in [Exports -> Nat] /\ sends' \in Nat
    BY DEF StoreExport, SpansStored, OtlpInv, OtlpTypeOK
  <1>5. \A y \in Exports :
           /\ "stored" \in outcomes'[y] <=> "stored" \in outcomes[y] \/ y = x
           /\ "content" \in outcomes'[y] <=> "content" \in outcomes[y]
    BY DEF StoreExport, OtlpInv, OtlpTypeOK
  <1>6. StoredParse'
    BY <1>1, <1>5 DEF OtlpInv, StoredParse
  <1>7. RowsOfFirsts'
    <2>1. ASSUME NEW k \in RowKeys
          PROVE  /\ imported'[k] = Absent <=> firsts'[k] = Absent
                 /\ imported'[k] # Absent =>
                       /\ imported'[k] = EventOf(firsts'[k])
                       /\ Leftovers(firsts'[k]) \cap ContentKeys = {}
      BY <1>2, <1>3 DEF OtlpInv, RowsOfFirsts
    <2> QED BY <2>1 DEF RowsOfFirsts
  <1>8. WholeExports'
    <2>1. ASSUME NEW y \in Exports, "stored" \in outcomes'[y], NEW k \in KeysIn(y)
          PROVE  imported'[k] # Absent
      <3>1. CASE y = x
        BY <1>2, <1>3, <3>1 DEF OtlpInv, RowsOfFirsts
      <3>2. CASE y # x
        <4>1. "stored" \in outcomes[y] /\ imported[k] # Absent /\ Parses(y)
          BY <1>5, <2>1, <3>2 DEF OtlpInv, ExportsFaithful, WholeExports, StoredParse
        <4>2. k \in RowKeys
          BY <4>1, FirstIsThere
        <4> QED BY <1>3, <4>1, <4>2
      <3> QED BY <3>1, <3>2
    <2>2. ASSUME NEW k \in RowKeys, imported'[k] # Absent
          PROVE  /\ \E y \in Exports : "stored" \in outcomes'[y] /\ k \in KeysIn(y)
                 /\ k[2] \in WellFormedIds \union malformed'
      <3>1. malformed' = malformed \union
                           {j[2] : j \in {y \in KeysIn(x) : y[2] \notin WellFormedIds}}
        BY DEF StoreExport
      <3>2. CASE New(k)
        BY <1>5, <3>1, <3>2
      <3>3. CASE ~ New(k)
        <4>1. imported[k] # Absent
          BY <1>3, <2>2, <3>3
        <4> QED BY <1>5, <3>1, <4>1 DEF OtlpInv, ExportsFaithful, WholeExports
      <3> QED BY <3>2, <3>3
    <2>3. \A k \in RowKeys : imported'[k] # Absent => imported'[k] = EventOf(firsts'[k])
      BY <1>7 DEF RowsOfFirsts
    <2> QED BY <2>1, <2>2, <2>3 DEF WholeExports
  <1>9. ScalarsKept'
    <2>1. \A y \in Exports : "content" \in outcomes'[y] => "content" \in outcomes[y]
      BY <1>5
    <2>2. \A k \in RowKeys : imported'[k] # Absent =>
             imported'[k].extra = {key \in firsts'[k].others \ ContentKeys :
                                      key \notin firsts'[k].compound}
      BY <1>7, ExtraOfFirst DEF RowsOfFirsts
    <2> QED BY <2>1, <2>2 DEF OtlpInv, ExportsFaithful, ScalarsKept
  <1> QED BY <1>4, <1>6, <1>7, <1>8, <1>9 DEF OtlpInv, OtlpTypeOK, ExportsFaithful

LEMMA RefusedKept ==
    ASSUME OtlpInv, NEW x \in Exports, NEW outcome, Refuse(x, outcome), outcome # "stored",
           outcome = "content" => ~ PassesGate(x)
    PROVE  OtlpInv'
  <1>1. \A y \in Exports : \A o \in outcomes'[y] : o \in outcomes[y] \/ (y = x /\ o = outcome)
    BY DEF Refuse, OtlpInv, OtlpTypeOK
  <1>2. UNCHANGED <<imported, firsts, malformed, sends>>
    BY DEF Refuse
  <1>3. \A y \in Exports : outcomes[y] \subseteq outcomes'[y]
    BY DEF Refuse, OtlpInv, OtlpTypeOK
  <1>4. OtlpTypeOK'
    BY DEF Refuse, OtlpInv, OtlpTypeOK
  <1>5. RowsOfFirsts' /\ StoredParse'
    BY <1>1, <1>2 DEF OtlpInv, RowsOfFirsts, StoredParse
  <1>6. WholeExports'
    BY <1>1, <1>2, <1>3 DEF OtlpInv, ExportsFaithful, WholeExports
  <1>7. outcome = "content" =>
           \E i \in EventsOf(x) : ((x[i].others \cap ContentKeys) \ ContentAttrs) \ x[i].compound # {}
    BY DEF PassesGate, Leftovers, Scalars
  <1>8. ScalarsKept'
    BY <1>1, <1>2, <1>7 DEF OtlpInv, ExportsFaithful, ScalarsKept
  <1> QED BY <1>4, <1>5, <1>6, <1>8 DEF OtlpInv, ExportsFaithful

LEMMA OtlpNextInv == OtlpInv /\ [OtlpNext]_otlpVars => OtlpInv'
  <1> SUFFICES ASSUME OtlpInv, [OtlpNext]_otlpVars PROVE OtlpInv'
    OBVIOUS
  <1> USE DEF OtlpInv, OtlpTypeOK, RowsOfFirsts, StoredParse, ExportsFaithful, WholeExports, ScalarsKept
  <1>1. ASSUME NEW x \in Exports, SendExport(x) PROVE OtlpInv'
    BY <1>1 DEF SendExport
  <1>2. ASSUME NEW x \in Exports, RefuseMalformed(x) \/ FailInvalid(x) \/ RefuseContent(x)
                                    \/ FailExport(x)
        PROVE  OtlpInv'
    BY <1>2, RefusedKept DEF RefuseMalformed, FailInvalid, RefuseContent, FailExport
  <1>3. CASE UNCHANGED otlpVars
    BY <1>3 DEF otlpVars
  <1> QED BY <1>1, <1>2, <1>3, StoredKept DEF OtlpNext

-----------------------------------------------------------------------------
(* Whatever is exported, however often it is sent and in whatever order it *)
(* is handled, an export is stored as a whole or not at all, and of a span *)
(* only content is lost (api/v2/otel.py:48-58, otel/convert.py:69-98).     *)
THEOREM ExportsAreFaithful == OtlpSpec => []ExportsFaithful
  <1>1. OtlpInit => OtlpInv
    BY DEF OtlpInit, OtlpInv, OtlpTypeOK, RowsOfFirsts, StoredParse, ExportsFaithful, WholeExports,
           ScalarsKept
  <1>2. OtlpInv => ExportsFaithful
    BY DEF OtlpInv
  <1> QED BY <1>1, <1>2, OtlpNextInv, PTL DEF OtlpSpec

-----------------------------------------------------------------------------
(* Traces: what becomes of the reports on the server.                      *)

Rows == {Row(r) : r \in Reports}

LEMMA ReportFacts ==
    \A r \in Reports : /\ r.attempt \in Attempts /\ Row(r) \in Rows /\ Row(r) # None
                       /\ Row(r).final = r.final /\ r.final \in BOOLEAN
                       /\ Row(r).time = r.time /\ Row(r).request = r.request
                       /\ Row(r).session = r.session
  BY TracesAssumption DEF Attempts, Rows, Row

(* A batch is merged report by report: g of the places s is what the       *)
(* reports at s make of the rows.                                          *)
Merges(g, batch, correction) ==
    g = [s \in SUBSET DOMAIN batch |->
            IF s = {} THEN attempts ELSE Apply(g[s \ {Max(s)}], batch[Max(s)], correction)]

LEMMA MergedByReport ==
    ASSUME NEW batch \in Seq(Reports), NEW correction \in BOOLEAN,
           attempts \in [Attempts -> {None} \union Rows]
    PROVE  \E g : Merges(g, batch, correction) /\ Merged(batch, correction) = g[DOMAIN batch]
  <1> DEFINE n == Len(batch)
             X == [Attempts -> {None} \union Rows]
             f == [p \in X \X (1 .. n) |-> Apply(p[1], batch[p[2]], correction)]
  <1>1. DOMAIN batch = 1 .. n /\ n \in Nat /\ \A i \in 1 .. n : batch[i] \in Reports
    OBVIOUS
  <1>2. \A t \in X, i \in 1 .. n : /\ f[<<t, i>>] = Apply(t, batch[i], correction)
                                   /\ Apply(t, batch[i], correction) \in X
    <2>1. \A t \in X, r \in Reports : Apply(t, r, correction) \in X
      BY ReportFacts DEF Apply
    <2> QED BY <1>1, <2>1
  <1> HIDE DEF f, X, n
  <1>3. StepsIn(f, X, n) /\ attempts \in X
    BY <1>2 DEF StepsIn, X
  <1>4. PICK g : IsFold(g, f, attempts, 1 .. n) /\ \A s \in SUBSET (1 .. n) : g[s] \in X
    BY <1>1, <1>3, FoldExists
  <1>5. ASSUME NEW s \in SUBSET (1 .. n), s # {}
        PROVE  f[<<g[s \ {Max(s)}], Max(s)>>] = Apply(g[s \ {Max(s)}], batch[Max(s)], correction)
    <2>1. Max(s) \in 1 .. n /\ g[s \ {Max(s)}] \in X
      BY <1>1, <1>4, <1>5, LastPlace
    <2> QED BY <1>2, <2>1
  <1>6. Merges(g, batch, correction)
    BY <1>1, <1>4, <1>5 DEF IsFold, Merges
  <1>7. Merges(CHOOSE h : Merges(h, batch, correction), batch, correction)
    BY <1>6
  <1>8. Merged(batch, correction) = (CHOOSE h : Merges(h, batch, correction))[DOMAIN batch]
    BY DEF Merged, FoldLeft, MapThenFoldSet, Merges
  <1> QED BY <1>7, <1>8

(* What the reports at the places s of a batch may have made of the rows.  *)
MergedTo(t, s, batch, correction) ==
    /\ t \in [Attempts -> {None} \union Rows]
    /\ \A a \in Attempts : \/ t[a] = attempts[a]
                           \/ \E i \in s : batch[i].attempt = a /\ t[a] = Row(batch[i])
    /\ \A a \in Attempts : attempts[a] # None =>
          /\ t[a] # None
          /\ attempts[a].final => t[a].final /\ (~ correction => t[a] = attempts[a])
    /\ \A i \in s : /\ batch[i].attempt \in Attempts
                    /\ t[batch[i].attempt] # None
                    /\ batch[i].final => t[batch[i].attempt].final

(* A report that is merged after those at the places s.                    *)
MergedNext(t, s, batch, correction, m) ==
    correction \in BOOLEAN /\ batch[m] \in Reports /\ MergedTo(t, s, batch, correction)

LEMMA ApplyMerges ==
    ASSUME NEW t, NEW s, NEW batch, NEW m, NEW correction,
           MergedNext(t, s, batch, correction, m)
    PROVE  MergedTo(Apply(t, batch[m], correction), s \union {m}, batch, correction)
  <1> DEFINE r == batch[m]
             b == r.attempt
             new == [t EXCEPT ![b] = Row(r)]
  <1>1. /\ r \in Reports /\ b \in Attempts /\ Row(r) \in Rows /\ Row(r) # None
        /\ Row(r).final = r.final /\ r.final \in BOOLEAN
        /\ correction \in BOOLEAN /\ MergedTo(t, s, batch, correction)
    BY ReportFacts DEF MergedNext
  <1>2. t \in [Attempts -> {None} \union Rows]
    BY <1>1 DEF MergedTo
  <1>3. CASE ~ (t[b] = None \/ (r.final /\ (correction \/ ~ t[b].final)))
    <2>1. Apply(t, r, correction) = t
      BY <1>3 DEF Apply
    <2>2. t[b] # None /\ (r.final => t[b].final)
      BY <1>3
    <2>3. ASSUME NEW i \in s \union {m}
          PROVE  /\ batch[i].attempt \in Attempts
                 /\ t[batch[i].attempt] # None
                 /\ batch[i].final => t[batch[i].attempt].final
      BY <1>1, <2>2 DEF MergedTo
    <2> QED BY <1>1, <2>1, <2>3 DEF MergedTo
  <1>4. CASE t[b] = None \/ (r.final /\ (correction \/ ~ t[b].final))
    <2>1. Apply(t, r, correction) = new
      BY <1>4 DEF Apply
    <2>2. new \in [Attempts -> {None} \union Rows]
      BY <1>1, <1>2
    <2>3. new[b] = Row(r) /\ \A a \in Attempts \ {b} : new[a] = t[a]
      BY <1>1, <1>2
    <2> HIDE DEF new
    <2>4. ASSUME NEW a \in Attempts
          PROVE  \/ new[a] = attempts[a]
                 \/ \E i \in s \union {m} : batch[i].attempt = a /\ new[a] = Row(batch[i])
      <3>1. CASE a = b
        BY <2>3, <3>1
      <3>2. CASE a # b
        BY <1>1, <2>3, <3>2 DEF MergedTo
      <3> QED BY <3>1, <3>2
    <2>5. ASSUME NEW a \in Attempts, attempts[a] # None
          PROVE  /\ new[a] # None
                 /\ attempts[a].final => new[a].final /\ (~ correction => new[a] = attempts[a])
      <3>1. CASE a = b
        BY <1>1, <1>4, <2>3, <2>5, <3>1 DEF MergedTo
      <3>2. CASE a # b
        BY <1>1, <2>3, <2>5, <3>2 DEF MergedTo
      <3> QED BY <3>1, <3>2
    <2>6. ASSUME NEW i \in s \union {m}
          PROVE  /\ batch[i].attempt \in Attempts
                 /\ new[batch[i].attempt] # None
                 /\ batch[i].final => new[batch[i].attempt].final
      <3>1. CASE batch[i].attempt = b
        <4>1. CASE batch[i].final => r.final
          BY <1>1, <2>3, <3>1, <4>1
        <4>2. CASE batch[i].final /\ ~ r.final
          <5>1. t[b] = None /\ i \notin s
            BY <1>1, <1>4, <4>2, <3>1 DEF MergedTo
          <5>2. i = m
            BY <5>1
          <5> QED BY <4>2, <5>2
        <4> QED BY <4>1, <4>2
      <3>2. CASE batch[i].attempt # b
        <4>1. i \in s
          BY <3>2
        <4> QED BY <1>1, <2>3, <3>2, <4>1 DEF MergedTo
      <3> QED BY <3>1, <3>2
    <2> QED BY <1>1, <2>1, <2>2, <2>4, <2>5, <2>6 DEF MergedTo
  <1> QED BY <1>3, <1>4

(* A batch of reports that came before changes nothing.                    *)
LEMMA ApplyKnown ==
    ASSUME NEW t, NEW r, t[r.attempt] # None, r.final => t[r.attempt].final
    PROVE  Apply(t, r, FALSE) = t
  BY DEF Apply

LEMMA MergedRows ==
    ASSUME NEW batch \in Seq(Reports), NEW correction \in BOOLEAN,
           attempts \in [Attempts -> {None} \union Rows]
    PROVE  /\ MergedTo(Merged(batch, correction), DOMAIN batch, batch, correction)
           /\ (/\ ~ correction
               /\ \A i \in DOMAIN batch :
                     /\ attempts[batch[i].attempt] # None
                     /\ batch[i].final => attempts[batch[i].attempt].final)
              => Merged(batch, correction) = attempts
  <1> DEFINE D == DOMAIN batch
             known == /\ ~ correction
                      /\ \A i \in D :
                            /\ attempts[batch[i].attempt] # None
                            /\ batch[i].final => attempts[batch[i].attempt].final
  <1>1. D = 1 .. Len(batch) /\ Len(batch) \in Nat
    OBVIOUS
  <1>2. PICK g : Merges(g, batch, correction) /\ Merged(batch, correction) = g[D]
    BY MergedByReport
  <1> DEFINE Good(s) == MergedTo(g[s], s, batch, correction) /\ (known => g[s] = attempts)
             B == {s \in SUBSET D : ~ Good(s)}
  <1> HIDE DEF known
  <1> SUFFICES ASSUME B # {} PROVE FALSE
    BY <1>2 DEF known
  <1>3. PICK s \in B : \A u \in B : u \subseteq s => u = s
    <2>1. B \in SUBSET SUBSET D
      OBVIOUS
    <2> HIDE DEF B
    <2> QED BY <1>1, <2>1, SmallestSet, LastPlace
  <1>4. g[s] = IF s = {} THEN attempts ELSE Apply(g[s \ {Max(s)}], batch[Max(s)], correction)
    BY <1>2 DEF Merges
  <1>5. CASE s = {}
    BY <1>4, <1>5 DEF MergedTo
  <1>6. CASE s # {}
    <2> DEFINE m == Max(s)
               rest == s \ {m}
    <2>1. m \in s /\ m \in D /\ batch[m] \in Reports
      <3>1. s \in SUBSET (1 .. Len(batch)) /\ Len(batch) \in Nat
        BY <1>1
      <3>2. Max(s) \in s
        BY <1>6, <3>1, LastPlace
      <3>3. \A i \in D : batch[i] \in Reports
        OBVIOUS
      <3> QED BY <3>2, <3>3
    <2>2. rest \subseteq D /\ rest # s /\ rest \subseteq s /\ rest \union {m} = s
      BY <2>1
    <2>3. g[s] = Apply(g[rest], batch[m], correction)
      BY <1>4, <1>6
    <2> HIDE DEF m, rest
    <2>4. Good(rest)
      BY <1>3, <2>2
    <2>5. MergedTo(g[s], s, batch, correction)
      <3> DEFINE t == g[rest]
      <3>1. MergedTo(t, rest, batch, correction)
        BY <2>4
      <3>2. MergedNext(t, rest, batch, correction, m)
        BY <2>1, <3>1 DEF MergedNext
      <3> HIDE DEF t, D, Good, B
      <3>3. MergedTo(Apply(t, batch[m], correction), rest \union {m}, batch, correction)
        BY <3>2, ApplyMerges
      <3> QED BY <2>2, <2>3, <3>3 DEF t
    <2>6. known => g[s] = attempts
      <3> SUFFICES ASSUME known PROVE g[s] = attempts
        OBVIOUS
      <3>1. g[rest] = attempts /\ correction = FALSE
        BY <2>4 DEF known
      <3> QED BY <2>1, <2>3, <3>1, ApplyKnown DEF known
    <2> QED BY <2>5, <2>6
  <1> QED BY <1>5, <1>6

-----------------------------------------------------------------------------
(* Every row is of a report that was sent, and of what the server stored   *)
(* something is left: a final stays one.                                   *)
RowsOK ==
    /\ deployment \in Deployments
    /\ attempts \in [Attempts -> {None} \union Rows]
    /\ \A a \in Attempts : attempts[a] # None =>
          \E r \in Sent : r.attempt = a /\ attempts[a] = Row(r)
    /\ \A r \in stored : /\ attempts[r.attempt] # None
                         /\ r.final => attempts[r.attempt].final
    /\ Range(events) \subseteq Sent
    /\ \A slice \in late : Range(slice) \subseteq Sent

RequestsOK == requests = [k \in RequestKeys |-> requests[k]] /\ RequestsAgree

(* Everything that a batch reports has come before.                        *)
Known(batch, correction) ==
    /\ ~ correction
    /\ \A i \in DOMAIN batch :
          /\ attempts[batch[i].attempt] # None
          /\ batch[i].final => attempts[batch[i].attempt].final

(* What an open transaction means to write is what its reports make of the *)
(* rows there are; and of the requests that nobody changed since, what the *)
(* attempts say.                                                           *)
TransactionOK(t) ==
    /\ t = [batch |-> t.batch, correction |-> t.correction, rows |-> t.rows, keys |-> t.keys,
            records |-> t.records, loaded |-> t.loaded, missed |-> t.missed]
    /\ t.batch \in Seq(Reports) /\ Range(t.batch) \subseteq Sent /\ t.correction \in BOOLEAN
    /\ MergedTo(RowsBehind(t), DOMAIN t.batch, t.batch, t.correction)
    /\ Known(t.batch, t.correction) => RowsBehind(t) = attempts
    /\ \A k \in RequestKeys \ t.missed : t.loaded[k] = requests[k]
    /\ \A k \in t.keys \ t.missed : /\ Grouped(RowsBehind(t), k) # {}
                                    /\ t.records[k] = Aggregate(RowsBehind(t), k)
    /\ \A k \in RequestKeys \ t.keys : t.records[k] = t.loaded[k]
    /\ t.keys \subseteq RequestKeys

(* The open transactions have no attempt in common.                        *)
OpenOK ==
    /\ \A t \in opened : TransactionOK(t)
    /\ \A t, u \in opened : t # u => Named(t.batch) \intersect Named(u.batch) = {}

ReportsInv == ClientInv /\ RowsOK /\ RequestsOK /\ OpenOK

LEMMA SentReports == deployment \in Deployments => Sent \subseteq Reports
  <1> SUFFICES ASSUME deployment \in Deployments PROVE Sent \subseteq Reports
    OBVIOUS
  <1>1. /\ deployment.calls \subseteq Calls /\ Calls \subseteq Seq(Reports)
        /\ deployment.corrections \subseteq Reports
    BY TracesAssumption, ClientAssumption
  <1>2. ASSUME NEW c \in deployment.calls PROVE Range(c) \subseteq Reports
    BY <1>1 DEF Range
  <1> QED BY <1>1, <1>2 DEF Sent

(* What is posted is the slice.                                            *)
LEMMA CurrentSlice ==
    ASSUME ClientInv, ends # <<>>
    PROVE  /\ Current \in Seq(Reports) /\ Range(Current) = Slice(next, ends[1])
           /\ Range(Current) \subseteq Range(events)
  <1>1. /\ next \in 1 .. Len(events) /\ ends[1] \in next .. Len(events)
        /\ Len(events) \in Nat /\ events \in Seq(Reports) /\ Current \in Seq(Reports)
    BY FirstSlice
  <1>2. /\ Len(Current) = ends[1] - next + 1
        /\ \A i \in 1 .. Len(Current) : Current[i] = events[next + i - 1]
    BY <1>1 DEF Current
  <1>3. DOMAIN Current = 1 .. (ends[1] - next + 1)
    BY <1>1, <1>2
  <1>4. ASSUME NEW i \in DOMAIN Current
        PROVE  next + i - 1 \in next .. ends[1] /\ Current[i] = events[next + i - 1]
    BY <1>1, <1>2, <1>3
  <1>5. ASSUME NEW j \in next .. ends[1]
        PROVE  j - next + 1 \in DOMAIN Current /\ Current[j - next + 1] = events[j]
    BY <1>1, <1>2, <1>3
  <1>6. Range(Current) = Slice(next, ends[1])
    BY <1>4, <1>5 DEF Range, Slice
  <1>7. next .. ends[1] \subseteq DOMAIN events
    BY <1>1
  <1> QED BY <1>1, <1>6, <1>7 DEF Range, Slice

LEMMA AggregateSame ==
    ASSUME NEW t, NEW u, NEW k, Grouped(t, k) = Grouped(u, k),
           \A a \in Grouped(t, k) : t[a] = u[a]
    PROVE  Aggregate(t, k) = Aggregate(u, k)
  <1>1. Winners(t, k) = Winners(u, k)
    BY DEF Winners
  <1>2. /\ {t[a].time : a \in Grouped(t, k)} = {u[a].time : a \in Grouped(u, k)}
    OBVIOUS
  <1>3. \A a \in Winners(t, k) : t[a] = u[a]
    BY DEF Winners
  <1>4. (CHOOSE a \in Winners(t, k) : \A b \in Winners(t, k) : t[b].time <= t[a].time)
        = CHOOSE a \in Winners(t, k) : \A b \in Winners(t, k) : u[b].time <= u[a].time
    <2> DEFINE P(a) == a \in Winners(t, k) /\ \A b \in Winners(t, k) : t[b].time <= t[a].time
               Q(a) == a \in Winners(t, k) /\ \A b \in Winners(t, k) : u[b].time <= u[a].time
    <2>1. \A a : P(a) <=> Q(a)
      BY <1>3
    <2>2. (CHOOSE a : P(a)) = (CHOOSE a : Q(a))
      BY <2>1
    <2> QED BY <2>2
  <1> DEFINE best(v, j) == CHOOSE a \in Winners(v, j) :
                              \A b \in Winners(v, j) : v[b].time <= v[a].time
             times(v, j) == {v[a].time : a \in Grouped(v, j)}
  <1>5. \A v, j : Aggregate(v, j) =
            [count  |-> Cardinality(Grouped(v, j)),
             winner |-> IF Winners(v, j) = {} THEN None ELSE best(v, j),
             first  |-> Min(times(v, j)),
             last   |-> Max(times(v, j))]
    BY DEF Aggregate
  <1>6. best(t, k) = best(u, k) /\ times(t, k) = times(u, k)
    BY <1>1, <1>2, <1>4
  <1> HIDE DEF best, times
  <1> QED BY <1>1, <1>5, <1>6

LEMMA ReadIsOK ==
    ASSUME RowsOK, NEW batch \in Seq(Reports), Range(batch) \subseteq Sent,
           NEW correction \in BOOLEAN
    PROVE  TransactionOK(Read(batch, correction))
  <1> DEFINE rows == Merged(batch, correction)
             t == Read(batch, correction)
  <1>1. attempts \in [Attempts -> {None} \union Rows]
    BY DEF RowsOK
  <1>2. /\ MergedTo(rows, DOMAIN batch, batch, correction)
        /\ Known(batch, correction) => rows = attempts
    <2>1. /\ MergedTo(Merged(batch, correction), DOMAIN batch, batch, correction)
          /\ (/\ ~ correction
              /\ \A i \in DOMAIN batch :
                    /\ attempts[batch[i].attempt] # None
                    /\ batch[i].final => attempts[batch[i].attempt].final)
             => Merged(batch, correction) = attempts
      BY <1>1, MergedRows
    <2> QED BY <2>1 DEF Known
  <1> HIDE DEF rows
  <1>3. t = [batch |-> batch, correction |-> correction,
             rows |-> [a \in Named(batch) |-> rows[a]],
             keys |-> Refreshed(rows, batch), records |-> Recomputed(rows, batch),
             loaded |-> requests, missed |-> {}]
    BY DEF Read, rows
  <1> HIDE DEF t
  <1>4. /\ t.batch = batch /\ t.correction = correction
        /\ t.rows = [a \in Named(batch) |-> rows[a]]
        /\ t.keys = Refreshed(rows, batch) /\ t.records = Recomputed(rows, batch)
        /\ t.loaded = requests /\ t.missed = {}
    BY <1>3
  <1>5. RowsBehind(t) = rows
    <2>1. rows = [a \in Attempts |-> rows[a]]
      BY <1>2 DEF MergedTo
    <2>2. ASSUME NEW a \in Attempts, a \notin Named(batch) PROVE rows[a] = attempts[a]
      BY <1>2, <2>2 DEF MergedTo, Named, Range
    <2>3. \A a \in Attempts : RowsBehind(t)[a] = rows[a]
      BY <1>4, <2>2 DEF RowsBehind
    <2>4. RowsBehind(t) = [a \in Attempts |-> RowsBehind(t)[a]]
      BY DEF RowsBehind
    <2> QED BY <2>1, <2>3, <2>4
  <1>6. \A k \in Refreshed(rows, batch) : /\ Grouped(rows, k) # {}
                                         /\ Recomputed(rows, batch)[k] = Aggregate(rows, k)
    BY DEF Refreshed, Recomputed
  <1>7. \A k \in RequestKeys \ Refreshed(rows, batch) : Recomputed(rows, batch)[k] = requests[k]
    BY DEF Recomputed
  <1>8. Refreshed(rows, batch) \subseteq RequestKeys
    BY DEF Refreshed
  <1>9. t = [batch |-> t.batch, correction |-> t.correction, rows |-> t.rows, keys |-> t.keys,
             records |-> t.records, loaded |-> t.loaded, missed |-> t.missed]
    BY <1>3
  <1>10. TransactionOK(t)
    BY <1>2, <1>4, <1>5, <1>6, <1>7, <1>8, <1>9 DEF TransactionOK
  <1> QED BY <1>10 DEF t

(* A transaction on a batch of reports that were sent.                     *)
IngestOf(batch, correction) ==
    /\ batch \in Seq(Reports)
    /\ Range(batch) \subseteq Sent
    /\ correction \in BOOLEAN
    /\ OpenOK
    /\ Ingest(batch, correction)
    /\ UNCHANGED deployment

(* It is t that commits.                                                   *)
CommitOf(t, batch, correction) ==
    /\ t.batch = batch /\ t.correction = correction
    /\ TransactionOK(t) /\ Commit(t)
    /\ \A u \in opened \ {t} : Named(u.batch) \intersect Named(batch) = {}

LEMMA IngestCommits ==
    ASSUME RowsOK, NEW batch, NEW correction, IngestOf(batch, correction)
    PROVE  \E t : /\ t \in Handled(batch, correction)
                 /\ CommitOf(t, batch, correction)
  <1>1. PICK t \in Handled(batch, correction) : Commit(t)
    BY DEF IngestOf, Ingest
  <1>2. t.batch = batch /\ t.correction = correction
    BY <1>1 DEF Handled
  <1>3. CASE t \in opened
    BY <1>1, <1>2, <1>3 DEF IngestOf, OpenOK, CommitOf
  <1>4. CASE t \notin opened
    <2>1. t = Read(batch, correction) /\ Free(batch)
      BY <1>1, <1>4 DEF Handled
    <2>2. TransactionOK(t)
      BY <2>1, ReadIsOK DEF IngestOf
    <2> QED BY <1>1, <1>2, <2>1, <2>2 DEF Free, CommitOf
  <1> QED BY <1>3, <1>4

LEMMA IngestMerges ==
    ASSUME RowsOK, NEW batch, NEW correction, IngestOf(batch, correction)
    PROVE  /\ MergedTo(attempts', DOMAIN batch, batch, correction)
           /\ \A i \in DOMAIN batch : batch[i] \in Reports /\ batch[i] \in Sent
  <1>1. PICK t : CommitOf(t, batch, correction)
    BY IngestCommits
  <1>2. MergedTo(attempts', DOMAIN batch, batch, correction)
    BY <1>1 DEF CommitOf, TransactionOK, Commit
  <1>3. \A i \in DOMAIN batch : batch[i] \in Reports /\ batch[i] \in Sent
    BY DEF IngestOf, Range
  <1> QED BY <1>2, <1>3

LEMMA RowsSent ==
    ASSUME RowsOK, NEW batch, NEW correction, IngestOf(batch, correction)
    PROVE  \A a \in Attempts : attempts'[a] # None =>
              \E r \in Sent : r.attempt = a /\ attempts'[a] = Row(r)
  <1> SUFFICES ASSUME NEW a \in Attempts, attempts'[a] # None
               PROVE  \E r \in Sent : r.attempt = a /\ attempts'[a] = Row(r)
    OBVIOUS
  <1>1. CASE attempts'[a] = attempts[a]
    BY <1>1 DEF RowsOK
  <1>2. CASE attempts'[a] # attempts[a]
    <2>1. PICK i \in DOMAIN batch : batch[i].attempt = a /\ attempts'[a] = Row(batch[i])
      BY <1>2, IngestMerges DEF MergedTo
    <2> QED BY <2>1, IngestMerges
  <1> QED BY <1>1, <1>2

LEMMA IngestRows ==
    ASSUME RowsOK, NEW batch, NEW correction, IngestOf(batch, correction),
           stored' \subseteq stored \union Range(batch), UNCHANGED events, late' \subseteq late
                \union {batch}, stored \subseteq Reports
    PROVE  RowsOK'
  <1>1. /\ attempts' \in [Attempts -> {None} \union Rows] /\ Sent' = Sent
        /\ deployment' \in Deployments
    BY IngestMerges DEF IngestOf, MergedTo, RowsOK, Sent
  <1>2. \A a \in Attempts : attempts'[a] # None =>
           \E r \in Sent : r.attempt = a /\ attempts'[a] = Row(r)
    BY RowsSent
  <1>3. ASSUME NEW r \in stored'
        PROVE  attempts'[r.attempt] # None /\ (r.final => attempts'[r.attempt].final)
    <2>1. CASE r \in stored
      <3>1. r.attempt \in Attempts
        BY <2>1, ReportFacts
      <3>2. attempts[r.attempt] # None /\ (r.final => attempts[r.attempt].final)
        BY <2>1 DEF RowsOK
      <3> QED BY <3>1, <3>2, IngestMerges DEF MergedTo
    <2>2. CASE r \in Range(batch)
      BY <2>2, IngestMerges DEF MergedTo, Range
    <2> QED BY <2>1, <2>2
  <1>4. Range(events') \subseteq Sent /\ \A slice \in late' : Range(slice) \subseteq Sent
    BY DEF IngestOf, RowsOK
  <1> QED BY <1>1, <1>2, <1>3, <1>4 DEF RowsOK

(* What a commit does to the row of a request: those it recomputed are      *)
(* what the attempts say, unless others changed them since it read.        *)
LEMMA CommitWrites ==
    ASSUME NEW t, TransactionOK(t), Commit(t), NEW k \in RequestKeys
    PROVE  /\ k \in t.keys \ t.missed => /\ Grouped(attempts', k) # {}
                                         /\ requests'[k] = Aggregate(attempts', k)
           /\ k \notin t.keys => requests'[k] = requests[k]
           /\ k \notin Affected(attempts', requests') =>
                 /\ requests'[k] = requests[k]
                 /\ Grouped(attempts', k) = Grouped(attempts, k)
                 /\ Aggregate(attempts', k) = Aggregate(attempts, k)
  <1>1. attempts' = RowsBehind(t) /\ requests' = RequestsBehind(t)
    BY DEF Commit
  <1>2. requests'[k] = IF t.records[k] = t.loaded[k] THEN requests[k]
                       ELSE IF requests[k] = None THEN t.records[k]
                       ELSE Changes(t.records[k], t.loaded[k], requests[k])
    BY <1>1 DEF RequestsBehind
  <1>3. ASSUME k \in t.keys \ t.missed
        PROVE  Grouped(attempts', k) # {} /\ requests'[k] = Aggregate(attempts', k)
    <2>1. /\ Grouped(attempts', k) # {} /\ t.records[k] = Aggregate(attempts', k)
          /\ t.loaded[k] = requests[k]
      BY <1>1, <1>3 DEF TransactionOK
    <2> DEFINE new == t.records[k]
    <2>2. new = [count |-> new.count, winner |-> new.winner, first |-> new.first, last |-> new.last]
      BY <2>1 DEF Aggregate
    <2> HIDE DEF new
    <2>3. Changes(new, requests[k], requests[k]) = new
      BY <2>2 DEF Changes, Column
    <2> QED BY <1>2, <2>1, <2>3 DEF new
  <1>4. k \notin t.keys => requests'[k] = requests[k]
    BY <1>2 DEF TransactionOK
  <1>5. ASSUME k \notin Affected(attempts', requests')
        PROVE  /\ requests'[k] = requests[k]
               /\ Grouped(attempts', k) = Grouped(attempts, k)
               /\ Aggregate(attempts', k) = Aggregate(attempts, k)
    <2>1. /\ requests'[k] = requests[k]
          /\ \A a \in Grouped(attempts', k) \union Grouped(attempts, k) : attempts'[a] = attempts[a]
      BY <1>5 DEF Affected
    <2>2. Grouped(attempts', k) = Grouped(attempts, k)
      BY <2>1 DEF Grouped
    <2> QED BY <2>1, <2>2, AggregateSame
  <1> QED BY <1>3, <1>4, <1>5

(* A request that is not stale is what its attempts say: if the commit      *)
(* wrote it, nobody changed it since it was read, and if not, neither its   *)
(* row nor its attempts changed.                                           *)
LEMMA IngestRequests ==
    ASSUME RowsOK, RequestsOK, NEW batch, NEW correction, IngestOf(batch, correction)
    PROVE  RequestsOK'
  <1>1. PICK t : CommitOf(t, batch, correction)
    BY IngestCommits
  <1>2. TransactionOK(t) /\ Commit(t) /\ attempts' = RowsBehind(t) /\ requests' = RequestsBehind(t)
    BY <1>1 DEF CommitOf, Commit
  <1>3. requests' = [k \in RequestKeys |-> requests'[k]]
    BY <1>2 DEF RequestsBehind
  <1>4. stale' = ((stale \union Affected(attempts', requests')) \ t.keys)
                    \union (t.keys \intersect t.missed)
    BY <1>2 DEF Commit
  <1>5. RequestsAgree'
    <2> SUFFICES ASSUME NEW k \in RequestKeys, k \notin stale'
                 PROVE  requests'[k] = IF Grouped(attempts', k) = {} THEN None
                                       ELSE Aggregate(attempts', k)
      BY DEF RequestsAgree, Grouped, Aggregate, Winners
    <2>1. CASE k \in t.keys
      <3>1. k \in t.keys \ t.missed
        BY <1>4, <2>1
      <3> QED BY <1>2, <3>1, CommitWrites
    <2>2. CASE k \notin t.keys
      <3>1. k \notin stale /\ k \notin Affected(attempts', requests')
        BY <1>4, <2>2
      <3>2. /\ requests'[k] = requests[k]
            /\ Grouped(attempts', k) = Grouped(attempts, k)
            /\ Aggregate(attempts', k) = Aggregate(attempts, k)
        BY <1>2, <3>1, CommitWrites
      <3> QED BY <3>1, <3>2 DEF RequestsOK, RequestsAgree
    <2> QED BY <2>1, <2>2
  <1> QED BY <1>3, <1>5 DEF RequestsOK

-----------------------------------------------------------------------------
(* The other open transactions, when u commits.                            *)
LEMMA TransactionKept ==
    ASSUME NEW t, TransactionOK(t), NEW u, TransactionOK(u), Commit(u), UNCHANGED deployment,
           Named(t.batch) \intersect Named(u.batch) = {},
           NEW v, v = [t EXCEPT !.missed = @ \union Affected(attempts', requests')]
    PROVE  TransactionOK(v)'
  <1> DEFINE affected == Affected(attempts', requests')
  <1>1. /\ v = [batch |-> t.batch, correction |-> t.correction, rows |-> t.rows, keys |-> t.keys,
                 records |-> t.records, loaded |-> t.loaded, missed |-> t.missed \union affected]
    BY DEF TransactionOK
  <1> HIDE DEF affected
  <1>2. /\ v.batch = t.batch /\ v.correction = t.correction /\ v.rows = t.rows
        /\ v.keys = t.keys /\ v.records = t.records /\ v.loaded = t.loaded
        /\ v.missed = t.missed \union affected
    BY <1>1
  <1>3. v = [batch |-> v.batch, correction |-> v.correction, rows |-> v.rows, keys |-> v.keys,
             records |-> v.records, loaded |-> v.loaded, missed |-> v.missed]
    BY <1>1
  <1>4. Sent' = Sent
    BY DEF Sent
  <1> DEFINE old == RowsBehind(t)
             new == [a \in Attempts |-> IF a \in Named(t.batch) THEN t.rows[a] ELSE attempts'[a]]
  <1>5. RowsBehind(v)' = new
    BY <1>2 DEF RowsBehind
  <1>6. attempts' = RowsBehind(u) /\ requests' = RequestsBehind(u)
    BY DEF Commit
  <1>7. /\ \A a \in Named(t.batch) : a \in Attempts => attempts'[a] = attempts[a] /\ new[a] = old[a]
        /\ \A a \in Attempts \ Named(t.batch) : new[a] = attempts'[a] /\ old[a] = attempts[a]
    BY <1>6 DEF RowsBehind
  <1>8. old = [a \in Attempts |-> old[a]] /\ new = [a \in Attempts |-> new[a]]
    BY DEF RowsBehind
  <1>9. /\ attempts' \in [Attempts -> {None} \union Rows]
        /\ old \in [Attempts -> {None} \union Rows]
        /\ MergedTo(old, DOMAIN t.batch, t.batch, t.correction)
    BY <1>6 DEF TransactionOK, MergedTo
  <1> HIDE DEF old, new
  <1>10. \A i \in DOMAIN t.batch : t.batch[i].attempt \in Named(t.batch)
    BY DEF Named, Range
  <1>11. new \in [Attempts -> {None} \union Rows]
    <2>1. \A a \in Attempts : new[a] \in {None} \union Rows
      BY <1>7, <1>9
    <2> QED BY <1>8, <2>1
  <1>12. ASSUME NEW a \in Attempts
         PROVE  /\ \/ new[a] = attempts'[a]
                   \/ \E i \in DOMAIN t.batch : t.batch[i].attempt = a /\ new[a] = Row(t.batch[i])
                /\ attempts'[a] # None =>
                      /\ new[a] # None
                      /\ attempts'[a].final => new[a].final /\ (~ t.correction => new[a] = attempts'[a])
    <2>1. CASE a \in Named(t.batch)
      <3>1. attempts'[a] = attempts[a] /\ new[a] = old[a]
        BY <1>7, <2>1
      <3> QED BY <1>9, <3>1 DEF MergedTo
    <2>2. CASE a \notin Named(t.batch)
      BY <1>7, <2>2
    <2> QED BY <2>1, <2>2
  <1>13. /\ \A i \in DOMAIN t.batch :
               /\ t.batch[i].attempt \in Attempts
               /\ new[t.batch[i].attempt] # None
               /\ t.batch[i].final => new[t.batch[i].attempt].final
         /\ MergedTo(RowsBehind(v), DOMAIN v.batch, v.batch, v.correction)'
         /\ Known(v.batch, v.correction)' => (RowsBehind(v))' = attempts'
    <2>1. \A i \in DOMAIN t.batch :
             /\ t.batch[i].attempt \in Attempts
             /\ new[t.batch[i].attempt] # None
             /\ t.batch[i].final => new[t.batch[i].attempt].final
        BY <1>7, <1>9, <1>10 DEF MergedTo
    <2>2. MergedTo(RowsBehind(v), DOMAIN v.batch, v.batch, v.correction)'
      <3>1. \A a \in Attempts :
               \/ new[a] = attempts'[a]
               \/ \E i \in DOMAIN v.batch : v.batch[i].attempt = a /\ new[a] = Row(v.batch[i])
        BY <1>2, <1>12
      <3>2. \A a \in Attempts : attempts'[a] # None =>
               /\ new[a] # None
               /\ attempts'[a].final => new[a].final /\ (~ v.correction => new[a] = attempts'[a])
        BY <1>2, <1>12
      <3>3. \A i \in DOMAIN v.batch :
               /\ v.batch[i].attempt \in Attempts
               /\ new[v.batch[i].attempt] # None
               /\ v.batch[i].final => new[v.batch[i].attempt].final
          BY <1>2, <2>1
      <3> QED BY <1>5, <1>11, <3>1, <3>2, <3>3 DEF MergedTo
    <2>3. ASSUME Known(v.batch, v.correction)' PROVE new = attempts'
      <3>1. /\ ~ t.correction
            /\ \A i \in DOMAIN t.batch :
                  /\ attempts'[t.batch[i].attempt] # None
                  /\ t.batch[i].final => attempts'[t.batch[i].attempt].final
        BY <1>2, <2>3 DEF Known
      <3>2. \A i \in DOMAIN t.batch : attempts'[t.batch[i].attempt] = attempts[t.batch[i].attempt]
        BY <1>7, <1>9, <1>10 DEF MergedTo
      <3>3. Known(t.batch, t.correction)
        BY <3>1, <3>2 DEF Known
      <3>4. old = attempts
        BY <3>3 DEF TransactionOK, old
      <3>5. \A a \in Attempts : new[a] = attempts'[a]
        BY <1>7, <3>4
      <3>6. attempts' = [a \in Attempts |-> attempts'[a]]
        BY <1>9
      <3> QED BY <1>8, <3>5, <3>6
    <2> QED BY <1>5, <2>1, <2>2, <2>3
  <1>14. ASSUME NEW k \in RequestKeys, k \notin t.missed, k \notin affected
         PROVE  /\ t.loaded[k] = requests'[k]
                /\ k \in t.keys => Grouped(new, k) # {} /\ t.records[k] = Aggregate(new, k)
    <2>1. requests'[k] = requests[k] /\ t.loaded[k] = requests[k]
      BY <1>14 DEF affected, Affected, TransactionOK
    <2>2. \A a \in Grouped(attempts', k) \union Grouped(attempts, k) : attempts'[a] = attempts[a]
      BY <1>14 DEF affected, Affected
    <2>3. \A a \in Grouped(new, k) \union Grouped(old, k) : new[a] = old[a]
      <3> SUFFICES ASSUME NEW a \in Attempts, a \in Grouped(new, k) \/ a \in Grouped(old, k),
                          a \notin Named(t.batch)
                   PROVE  new[a] = old[a]
        BY <1>7 DEF Grouped
      <3>1. new[a] = attempts'[a] /\ old[a] = attempts[a]
        BY <1>7
      <3>2. a \in Grouped(attempts', k) \/ a \in Grouped(attempts, k)
        BY <3>1 DEF Grouped
      <3> QED BY <2>2, <3>1, <3>2
    <2>4. Grouped(new, k) = Grouped(old, k)
      BY <2>3 DEF Grouped
    <2>5. Aggregate(new, k) = Aggregate(old, k)
      BY <2>3, <2>4, AggregateSame
    <2>6. k \in t.keys => Grouped(old, k) # {} /\ t.records[k] = Aggregate(old, k)
      BY <1>14 DEF TransactionOK, old
    <2> QED BY <2>1, <2>4, <2>5, <2>6
  <1>15. \A k \in RequestKeys \ v.missed : v.loaded[k] = requests'[k]
    BY <1>2, <1>14
  <1>16. \A k \in v.keys \ v.missed : /\ Grouped(RowsBehind(v)', k) # {}
                                      /\ v.records[k] = Aggregate(RowsBehind(v)', k)
    BY <1>2, <1>5, <1>14 DEF TransactionOK
  <1>17. /\ v.batch \in Seq(Reports) /\ Range(v.batch) \subseteq Sent' /\ v.correction \in BOOLEAN
         /\ \A k \in RequestKeys \ v.keys : v.records[k] = v.loaded[k]
         /\ v.keys \subseteq RequestKeys
    BY <1>2, <1>4 DEF TransactionOK
  <1> QED BY <1>3, <1>13, <1>15, <1>16, <1>17
          DEF TransactionOK, Grouped, Aggregate, Winners

LEMMA TransactionStays ==
    ASSUME NEW t, TransactionOK(t), UNCHANGED <<deployment, attempts, requests>>
    PROVE  TransactionOK(t)'
  <1>1. /\ Sent' = Sent /\ RowsBehind(t)' = RowsBehind(t)
    BY DEF Sent, RowsBehind
  <1>2. Known(t.batch, t.correction)' <=> Known(t.batch, t.correction)
    BY DEF Known
  <1>3. MergedTo(RowsBehind(t), DOMAIN t.batch, t.batch, t.correction)'
    BY <1>1 DEF TransactionOK, MergedTo
  <1>4. \A k : /\ Grouped(RowsBehind(t), k)' = Grouped(RowsBehind(t), k)
               /\ Aggregate(RowsBehind(t), k)' = Aggregate(RowsBehind(t), k)
    BY <1>1 DEF Grouped, Aggregate, Winners
  <1> QED BY <1>1, <1>2, <1>3, <1>4 DEF TransactionOK

LEMMA IngestOpen ==
    ASSUME RowsOK, NEW batch, NEW correction, IngestOf(batch, correction)
    PROVE  OpenOK'
  <1>1. PICK t : CommitOf(t, batch, correction)
    BY IngestCommits
  <1>2. /\ TransactionOK(t) /\ Commit(t) /\ OpenOK /\ UNCHANGED deployment
        /\ \A u \in opened \ {t} : Named(u.batch) \intersect Named(t.batch) = {}
    BY <1>1 DEF CommitOf, IngestOf
  <1> DEFINE affected == Affected(attempts', requests')
             Later(u) == [u EXCEPT !.missed = @ \union affected]
  <1>3. opened' = {Later(u) : u \in opened \ {t}}
    BY <1>2 DEF Commit
  <1>4. ASSUME NEW u \in opened \ {t}, NEW w, w = Later(u)
        PROVE  TransactionOK(w)' /\ w.batch = u.batch
    <2>1. TransactionOK(u) /\ Named(u.batch) \intersect Named(t.batch) = {}
      BY <1>2 DEF OpenOK
    <2>2. w = [u EXCEPT !.missed = @ \union Affected(attempts', requests')]
      BY <1>4
    <2>3. w.batch = u.batch
      BY <2>1, <2>2 DEF TransactionOK
    <2>4. TransactionOK(w)'
      BY <1>2, <2>1, <2>2, TransactionKept
    <2> QED BY <2>3, <2>4
  <1> HIDE DEF Later
  <1>5. \A v : v \in opened' => TransactionOK(v)'
    BY <1>3, <1>4
  <1>6. \A v, w \in opened' : v # w => Named(v.batch) \intersect Named(w.batch) = {}
    <2> SUFFICES ASSUME NEW u \in opened \ {t}, NEW x \in opened \ {t}, Later(u) # Later(x)
                 PROVE  Named(Later(u).batch) \intersect Named(Later(x).batch) = {}
      BY <1>3
    <2> QED BY <1>2, <1>4 DEF OpenOK
  <1> QED BY <1>5, <1>6 DEF OpenOK

(* The client takes its own steps, whatever becomes of its reports.        *)
LEMMA ClientSteps == RowsOK /\ [Next]_vars => [ClientNext]_clientVars
  <1> SUFFICES ASSUME RowsOK, [Next]_vars PROVE [ClientNext]_clientVars
    OBVIOUS
  <1>1. CASE Submit
    <2>1. deployment.calls \subseteq Calls
      BY TracesAssumption DEF RowsOK
    <2> QED BY <1>1, <2>1 DEF Submit, ClientNext, ClientStep
  <1>2. ASSUME NEW status \in Statuses, NEW commits \in BOOLEAN, Exchange(status, commits)
        PROVE  ClientNext
    BY <1>2 DEF Exchange, ClientNext, ClientStep
  <1>3. ASSUME NEW slice \in late, IngestLate(slice) PROVE ClientNext
    BY <1>3 DEF IngestLate, ClientNext
  <1>4. ASSUME NEW r \in Reports, Correct(r) PROVE UNCHANGED clientVars
    BY <1>4 DEF Correct
  <1>5. CASE \/ StartWalk \/ \E page \in SUBSET Remaining : FetchPage(page)
             \/ FailIngest \/ \E batch, correction : OpenIngest(batch, correction)
    BY <1>5 DEF StartWalk, FetchPage, FailIngest, OpenIngest
  <1>6. CASE UNCHANGED vars
    BY <1>6 DEF vars
  <1> QED BY <1>1, <1>2, <1>3, <1>4, <1>5, <1>6 DEF Next

(* The three transactions, each on reports that were sent.                 *)
LEMMA ExchangeIngests ==
    ASSUME ClientInv, RowsOK, OpenOK, NEW status \in Statuses, Exchange(status, TRUE)
    PROVE  /\ IngestOf(Current, FALSE) /\ Range(Current) = Slice(next, ends[1])
           /\ stored' = stored \union Range(Current)
           /\ late' \subseteq late \union {Current} /\ UNCHANGED events
  <1>1. Post(status, TRUE) /\ Ingest(Current, FALSE) /\ UNCHANGED deployment
    BY DEF Exchange
  <1>2. ends # <<>> /\ Server(status, TRUE) /\ UNCHANGED events
    BY <1>1 DEF Post
  <1>3. /\ Current \in Seq(Reports) /\ Range(Current) = Slice(next, ends[1])
        /\ Range(Current) \subseteq Range(events)
    BY <1>2, CurrentSlice
  <1> QED BY <1>1, <1>2, <1>3 DEF IngestOf, RowsOK, Server

LEMMA LateIngests ==
    ASSUME ClientInv, RowsOK, OpenOK, NEW slice \in late, IngestLate(slice)
    PROVE  /\ IngestOf(slice, FALSE) /\ stored' = stored \union Range(slice)
           /\ late' \subseteq late /\ UNCHANGED events
  <1>1. slice \in Seq(Reports)
    BY DEF ClientInv, ClientTypeOK
  <1> QED BY <1>1 DEF IngestLate, HandleLate, IngestOf, RowsOK

LEMMA CorrectIngests ==
    ASSUME RowsOK, OpenOK, NEW r \in Reports, Correct(r)
    PROVE  /\ IngestOf(<<r>>, TRUE) /\ UNCHANGED <<stored, late, events>>
  <1>1. <<r>> \in Seq(Reports) /\ Range(<<r>>) = {r} /\ r \in Sent
    BY DEF Range, Correct, Sent
  <1> QED BY <1>1 DEF Correct, IngestOf, clientVars

LEMMA StoredAreReports == ClientInv => stored \subseteq Reports
  BY DEF ClientInv, ClientTypeOK

(* A step of the client, or of a walk, that leaves the ledger alone.       *)
LEMMA LedgerAlone ==
    ASSUME RowsOK, RequestsOK, UNCHANGED <<deployment, attempts, requests, stale>>,
           stored' = stored, Range(events') \subseteq Sent,
           \A slice \in late' : Range(slice) \subseteq Sent
    PROVE  RowsOK' /\ RequestsOK'
  <1>1. Sent' = Sent
    BY DEF Sent
  <1>2. RowsOK'
    BY <1>1 DEF RowsOK
  <1>3. RequestsAgree'
    <2> SUFFICES ASSUME NEW k \in RequestKeys, k \notin stale'
                 PROVE  requests'[k] = IF Grouped(attempts', k) = {} THEN None
                                       ELSE Aggregate(attempts', k)
      BY DEF RequestsAgree, Grouped, Aggregate, Winners
    <2> QED BY DEF RequestsOK, RequestsAgree
  <1>4. requests' = [k \in RequestKeys |-> requests'[k]]
    BY DEF RequestsOK
  <1> QED BY <1>2, <1>3, <1>4 DEF RequestsOK

LEMMA OpenStay ==
    ASSUME OpenOK, UNCHANGED <<deployment, attempts, requests>>, opened' \subseteq opened
    PROVE  OpenOK'
  <1>1. \A t \in opened : TransactionOK(t)'
    BY TransactionStays DEF OpenOK
  <1> QED BY <1>1 DEF OpenOK

LEMMA OpenJoins ==
    ASSUME RowsOK, OpenOK, NEW batch \in Seq(Reports), Range(batch) \subseteq Sent,
           NEW correction \in BOOLEAN, OpenIngest(batch, correction)
    PROVE  OpenOK'
  <1> DEFINE new == Read(batch, correction)
  <1>1. /\ UNCHANGED <<deployment, attempts, requests>> /\ opened' = opened \union {new}
        /\ Free(batch) /\ new.batch = batch
    BY DEF OpenIngest, Read
  <1>2. TransactionOK(new)
    BY ReadIsOK
  <1> HIDE DEF new
  <1>3. \A t \in opened \union {new} : TransactionOK(t)'
    BY <1>1, <1>2, TransactionStays DEF OpenOK
  <1>4. \A t \in opened : Named(t.batch) \intersect Named(batch) = {}
    BY <1>1 DEF Free
  <1> QED BY <1>1, <1>3, <1>4 DEF OpenOK

(* What a transaction is opened on was sent.                               *)
LEMMA AtWorkSent ==
    ASSUME ClientInv, RowsOK, NEW batch \in AtWork
    PROVE  batch \in Seq(Reports) /\ Range(batch) \subseteq Sent
  <1>1. CASE batch \in late
    BY <1>1 DEF ClientInv, ClientTypeOK, RowsOK
  <1>2. CASE ends # <<>> /\ batch = Current
    BY <1>2, CurrentSlice DEF RowsOK
  <1> QED BY <1>1, <1>2 DEF AtWork

LEMMA ReportsInitInv == Init => ReportsInv
  <1> SUFFICES ASSUME Init PROVE ReportsInv
    OBVIOUS
  <1>1. ClientInv
    BY ClientInitInv DEF Init
  <1>2. RowsOK
    BY DEF Init, ClientInit, RowsOK, Range
  <1>3. \A k \in RequestKeys : Grouped(attempts, k) = {} /\ requests[k] = None
    BY DEF Init, Grouped
  <1>4. requests = [k \in RequestKeys |-> requests[k]]
    BY DEF Init
  <1>5. OpenOK
    BY DEF Init, OpenOK
  <1> QED BY <1>1, <1>2, <1>3, <1>4, <1>5 DEF ReportsInv, RequestsOK, RequestsAgree

LEMMA ReportsNextInv == ReportsInv /\ [Next]_vars => ReportsInv'
  <1> SUFFICES ASSUME ReportsInv, [Next]_vars PROVE ReportsInv'
    OBVIOUS
  <1>1. ClientInv /\ RowsOK /\ RequestsOK /\ OpenOK /\ stored \subseteq Reports
    BY StoredAreReports DEF ReportsInv
  <1>2. ClientInv'
    BY <1>1, ClientSteps, ClientNextInv
  <1>3. CASE Submit
    <2>1. /\ UNCHANGED <<deployment, attempts, requests, stale, opened>>
          /\ stored' = stored /\ late' = late
      BY <1>3 DEF Submit, Call, TakeBatch, Return, serverVars
    <2>2. Range(events') \subseteq Sent
      <3>1. ASSUME NEW reports \in deployment.calls, Call(reports)
            PROVE  Range(events') \subseteq Sent
        BY <3>1 DEF Call, Sent
      <3>2. CASE TakeBatch \/ Return
        BY <1>1, <3>2 DEF TakeBatch, Return, RowsOK
      <3> QED BY <1>3, <3>1, <3>2 DEF Submit
    <2>3. \A slice \in late' : Range(slice) \subseteq Sent
      BY <1>1, <2>1 DEF RowsOK
    <2> QED BY <1>1, <1>2, <2>1, <2>2, <2>3, LedgerAlone, OpenStay DEF ReportsInv
  <1>4. ASSUME NEW status \in Statuses, NEW commits \in BOOLEAN, Exchange(status, commits)
        PROVE  ReportsInv'
    <2>1. CASE commits
      <3>1. Exchange(status, TRUE)
        BY <1>4, <2>1
      <3>2. /\ IngestOf(Current, FALSE)
            /\ stored' = stored \union Range(Current)
            /\ late' \subseteq late \union {Current} /\ UNCHANGED events
        BY <1>1, <3>1, ExchangeIngests
      <3>3. RowsOK'
        BY <1>1, <3>2, IngestRows
      <3> QED BY <1>1, <1>2, <3>2, <3>3, IngestRequests, IngestOpen DEF ReportsInv
    <2>2. CASE ~ commits
      <3>1. /\ UNCHANGED <<deployment, attempts, requests, stale, opened, events>>
            /\ stored' = stored
            /\ late' \subseteq late \union {Current} /\ ends # <<>>
        BY <1>4, <2>2 DEF Exchange, Post, Server, serverVars
      <3>2. Range(Current) \subseteq Sent
        BY <1>1, <3>1, CurrentSlice DEF RowsOK
      <3>3. Range(events') \subseteq Sent /\ \A slice \in late' : Range(slice) \subseteq Sent
        BY <1>1, <3>1, <3>2 DEF RowsOK
      <3> QED BY <1>1, <1>2, <3>1, <3>3, LedgerAlone, OpenStay DEF ReportsInv
    <2> QED BY <2>1, <2>2
  <1>5. ASSUME NEW slice \in late, IngestLate(slice) PROVE ReportsInv'
    <2>1. /\ IngestOf(slice, FALSE) /\ stored' = stored \union Range(slice)
          /\ late' \subseteq late /\ UNCHANGED events
      BY <1>1, <1>5, LateIngests
    <2>2. RowsOK'
      BY <1>1, <2>1, IngestRows
    <2> QED BY <1>1, <1>2, <2>1, <2>2, IngestRequests, IngestOpen DEF ReportsInv
  <1>6. ASSUME NEW r \in Reports, Correct(r) PROVE ReportsInv'
    <2>1. IngestOf(<<r>>, TRUE) /\ UNCHANGED <<stored, late, events>>
      BY <1>1, <1>6, CorrectIngests
    <2>2. RowsOK'
      BY <1>1, <2>1, IngestRows
    <2> QED BY <1>1, <1>2, <2>1, <2>2, IngestRequests, IngestOpen DEF ReportsInv
  <1>7. CASE \/ StartWalk \/ (\E page \in SUBSET Remaining : FetchPage(page))
             \/ FailIngest \/ UNCHANGED vars
    <2>1. /\ UNCHANGED <<clientVars, deployment, attempts, requests, stale>>
          /\ opened' \subseteq opened
      BY <1>7 DEF StartWalk, FetchPage, FailIngest, vars, serverVars
    <2>2. stored' = stored /\ events' = events /\ late' = late
      BY <2>1 DEF clientVars
    <2>3. Range(events') \subseteq Sent /\ \A slice \in late' : Range(slice) \subseteq Sent
      BY <1>1, <2>2 DEF RowsOK
    <2> QED BY <1>1, <1>2, <2>1, <2>2, <2>3, LedgerAlone, OpenStay DEF ReportsInv
  <1>8. ASSUME NEW batch, NEW correction \in BOOLEAN, OpenIngest(batch, correction),
               batch \in Seq(Reports), Range(batch) \subseteq Sent
        PROVE  ReportsInv'
    <2>1. UNCHANGED <<clientVars, deployment, attempts, requests, stale>>
      BY <1>8 DEF OpenIngest
    <2>2. stored' = stored /\ events' = events /\ late' = late
      BY <2>1 DEF clientVars
    <2>3. Range(events') \subseteq Sent /\ \A slice \in late' : Range(slice) \subseteq Sent
      BY <1>1, <2>2 DEF RowsOK
    <2>4. OpenOK'
      BY <1>1, <1>8, OpenJoins
    <2> QED BY <1>1, <1>2, <2>1, <2>2, <2>3, <2>4, LedgerAlone DEF ReportsInv
  <1>9. ASSUME NEW batch \in AtWork, OpenIngest(batch, FALSE) PROVE ReportsInv'
    BY <1>1, <1>8, <1>9, AtWorkSent
  <1>10. ASSUME NEW r \in deployment.corrections, OpenIngest(<<r>>, TRUE) PROVE ReportsInv'
    <2>1. r \in Sent /\ r \in Reports
      BY <1>1, SentReports DEF Sent, RowsOK
    <2>2. <<r>> \in Seq(Reports) /\ Range(<<r>>) = {r}
      BY <2>1 DEF Range
    <2> QED BY <1>8, <1>10, <2>1, <2>2
  <1> QED BY <1>3, <1>4, <1>5, <1>6, <1>7, <1>9, <1>10 DEF Next

(* RequestsAgree holds: whatever is retried, bisected, answered late or    *)
(* corrected, and however many transactions are open at a time, a logical  *)
(* request is the aggregate of its attempts, unless it was written from an *)
(* old read or an attempt moved away from it; the next transaction on it   *)
(* that none overlaps mends it (services/logical_requests.py:47-80).       *)
THEOREM RequestsFollowAttempts == Spec => []RequestsAgree
  <1>1. Spec => []ReportsInv
    BY ReportsInitInv, ReportsNextInv, PTL DEF Spec
  <1>2. ReportsInv => RequestsAgree
    BY DEF ReportsInv, RequestsOK
  <1> QED BY <1>1, <1>2, PTL

(* A batch of what was stored before merges into the same rows, and the    *)
(* requests it names are recomputed to what they were.                     *)
LEMMA ReplayIsIdle ==
    ASSUME ReportsInv, NEW batch, IngestOf(batch, FALSE), Range(batch) \subseteq stored
    PROVE  /\ attempts' = attempts
           /\ \A k \in RequestKeys \ (stale \union stale') : requests'[k] = requests[k]
  <1>1. RowsOK /\ RequestsOK
    BY DEF ReportsInv
  <1>2. PICK t : CommitOf(t, batch, FALSE)
    BY <1>1, IngestCommits
  <1>3. /\ TransactionOK(t) /\ Commit(t) /\ t.batch = batch /\ t.correction = FALSE
        /\ attempts' = RowsBehind(t)
        /\ stale' = ((stale \union Affected(attempts', requests')) \ t.keys)
                      \union (t.keys \intersect t.missed)
    BY <1>2 DEF CommitOf, Commit
  <1>4. Known(batch, FALSE)
    BY <1>1 DEF Known, RowsOK, Range
  <1>5. attempts' = attempts
    BY <1>3, <1>4 DEF TransactionOK
  <1>6. ASSUME NEW k \in RequestKeys, k \notin stale, k \notin stale'
        PROVE  requests'[k] = requests[k]
    <2>1. CASE k \in t.keys
      <3>1. k \in t.keys \ t.missed
        BY <1>3, <1>6, <2>1
      <3>2. Grouped(attempts, k) # {} /\ requests'[k] = Aggregate(attempts, k)
        BY <1>3, <1>5, <3>1, CommitWrites
      <3> QED BY <1>1, <1>6, <3>2 DEF RequestsOK, RequestsAgree
    <2>2. CASE k \notin t.keys
      BY <1>3, <2>2, CommitWrites
    <2> QED BY <2>1, <2>2
  <1> QED BY <1>5, <1>6

(* ReplaysChangeNothing holds: what the server committed before can come   *)
(* again, by a retry, a late answer or a repeated call, corrected since or *)
(* not, and no attempt changes, nor a logical request that told what its   *)
(* attempts say and is not written from an old read (api/v2/ingest.py).    *)
THEOREM ReplaysAreHarmless == Spec => ReplaysChangeNothing
  <1>1. Spec => []ReportsInv
    BY ReportsInitInv, ReportsNextInv, PTL DEF Spec
  <1>2. ReportsInv =>
           [\/ \E status \in Statuses :
                  /\ Exchange(status, TRUE)
                  /\ Slice(next, ends[1]) \subseteq stored
            \/ \E slice \in late : IngestLate(slice) /\ Range(slice) \subseteq stored
            => /\ UNCHANGED attempts
               /\ \A k \in RequestKeys \ (stale \union stale') : requests'[k] = requests[k]]_vars
    <2> SUFFICES ASSUME ReportsInv,
                        \/ \E status \in Statuses :
                              Exchange(status, TRUE) /\ Slice(next, ends[1]) \subseteq stored
                        \/ \E slice \in late :
                              IngestLate(slice) /\ Range(slice) \subseteq stored
                 PROVE  /\ UNCHANGED attempts
                        /\ \A k \in RequestKeys \ (stale \union stale') : requests'[k] = requests[k]
      OBVIOUS
    <2>1. ClientInv /\ RowsOK /\ OpenOK
      BY DEF ReportsInv
    <2>2. ASSUME NEW status \in Statuses, Exchange(status, TRUE),
                 Slice(next, ends[1]) \subseteq stored
          PROVE  IngestOf(Current, FALSE) /\ Range(Current) \subseteq stored
      BY <2>1, <2>2, ExchangeIngests
    <2>3. ASSUME NEW slice \in late, IngestLate(slice), Range(slice) \subseteq stored
          PROVE  IngestOf(slice, FALSE)
      BY <2>1, <2>3, LateIngests
    <2> QED BY <2>2, <2>3, ReplayIsIdle
  <1> QED BY <1>1, <1>2, PTL DEF Spec, ReplaysChangeNothing

-----------------------------------------------------------------------------
(* Walks through a listing.                                                *)

(* The tables are finite, and the rows of a listing have places.           *)
TablesOK ==
    /\ IsFiniteSet({a \in Attempts : attempts[a] # None})
    /\ IsFiniteSet({k \in RequestKeys : requests[k] # None})
    /\ \A k \in RequestKeys : requests[k] # None => requests[k].last \in Int

Rows0 == Listed(walk.listing, attempts, requests)

PlaceOf(x) == Place(walk.listing, x)

LEMMA PrecedesOrder ==
    /\ \A p, q, r \in Int \X Int : Precedes(p, q) /\ Precedes(q, r) => Precedes(p, r)
    /\ \A p \in Int \X Int : ~ Precedes(p, p)
    /\ \A p, q \in Int \X Int : p # q => Precedes(p, q) \/ Precedes(q, p)
  BY DEF Precedes

LEMMA KeyFacts ==
    /\ \A a \in Attempts : /\ a = [provider |-> a.provider, event |-> a.event]
                           /\ a.provider \in Int /\ a.event \in Int
    /\ \A k \in RequestKeys : /\ k = [provider |-> k.provider, request |-> k.request]
                              /\ k.provider \in Int /\ k.request \in Int
    /\ \A row \in Rows : row.time \in Int /\ row.session \in Int /\ row.request \in Int
  <1>1. \A r \in Reports : /\ r.attempt = [provider |-> r.attempt.provider,
                                             event |-> r.attempt.event]
                            /\ r.attempt.provider \in Int /\ r.attempt.event \in Int
                            /\ r.time \in Int /\ r.request \in Int /\ r.session \in Int
    BY TracesAssumption
  <1>2. \A a \in Attempts : /\ a = [provider |-> a.provider, event |-> a.event]
                             /\ a.provider \in Int /\ a.event \in Int
    BY <1>1 DEF Attempts
  <1>3. \A k \in RequestKeys : /\ k = [provider |-> k.provider, request |-> k.request]
                                /\ k.provider \in Int /\ k.request \in Int
    <2> SUFFICES ASSUME NEW r \in Reports,
                        NEW k, k = [provider |-> r.attempt.provider, request |-> r.request]
                 PROVE  /\ k = [provider |-> k.provider, request |-> k.request]
                        /\ k.provider \in Int /\ k.request \in Int
      BY DEF RequestKeys
    <2> QED BY <1>1
  <1>4. \A row \in Rows : row.time \in Int /\ row.session \in Int /\ row.request \in Int
    <2> SUFFICES ASSUME NEW r \in Reports
                 PROVE  /\ Row(r).time \in Int /\ Row(r).session \in Int
                        /\ Row(r).request \in Int
      BY DEF Rows
    <2> QED BY <1>1 DEF Row
  <1> QED BY <1>2, <1>3, <1>4

(* What a listing shows is finite and ordered; rows in one place are tied. *)
LEMMA ListedFacts ==
    ASSUME RowsOK, TablesOK, walk.listing \in Listings
    PROVE  /\ IsFiniteSet(Rows0)
           /\ \A x \in Rows0 : PlaceOf(x) \in Int \X Int
           /\ \A x, y \in Rows0 : x # y /\ PlaceOf(x) = PlaceOf(y) =>
                 Tied(x) /\ walk.listing # "sessions"
  <1>1. /\ attempts \in [Attempts -> {None} \union Rows]
        /\ \A a \in Finals(attempts) : a \in Attempts /\ attempts[a] # None
                                       /\ attempts[a] \in Rows
    BY DEF RowsOK, Finals
  <1>2. IsFiniteSet(Finals(attempts))
    <2>1. Finals(attempts) \subseteq {a \in Attempts : attempts[a] # None}
      BY DEF Finals
    <2> QED BY <2>1, FS_Subset DEF TablesOK
  <1>3. CASE walk.listing = "attempts"
    <2>1. Rows0 = Finals(attempts)
      BY <1>3 DEF Rows0, Listed
    <2>2. \A x \in Rows0 : PlaceOf(x) = <<-(attempts[x].time), -(x.event)>>
      BY <1>3 DEF PlaceOf, Place
    <2>3. \A x \in Rows0 : attempts[x].time \in Int /\ x.event \in Int /\ x \in Attempts
      BY <1>1, <2>1, KeyFacts
    <2>4. \A x, y \in Rows0 : x # y /\ PlaceOf(x) = PlaceOf(y) => Tied(x)
      <3> SUFFICES ASSUME NEW x \in Rows0, NEW y \in Rows0, x # y, PlaceOf(x) = PlaceOf(y)
                   PROVE  Tied(x)
        OBVIOUS
      <3>1. -(x.event) = -(y.event)
        BY <2>2
      <3>2. x.event = y.event
        BY <2>3, <3>1
      <3>3. y \in Attempts \ {x}
        BY <2>3
      <3> QED BY <1>3, <3>2, <3>3 DEF Tied
    <2> QED BY <1>2, <1>3, <2>1, <2>2, <2>3, <2>4
  <1>4. CASE walk.listing = "requests"
    <2>1. Rows0 = {k \in RequestKeys : requests[k] # None}
      BY <1>4 DEF Rows0, Listed
    <2>2. \A x \in Rows0 : PlaceOf(x) = <<-(requests[x].last), -(x.request)>>
      BY <1>4 DEF PlaceOf, Place
    <2>3. \A x \in Rows0 : requests[x].last \in Int /\ x.request \in Int /\ x \in RequestKeys
      BY <2>1, KeyFacts DEF TablesOK
    <2>4. \A x, y \in Rows0 : x # y /\ PlaceOf(x) = PlaceOf(y) => Tied(x)
      <3> SUFFICES ASSUME NEW x \in Rows0, NEW y \in Rows0, x # y, PlaceOf(x) = PlaceOf(y)
                   PROVE  Tied(x)
        OBVIOUS
      <3>1. -(x.request) = -(y.request)
        BY <2>2
      <3>2. x.request = y.request
        BY <2>3, <3>1
      <3>3. y \in RequestKeys \ {x}
        BY <2>3
      <3> QED BY <1>4, <3>2, <3>3 DEF Tied
    <2> QED BY <1>4, <2>1, <2>2, <2>3, <2>4 DEF TablesOK
  <1>5. CASE walk.listing = "sessions"
    <2>1. Rows0 = {SessionOf(a, attempts) : a \in Finals(attempts)}
      BY <1>5 DEF Rows0, Listed
    <2>2. \A x \in Rows0 : /\ PlaceOf(x) = <<x.provider, x.session>>
                           /\ x = [provider |-> x.provider, session |-> x.session]
                           /\ x.provider \in Int /\ x.session \in Int
      BY <1>1, <1>5, <2>1, KeyFacts DEF PlaceOf, Place, SessionOf
    <2>3. IsFiniteSet(Rows0)
      <3> DEFINE f == [a \in Finals(attempts) |-> SessionOf(a, attempts)]
      <3>1. Rows0 = {f[a] : a \in Finals(attempts)}
        BY <2>1
      <3> HIDE DEF f
      <3>2. IsFiniteSet({f[a] : a \in Finals(attempts)})
        BY <1>2, ImageIsFinite
      <3> QED BY <3>1, <3>2
    <2>4. ASSUME NEW x \in Rows0, NEW y \in Rows0, PlaceOf(x) = PlaceOf(y)
          PROVE  x = y
      <3>1. x.provider = y.provider /\ x.session = y.session
        BY <2>2, <2>4
      <3> QED BY <2>2, <3>1
    <2> QED BY <2>2, <2>3, <2>4
  <1> QED BY <1>3, <1>4, <1>5 DEF Listings

LEMMA TablesInit == Init => TablesOK
  <1> SUFFICES ASSUME Init PROVE TablesOK
    OBVIOUS
  <1>1. /\ {a \in Attempts : attempts[a] # None} = {}
        /\ {k \in RequestKeys : requests[k] # None} = {}
    BY DEF Init
  <1> QED BY <1>1, FS_EmptySet DEF TablesOK

(* The groups of the rows are finite, and have a last time.                *)
LEMMA AggregateLast ==
    ASSUME NEW t, t \in [Attempts -> {None} \union Rows],
           IsFiniteSet({a \in Attempts : t[a] # None}),
           NEW k, Grouped(t, k) # {}
    PROVE  Aggregate(t, k).last \in Int
  <1> DEFINE group == Grouped(t, k)
             times == {t[a].time : a \in group}
  <1>1. group \subseteq {a \in Attempts : t[a] # None}
    BY DEF Grouped
  <1>2. IsFiniteSet(group)
    BY <1>1, FS_Subset
  <1>3. \A a \in group : t[a].time \in Int
    BY <1>1, KeyFacts
  <1>4. IsFiniteSet(times) /\ times \subseteq Int /\ times # {}
    <2> DEFINE f == [a \in group |-> t[a].time]
    <2>1. times = {f[a] : a \in group}
      OBVIOUS
    <2> HIDE DEF f, group
    <2>2. IsFiniteSet({f[a] : a \in group})
      BY <1>2, ImageIsFinite
    <2>3. times \subseteq Int
      BY <1>3
    <2>4. times # {}
      BY DEF group
    <2> QED BY <2>1, <2>2, <2>3, <2>4
  <1>5. Max(times) \in Int
    <2> HIDE DEF times
    <2> QED BY <1>4, Extremes
  <1>6. Aggregate(t, k).last = Max(times)
    BY DEF Aggregate
  <1> QED BY <1>5, <1>6

(* The rows of requests that a transaction means to write.                 *)
Written(t) == {k \in RequestKeys : t.records[k] # t.loaded[k]}

WritesOK(t) == IsFiniteSet(Written(t)) /\ \A k \in Written(t) : t.records[k].last \in Int

OpenTablesOK == \A t \in opened : WritesOK(t)

LEMMA MergedFinite ==
    ASSUME RowsOK, TablesOK, NEW batch \in Seq(Reports), NEW t,
           MergedTo(t, DOMAIN batch, batch, TRUE) \/ MergedTo(t, DOMAIN batch, batch, FALSE)
    PROVE  IsFiniteSet({a \in Attempts : t[a] # None})
  <1> DEFINE f == [i \in DOMAIN batch |-> batch[i].attempt]
             named == {f[i] : i \in DOMAIN batch}
             before == {a \in Attempts : attempts[a] # None}
  <1>1. DOMAIN batch = 1 .. Len(batch) /\ Len(batch) \in Nat
    OBVIOUS
  <1>2. IsFiniteSet(DOMAIN batch)
    BY <1>1, FS_Interval
  <1>3. {a \in Attempts : t[a] # None} \subseteq before \union named
    BY DEF MergedTo
  <1> HIDE DEF f
  <1>4. IsFiniteSet(named)
    BY <1>2, ImageIsFinite
  <1>5. IsFiniteSet(before \union named)
    BY <1>4, FS_Union DEF TablesOK
  <1> QED BY <1>3, <1>5, FS_Subset

LEMMA ReadWrites ==
    ASSUME RowsOK, TablesOK, NEW batch \in Seq(Reports), NEW correction \in BOOLEAN
    PROVE  WritesOK(Read(batch, correction))
  <1> DEFINE rows == Merged(batch, correction)
             t == Read(batch, correction)
  <1>1. MergedTo(rows, DOMAIN batch, batch, correction)
    BY MergedRows DEF RowsOK
  <1>2. t.records = Recomputed(rows, batch) /\ t.loaded = requests
    BY DEF Read
  <1> HIDE DEF rows, t
  <1>3. /\ rows \in [Attempts -> {None} \union Rows]
        /\ IsFiniteSet({a \in Attempts : rows[a] # None})
    BY <1>1, MergedFinite DEF MergedTo
  <1>4. ASSUME NEW k \in Written(t)
        PROVE  k \in Refreshed(rows, batch) /\ t.records[k] = Aggregate(rows, k)
    BY <1>2, <1>4 DEF Written, Recomputed
  <1>5. IsFiniteSet(Written(t))
    <2> DEFINE f == [i \in DOMAIN batch |-> [provider |-> batch[i].attempt.provider,
                                             request |-> batch[i].request]]
               named == {f[i] : i \in DOMAIN batch}
    <2>1. ASSUME NEW k \in Written(t) PROVE k \in named
      <3>1. PICK i \in DOMAIN batch : batch[i].attempt.provider = k.provider
                                      /\ batch[i].request = k.request
        BY <1>4, <2>1 DEF Refreshed, Range
      <3>2. k \in RequestKeys
        BY <2>1 DEF Written
      <3>3. k = f[i]
        BY <3>1, <3>2, KeyFacts
      <3> QED BY <3>3
    <2> HIDE DEF f
    <2>2. DOMAIN batch = 1 .. Len(batch) /\ Len(batch) \in Nat
      OBVIOUS
    <2>3. IsFiniteSet(DOMAIN batch)
      BY <2>2, FS_Interval
    <2>4. IsFiniteSet(named)
      BY <2>3, ImageIsFinite
    <2> QED BY <2>1, <2>4, FS_Subset
  <1>6. ASSUME NEW k \in Written(t) PROVE t.records[k].last \in Int
    <2>1. Grouped(rows, k) # {}
      BY <1>4, <1>6 DEF Refreshed
    <2> QED BY <1>3, <1>4, <1>6, <2>1, AggregateLast
  <1>7. WritesOK(t)
    BY <1>5, <1>6 DEF WritesOK
  <1> QED BY <1>7 DEF t

LEMMA TablesKept ==
    ASSUME RowsOK, TablesOK, OpenTablesOK, NEW batch, NEW correction,
           IngestOf(batch, correction)
    PROVE  TablesOK' /\ OpenTablesOK'
  <1>1. PICK t \in Handled(batch, correction) : CommitOf(t, batch, correction)
    BY IngestCommits
  <1>2. batch \in Seq(Reports) /\ correction \in BOOLEAN /\ OpenOK
    BY DEF IngestOf
  <1>3. requests' = RequestsBehind(t) /\ MergedTo(attempts', DOMAIN batch, batch, correction)
    BY <1>1, IngestMerges DEF CommitOf, Commit
  <1>4. IsFiniteSet({a \in Attempts : attempts'[a] # None})
    BY <1>2, <1>3, MergedFinite
  <1>5. WritesOK(t)
    <2>1. t \in opened \/ t = Read(batch, correction)
      BY <1>1 DEF Handled
    <2> QED BY <1>2, <2>1, ReadWrites DEF OpenTablesOK
  <1>6. \A k \in RequestKeys :
           requests'[k] = IF t.records[k] = t.loaded[k] THEN requests[k]
                          ELSE IF requests[k] = None THEN t.records[k]
                          ELSE Changes(t.records[k], t.loaded[k], requests[k])
    BY <1>3 DEF RequestsBehind
  <1>7. IsFiniteSet({k \in RequestKeys : requests'[k] # None})
    <2>1. {k \in RequestKeys : requests'[k] # None}
             \subseteq {k \in RequestKeys : requests[k] # None} \union Written(t)
      BY <1>6 DEF Written
    <2>2. IsFiniteSet({k \in RequestKeys : requests[k] # None} \union Written(t))
      BY <1>5, FS_Union DEF TablesOK, WritesOK
    <2> QED BY <2>1, <2>2, FS_Subset
  <1>8. ASSUME NEW k \in RequestKeys, requests'[k] # None PROVE requests'[k].last \in Int
    <2>1. CASE k \notin Written(t)
      BY <1>6, <1>8, <2>1 DEF Written, TablesOK
    <2>2. CASE k \in Written(t)
      <3>1. t.records[k].last \in Int
        BY <1>5, <2>2 DEF WritesOK
      <3>2. CASE requests[k] = None
        BY <1>6, <2>2, <3>1, <3>2 DEF Written
      <3>3. CASE requests[k] # None
        <4>1. requests'[k] = Changes(t.records[k], t.loaded[k], requests[k])
          BY <1>6, <2>2, <3>3 DEF Written
        <4>2. requests'[k].last \in {t.records[k].last, requests[k].last}
          BY <4>1 DEF Changes, Column
        <4> QED BY <3>1, <3>3, <4>2 DEF TablesOK
      <3> QED BY <3>2, <3>3
    <2> QED BY <2>1, <2>2
  <1>9. OpenTablesOK'
    <2> DEFINE Later(u) == [u EXCEPT !.missed = @ \union Affected(attempts', requests')]
    <2>1. opened' = {Later(u) : u \in opened \ {t}}
      BY <1>1 DEF CommitOf, Commit
    <2>2. ASSUME NEW u \in opened, NEW w, w = Later(u) PROVE WritesOK(w)
      <3>1. TransactionOK(u) /\ WritesOK(u)
        BY <1>2 DEF OpenOK, OpenTablesOK
      <3>2. w.records = u.records /\ w.loaded = u.loaded
        BY <2>2, <3>1 DEF TransactionOK
      <3> QED BY <3>1, <3>2 DEF WritesOK, Written
    <2> HIDE DEF Later
    <2>3. \A v : v \in opened' => WritesOK(v)
      BY <2>1, <2>2
    <2> QED BY <2>3 DEF OpenTablesOK, WritesOK, Written
  <1> QED BY <1>4, <1>7, <1>8, <1>9 DEF TablesOK

-----------------------------------------------------------------------------
(* Only a correction takes a session out of the listing, and then a row    *)
(* may move in front of an offset.                                         *)
Anchored == walk.listing # "sessions" \/ deployment.corrections = {}

IsWalk ==
    /\ walk = [listing |-> deployment.listing, cursor |-> walk.cursor,
               done |-> walk.done, seen |-> walk.seen, again |-> walk.again,
               stable |-> walk.stable]
    /\ walk.done \in BOOLEAN
    /\ walk.cursor # None =>
          walk.cursor \in (IF walk.listing = "sessions" THEN Nat ELSE Int \X Int)

(* A stable row that the walk has not met is still in front of it, and one *)
(* that it has met is behind it.                                           *)
Ahead == \A x \in walk.stable \ walk.seen : ~ Tied(x) => ~ walk.done /\ x \in Remaining

Behind ==
    /\ ~ walk.done => walk.stable \intersect walk.seen \intersect Remaining = {}
    /\ walk.again \intersect walk.stable = {}

WalkOK ==
    walk # None => /\ IsWalk
                   /\ Anchored => walk.stable \subseteq Rows0 /\ Ahead
                   /\ walk.listing # "sessions" => Behind

LEMMA IsWalkFacts ==
    ASSUME RowsOK, walk # None, IsWalk
    PROVE  /\ walk.listing \in Listings
           /\ walk.cursor # None => walk.cursor \in (IF walk.listing = "sessions" THEN Nat
                                                     ELSE Int \X Int)
           /\ Remaining \subseteq Rows0
           /\ walk.cursor = None => Remaining = Rows0
           /\ walk.cursor # None =>
                Remaining = IF walk.listing = "sessions"
                            THEN {x \in Rows0 : Cardinality({y \in Rows0 :
                                     Precedes(PlaceOf(y), PlaceOf(x))}) >= walk.cursor}
                            ELSE {x \in Rows0 : Precedes(walk.cursor, PlaceOf(x))}
  <1>1. walk.listing = deployment.listing
    BY DEF IsWalk
  <1>2. walk.listing \in Listings
    BY <1>1, TracesAssumption DEF RowsOK
  <1> QED BY <1>2 DEF IsWalk, Remaining, Rows0, PlaceOf, Before

(* The first of the remaining rows, and what the walk remembers of them.   *)
LEMMA PageFacts ==
    ASSUME RowsOK, TablesOK, walk # None, IsWalk, NEW page, FetchPage(page)
    PROVE  /\ ~ walk.done /\ page \subseteq Remaining /\ IsFiniteSet(Remaining)
           /\ IsFiniteSet(page) /\ Cardinality(Remaining) \in Nat
           /\ Cardinality(Remaining) <= Limit => page = Remaining
           /\ Cardinality(Remaining) > Limit => Cardinality(page) = Limit /\ page # {}
           /\ \A x \in page, y \in Remaining \ page : ~ Precedes(PlaceOf(y), PlaceOf(x))
           /\ walk' # None => walk' =
                [listing |-> walk.listing, cursor |-> CursorAfter(page),
                 done |-> CursorAfter(page) = None, seen |-> walk.seen \union page,
                 again |-> walk.again \union (page \intersect walk.seen),
                 stable |-> walk.stable]
           /\ UNCHANGED <<attempts, requests, deployment>>
  <1>1. /\ ~ walk.done /\ page \subseteq Remaining
        /\ Cardinality(page) = Min({Limit, Cardinality(Remaining)})
        /\ \A x \in page, y \in Remaining \ page : ~ Precedes(PlaceOf(y), PlaceOf(x))
        /\ UNCHANGED <<attempts, requests, deployment>>
    BY DEF FetchPage, Before, PlaceOf
  <1>2. IsFiniteSet(Remaining)
    BY IsWalkFacts, ListedFacts, FS_Subset
  <1>3. IsFiniteSet(page) /\ Cardinality(Remaining) \in Nat /\ Limit \in Nat \ {0}
    BY <1>1, <1>2, FS_Subset, FS_CardinalityType, TracesAssumption
  <1>4. \A m, n \in Nat : Min({m, n}) = IF n <= m THEN n ELSE m
    <2>1. \A m, n \in Nat : \A x : (x \in {m, n} /\ \A y \in {m, n} : x =< y)
                                   <=> x = IF n <= m THEN n ELSE m
      OBVIOUS
    <2> QED BY <2>1 DEF Min
  <1>5. Cardinality(Remaining) <= Limit => page = Remaining
    BY <1>1, <1>2, <1>3, <1>4, FS_Subset
  <1>6. Cardinality(Remaining) > Limit => Cardinality(page) = Limit /\ page # {}
    BY <1>1, <1>3, <1>4, FS_EmptySet
  <1>7. walk' = [listing |-> walk.listing, cursor |-> CursorAfter(page),
                 done |-> CursorAfter(page) = None, seen |-> walk.seen \union page,
                 again |-> walk.again \union (page \intersect walk.seen),
                 stable |-> walk.stable]
    <2> DEFINE new == [walk EXCEPT !.cursor = CursorAfter(page),
                                   !.done = CursorAfter(page) = None,
                                   !.seen = @ \union page,
                                   !.again = @ \union (page \intersect walk.seen)]
    <2>1. walk' = new
      BY DEF FetchPage
    <2>2. walk = [listing |-> walk.listing, cursor |-> walk.cursor,
               done |-> walk.done, seen |-> walk.seen, again |-> walk.again,
               stable |-> walk.stable]
      BY DEF IsWalk
    <2> QED BY <2>1, <2>2
  <1> QED BY <1>1, <1>2, <1>3, <1>5, <1>6, <1>7

(* The next cursor of a listing that is walked by its keys.                *)
LEMMA NextCursor ==
    ASSUME RowsOK, TablesOK, walk # None, IsWalk, NEW page, FetchPage(page),
           walk.listing # "sessions"
    PROVE  /\ Cardinality(Remaining) <= Limit => CursorAfter(page) = None
           /\ Cardinality(Remaining) > Limit =>
                /\ CursorAfter(page) \in Int \X Int /\ CursorAfter(page) # None
                /\ \E y \in page : CursorAfter(page) = PlaceOf(y)
                /\ \A x \in page : ~ Precedes(CursorAfter(page), PlaceOf(x))
  <1>1. Cardinality(Remaining) <= Limit => CursorAfter(page) = None
    BY DEF CursorAfter
  <1>2. ASSUME Cardinality(Remaining) > Limit
        PROVE  /\ CursorAfter(page) \in Int \X Int /\ CursorAfter(page) # None
               /\ \E y \in page : CursorAfter(page) = PlaceOf(y)
               /\ \A x \in page : ~ Precedes(CursorAfter(page), PlaceOf(x))
    <2> DEFINE P == {PlaceOf(x) : x \in page}
               R == {e \in P \X P : Precedes(e[2], e[1])}
    <2>1. /\ ~ (Cardinality(Remaining) <= Limit) /\ page # {} /\ IsFiniteSet(page)
          /\ page \subseteq Rows0
      BY <1>2, PageFacts, IsWalkFacts, TracesAssumption
    <2>2. \A x \in page : PlaceOf(x) \in Int \X Int
      BY <2>1, ListedFacts, IsWalkFacts
    <2>3. P # {} /\ P \subseteq Int \X Int /\ IsFiniteSet(P)
      <3> DEFINE f == [x \in page |-> PlaceOf(x)]
      <3>1. P = {f[x] : x \in page}
        OBVIOUS
      <3> HIDE DEF f
      <3>2. IsFiniteSet({f[x] : x \in page})
        BY <2>1, ImageIsFinite
      <3> QED BY <2>1, <2>2, <3>1, <3>2
    <2>4. \A p, q \in P : <<p, q>> \in R <=> Precedes(q, p)
      OBVIOUS
    <2>5. CursorAfter(page) = CHOOSE p \in P : \A x \in page : ~ Precedes(p, PlaceOf(x))
      BY <2>1 DEF CursorAfter, PlaceOf
    <2>6. \E p \in P : \A x \in page : ~ Precedes(p, PlaceOf(x))
      <3>0. \A x \in page : PlaceOf(x) \in P
        OBVIOUS
      <3> HIDE DEF P, R
      <3>1. /\ \A p \in P : <<p, p>> \notin R
            /\ \A p, q, r \in P : <<p, q>> \in R /\ <<q, r>> \in R => <<p, r>> \in R
        <4>1. \A p \in P : p \in Int \X Int
          BY <2>3
        <4> QED BY <2>4, <4>1, PrecedesOrder
      <3>2. PICK p \in P : \A q \in P : <<q, p>> \notin R
        <4>1. /\ IsFiniteSet(P) /\ P # {} /\ \A p \in P : <<p, p>> \notin R
              /\ \A p, q, r \in P : <<p, q>> \in R /\ <<q, r>> \in R => <<p, r>> \in R
          BY <2>3, <3>1
        <4>2. \E p \in P : \A q \in P : <<q, p>> \notin R
          BY <4>1, LeastElement
        <4> QED BY <4>2
      <3> QED BY <2>4, <3>0, <3>2
    <2>7. /\ CursorAfter(page) \in P
          /\ \A x \in page : ~ Precedes(CursorAfter(page), PlaceOf(x))
      BY <2>5, <2>6
    <2>8. CursorAfter(page) \in Int \X Int
      BY <2>3, <2>7
    <2>9. CursorAfter(page) # None
      BY <2>8, TracesAssumption
    <2> QED BY <2>7, <2>8, <2>9
  <1> QED BY <1>1, <1>2

LEMMA AfterPage ==
    ASSUME UNCHANGED <<attempts, requests>>, walk'.listing = walk.listing
    PROVE  /\ Rows0' = Rows0
           /\ \A x : (PlaceOf(x))' = PlaceOf(x) /\ ((Tied(x))' <=> Tied(x))
           /\ walk'.cursor = None => Remaining' = Rows0
           /\ walk'.cursor # None /\ walk.listing # "sessions" =>
                Remaining' = {x \in Rows0 : Precedes(walk'.cursor, PlaceOf(x))}
           /\ walk'.cursor # None /\ walk.listing = "sessions" =>
                Remaining' = {x \in Rows0 : Cardinality({y \in Rows0 :
                                  Precedes(PlaceOf(y), PlaceOf(x))}) >= walk'.cursor}
  <1>1. Rows0' = Rows0
    BY DEF Rows0, Listed
  <1>2. \A x : (PlaceOf(x))' = PlaceOf(x)
    BY DEF PlaceOf, Place
  <1>3. \A x : (Tied(x))' <=> Tied(x)
    BY DEF Tied
  <1>4. walk'.cursor = None => Remaining' = Rows0'
    BY DEF Remaining, Rows0
  <1>5. walk'.cursor # None /\ walk.listing # "sessions" =>
           Remaining' = {x \in Rows0' : Precedes(walk'.cursor, (PlaceOf(x))')}
    BY DEF Remaining, Rows0, PlaceOf
  <1>6. walk'.cursor # None /\ walk.listing = "sessions" =>
           Remaining' = {x \in Rows0' : Cardinality({y \in Rows0' :
                             Precedes((PlaceOf(y))', (PlaceOf(x))')}) >= walk'.cursor}
    BY DEF Remaining, Rows0, PlaceOf, Before
  <1> QED BY <1>1, <1>2, <1>3, <1>4, <1>5, <1>6

(* A page of a listing that is walked by its keys.                         *)
LEMMA KeysetPage ==
    ASSUME RowsOK, TablesOK, walk # None, WalkOK, NEW page, FetchPage(page),
           walk.listing # "sessions", walk' # None
    PROVE  WalkOK'
  <1>0. IsWalk /\ walk.stable \subseteq Rows0 /\ Ahead /\ Behind
    BY DEF WalkOK, Anchored
  <1>1. /\ ~ walk.done /\ page \subseteq Remaining
        /\ \A x \in page, y \in Remaining \ page : ~ Precedes(PlaceOf(y), PlaceOf(x))
        /\ UNCHANGED <<attempts, requests, deployment>>
        /\ Cardinality(Remaining) \in Nat
        /\ Cardinality(Remaining) <= Limit => page = Remaining
    BY <1>0, PageFacts
  <1>2. walk' = [listing |-> walk.listing, cursor |-> CursorAfter(page),
                 done |-> CursorAfter(page) = None, seen |-> walk.seen \union page,
                 again |-> walk.again \union (page \intersect walk.seen),
                 stable |-> walk.stable]
    BY <1>0, PageFacts
  <1>3. /\ walk'.listing = walk.listing /\ walk'.cursor = CursorAfter(page)
        /\ walk'.done = (CursorAfter(page) = None) /\ walk'.seen = walk.seen \union page
        /\ walk'.again = walk.again \union (page \intersect walk.seen)
        /\ walk'.stable = walk.stable
    BY <1>2
  <1>4. /\ Cardinality(Remaining) <= Limit => CursorAfter(page) = None
        /\ Cardinality(Remaining) > Limit =>
              /\ CursorAfter(page) \in Int \X Int /\ CursorAfter(page) # None
              /\ \E y \in page : CursorAfter(page) = PlaceOf(y)
              /\ \A x \in page : ~ Precedes(CursorAfter(page), PlaceOf(x))
    BY <1>0, NextCursor
  <1>5. /\ Rows0' = Rows0
        /\ \A x : (PlaceOf(x))' = PlaceOf(x) /\ ((Tied(x))' <=> Tied(x))
        /\ walk'.cursor # None =>
              Remaining' = {x \in Rows0 : Precedes(walk'.cursor, PlaceOf(x))}
    BY <1>1, <1>3, AfterPage
  <1>6. Cardinality(Remaining) <= Limit \/ Cardinality(Remaining) > Limit
    BY <1>1, TracesAssumption
  <1>7. /\ \A x \in Rows0 : PlaceOf(x) \in Int \X Int
        /\ \A x, y \in Rows0 : x # y /\ PlaceOf(x) = PlaceOf(y) => Tied(x)
        /\ Remaining \subseteq Rows0
        /\ walk.cursor # None => /\ walk.cursor \in Int \X Int
                                 /\ Remaining = {x \in Rows0 : Precedes(walk.cursor, PlaceOf(x))}
        /\ walk.cursor = None => Remaining = Rows0
    BY <1>0, IsWalkFacts, ListedFacts
  <1>8. IsWalk'
    <2>1. walk'.cursor # None => walk'.cursor \in Int \X Int
      BY <1>3, <1>4, <1>6
    <2>2. walk'.listing = deployment' .listing
      BY <1>0, <1>1, <1>3 DEF IsWalk
    <2> QED BY <1>2, <1>3, <2>1, <2>2 DEF IsWalk
  <1>9. (walk.stable \subseteq Rows0)'
    BY <1>0, <1>3, <1>5
  <1>10. Ahead'
    <2> SUFFICES ASSUME NEW x \in walk.stable, x \notin walk.seen, x \notin page, ~ Tied(x)
                 PROVE  ~ walk'.done /\ x \in Remaining'
      BY <1>3, <1>5 DEF Ahead
    <2>1. x \in Remaining
      BY <1>0 DEF Ahead
    <2>2. Cardinality(Remaining) > Limit
      BY <1>1, <1>6, <2>1
    <2>3. PICK y \in page : CursorAfter(page) = PlaceOf(y)
      BY <1>4, <2>2
    <2>4. ~ Precedes(PlaceOf(x), PlaceOf(y)) /\ x # y /\ x \in Rows0 /\ y \in Rows0
      BY <1>1, <1>7, <2>1
    <2>5. Precedes(PlaceOf(y), PlaceOf(x))
      BY <1>7, <2>4, PrecedesOrder
    <2> QED BY <1>3, <1>4, <1>5, <2>2, <2>3, <2>4, <2>5
  <1>11. Behind'
    <2>1. walk'.again \intersect walk'.stable = {}
      <3>1. page \intersect walk.seen \intersect walk.stable = {}
        BY <1>0, <1>1 DEF Behind
      <3> QED BY <1>0, <1>3, <3>1 DEF Behind
    <2>2. ASSUME ~ walk'.done, NEW x \in walk.stable, x \in walk.seen \union page,
                 x \in Remaining'
          PROVE  FALSE
      <3>1. Cardinality(Remaining) > Limit /\ CursorAfter(page) # None
        BY <1>3, <1>4, <1>6, <2>2
      <3>2. x \in Rows0 /\ Precedes(CursorAfter(page), PlaceOf(x))
        BY <1>3, <1>5, <2>2, <3>1
      <3>3. x \notin page /\ x \in walk.seen
        BY <1>4, <2>2, <3>1, <3>2
      <3>4. x \notin Remaining
        BY <1>0, <1>1, <3>3 DEF Behind
      <3>5. walk.cursor # None /\ ~ Precedes(walk.cursor, PlaceOf(x))
        BY <1>7, <3>2, <3>4
      <3>6. PICK y \in page : CursorAfter(page) = PlaceOf(y)
        BY <1>4, <3>1
      <3>7. y \in Rows0 /\ Precedes(walk.cursor, PlaceOf(y))
        BY <1>1, <1>7, <3>5, <3>6
      <3>8. Precedes(walk.cursor, PlaceOf(x))
        BY <1>7, <3>2, <3>5, <3>6, <3>7, PrecedesOrder
      <3> QED BY <3>5, <3>8
    <2> QED BY <1>3, <2>1, <2>2 DEF Behind
  <1> QED BY <1>8, <1>9, <1>10, <1>11 DEF WalkOK

(* Where a row stands in a listing.                                        *)
Above(x) == {y \in Rows0 : Precedes(PlaceOf(y), PlaceOf(x))}

(* A row behind a page stands a page further down.                         *)
LEMMA StandsBehind ==
    ASSUME IsFiniteSet(Rows0), \A x \in Rows0 : PlaceOf(x) \in Int \X Int,
           NEW page, page \subseteq Rows0, page # {}, NEW n \in Nat,
           \A y \in page : Cardinality(Above(y)) >= n,
           NEW x \in Rows0, \A y \in page : Precedes(PlaceOf(y), PlaceOf(x))
    PROVE  Cardinality(Above(x)) >= n + Cardinality(page)
  <1> DEFINE R == {e \in page \X page : Precedes(PlaceOf(e[1]), PlaceOf(e[2]))}
  <1>0. \A y \in page : PlaceOf(y) \in Int \X Int
    OBVIOUS
  <1>1. \A y, z \in page : <<y, z>> \in R <=> Precedes(PlaceOf(y), PlaceOf(z))
    OBVIOUS
  <1> HIDE DEF R
  <1>2. /\ \A y \in page : <<y, y>> \notin R
        /\ \A y, z, w \in page : <<y, z>> \in R /\ <<z, w>> \in R => <<y, w>> \in R
    BY <1>0, <1>1, PrecedesOrder
  <1>3. IsFiniteSet(page)
    BY FS_Subset
  <1>4. PICK y \in page : \A z \in page : <<z, y>> \notin R
    BY <1>2, <1>3, LeastElement
  <1>5. Above(y) \intersect page = {}
    BY <1>1, <1>4 DEF Above
  <1>6. Above(y) \union page \subseteq Above(x)
    <2>1. \A z \in Above(y) : Precedes(PlaceOf(z), PlaceOf(x)) /\ z \in Rows0
      BY <1>0, PrecedesOrder DEF Above
    <2> QED BY <2>1 DEF Above
  <1>7. IsFiniteSet(Above(y)) /\ IsFiniteSet(Above(x))
    BY FS_Subset DEF Above
  <1>8. Cardinality(Above(y) \union page) = Cardinality(Above(y)) + Cardinality(page)
    <2>1. Cardinality(Above(y) \intersect page) = 0
      BY <1>5, FS_EmptySet
    <2>2. /\ Cardinality(Above(y)) \in Nat /\ Cardinality(page) \in Nat
          /\ Cardinality(Above(y) \union page)
              = Cardinality(Above(y)) + Cardinality(page) - Cardinality(Above(y) \intersect page)
      BY <1>3, <1>7, FS_Union, FS_CardinalityType
    <2> QED BY <2>1, <2>2
  <1>9. Cardinality(Above(y) \union page) <= Cardinality(Above(x))
    BY <1>6, <1>7, FS_Subset
  <1>10. /\ Cardinality(Above(y)) \in Nat /\ Cardinality(page) \in Nat
         /\ Cardinality(Above(x)) \in Nat
    BY <1>3, <1>7, FS_CardinalityType
  <1> QED BY <1>8, <1>9, <1>10

(* A page of the sessions.                                                 *)
LEMMA OffsetPage ==
    ASSUME RowsOK, TablesOK, walk # None, WalkOK, NEW page, FetchPage(page),
           walk.listing = "sessions", walk' # None
    PROVE  WalkOK'
  <1>0. IsWalk
    BY DEF WalkOK
  <1>1. /\ ~ walk.done /\ page \subseteq Remaining /\ IsFiniteSet(Remaining)
        /\ IsFiniteSet(page) /\ Cardinality(Remaining) \in Nat
        /\ Cardinality(Remaining) <= Limit => page = Remaining
        /\ Cardinality(Remaining) > Limit => Cardinality(page) = Limit /\ page # {}
        /\ \A x \in page, y \in Remaining \ page : ~ Precedes(PlaceOf(y), PlaceOf(x))
        /\ UNCHANGED <<attempts, requests, deployment>>
    BY <1>0, PageFacts
  <1>2. walk' = [listing |-> walk.listing, cursor |-> CursorAfter(page),
                 done |-> CursorAfter(page) = None, seen |-> walk.seen \union page,
                 again |-> walk.again \union (page \intersect walk.seen),
                 stable |-> walk.stable]
    BY <1>0, PageFacts
  <1>3. /\ walk'.listing = walk.listing /\ walk'.cursor = CursorAfter(page)
        /\ walk'.done = (CursorAfter(page) = None) /\ walk'.seen = walk.seen \union page
        /\ walk'.again = walk.again \union (page \intersect walk.seen)
        /\ walk'.stable = walk.stable
    BY <1>2
  <1>4. Limit \in Nat \ {0} /\ \A n \in Nat : n # None
    BY TracesAssumption
  <1> DEFINE n == IF walk.cursor = None THEN 0 ELSE walk.cursor
  <1>5. /\ \A x \in Rows0 : PlaceOf(x) \in Int \X Int
        /\ \A x, y \in Rows0 : x # y => PlaceOf(x) # PlaceOf(y)
        /\ IsFiniteSet(Rows0) /\ Remaining \subseteq Rows0
        /\ n \in Nat
        /\ \A x \in Remaining : Cardinality(Above(x)) >= n
    <2>1. walk.listing \in Listings
      BY <1>0, IsWalkFacts
    <2>2. /\ \A x \in Rows0 : PlaceOf(x) \in Int \X Int
          /\ \A x, y \in Rows0 : x # y => PlaceOf(x) # PlaceOf(y)
          /\ IsFiniteSet(Rows0)
      BY <2>1, ListedFacts
    <2>3. Remaining \subseteq Rows0 /\ n \in Nat
      BY <1>0, IsWalkFacts
    <2>4. ASSUME NEW x \in Remaining PROVE Cardinality(Above(x)) >= n
      <3>1. IsFiniteSet(Above(x)) /\ Cardinality(Above(x)) \in Nat
        BY <2>2, FS_Subset, FS_CardinalityType DEF Above
      <3>2. CASE walk.cursor = None
        BY <3>1, <3>2
      <3>3. CASE walk.cursor # None
        BY <1>0, <3>3, <2>4, IsWalkFacts DEF Above
      <3> QED BY <3>2, <3>3
    <2> QED BY <2>2, <2>3, <2>4
  <1>6. /\ Cardinality(Remaining) <= Limit => CursorAfter(page) = None
        /\ Cardinality(Remaining) > Limit =>
              CursorAfter(page) = n + Limit /\ CursorAfter(page) # None
              /\ CursorAfter(page) \in Nat
    BY <1>1, <1>4, <1>5 DEF CursorAfter
  <1>7. Cardinality(Remaining) <= Limit \/ Cardinality(Remaining) > Limit
    BY <1>1, <1>4
  <1>8. /\ Rows0' = Rows0
        /\ \A x : (Tied(x))' <=> Tied(x)
        /\ walk'.cursor # None =>
              Remaining' = {x \in Rows0 : Cardinality(Above(x)) >= walk'.cursor}
    BY <1>1, <1>3, AfterPage DEF Above
  <1>9. IsWalk'
    <2>1. walk'.cursor # None => walk'.cursor \in Nat
      BY <1>3, <1>6, <1>7
    <2>2. walk'.listing = deployment' .listing
      BY <1>0, <1>1, <1>3 DEF IsWalk
    <2> QED BY <1>2, <1>3, <2>1, <2>2 DEF IsWalk
  <1>10. ASSUME walk.stable \subseteq Rows0, Ahead
         PROVE  (walk.stable \subseteq Rows0)' /\ Ahead'
    <2>1. (walk.stable \subseteq Rows0)'
      BY <1>3, <1>8, <1>10
    <2> SUFFICES ASSUME NEW x \in walk.stable, x \notin walk.seen, x \notin page, ~ Tied(x)
                 PROVE  ~ walk'.done /\ x \in Remaining'
      BY <1>3, <1>8, <2>1 DEF Ahead
    <2>2. x \in Remaining
      BY <1>10 DEF Ahead
    <2>3. Cardinality(Remaining) > Limit
      BY <1>1, <1>7, <2>2
    <2>4. /\ page \subseteq Rows0 /\ page # {} /\ x \in Rows0 /\ Cardinality(page) = Limit
          /\ \A y \in page : Cardinality(Above(y)) >= n
      BY <1>1, <1>5, <2>2, <2>3
    <2>5. ASSUME NEW y \in page PROVE Precedes(PlaceOf(y), PlaceOf(x))
      <3>1. ~ Precedes(PlaceOf(x), PlaceOf(y)) /\ PlaceOf(x) # PlaceOf(y)
        BY <1>1, <1>5, <2>2, <2>4
      <3> QED BY <1>5, <2>4, <3>1, PrecedesOrder
    <2>6. Cardinality(Above(x)) >= n + Cardinality(page)
      <3> HIDE DEF n
      <3> QED BY <1>5, <2>4, <2>5, StandsBehind
    <2> QED BY <1>3, <1>6, <1>8, <2>3, <2>4, <2>6
  <1>11. (Anchored)' => Anchored
    BY <1>1, <1>3 DEF Anchored
  <1> QED BY <1>3, <1>9, <1>10, <1>11 DEF WalkOK

LEMMA RemainingNow ==
    /\ walk.cursor = None => Remaining = Rows0
    /\ walk.cursor # None /\ walk.listing # "sessions" =>
         Remaining = {x \in Rows0 : Precedes(walk.cursor, PlaceOf(x))}
    /\ walk.cursor # None /\ walk.listing = "sessions" =>
         Remaining = {x \in Rows0 : Cardinality(Above(x)) >= walk.cursor}
  BY DEF Remaining, Rows0, PlaceOf, Before, Above

(* What a transaction does to a walk: nothing, but rows may not be stable  *)
(* any more.                                                               *)
LEMMA IngestWalks ==
    ASSUME walk # None, IsWalk, NEW batch, NEW correction, IngestOf(batch, correction), RowsOK
    PROVE  /\ walk' = [listing |-> walk.listing, cursor |-> walk.cursor, done |-> walk.done,
                       seen |-> walk.seen, again |-> walk.again,
                       stable |-> Untouched(attempts', requests')]
           /\ IsWalk'
           /\ walk'.stable \subseteq walk.stable
  <1>1. PICK t : CommitOf(t, batch, correction)
    BY IngestCommits
  <1>2. walk' = [walk EXCEPT !.stable = Untouched(attempts', requests')]
    BY <1>1 DEF CommitOf, Commit
  <1>3. walk' = [listing |-> walk.listing, cursor |-> walk.cursor, done |-> walk.done,
                 seen |-> walk.seen, again |-> walk.again,
                 stable |-> Untouched(attempts', requests')]
    BY <1>2 DEF IsWalk
  <1>4. deployment' = deployment
    BY DEF IngestOf
  <1>5. IsWalk'
    BY <1>3, <1>4 DEF IsWalk
  <1>6. walk'.stable \subseteq walk.stable
    BY <1>3 DEF Untouched
  <1> QED BY <1>3, <1>5, <1>6

(* Untouched rows stay where they are.                                     *)
LEMMA UntouchedStay ==
    ASSUME walk # None, IsWalk, NEW batch, NEW correction, IngestOf(batch, correction), RowsOK,
           walk.listing # "sessions", walk.stable \subseteq Rows0
    PROVE  \A x \in walk'.stable : x \in Rows0' /\ (PlaceOf(x))' = PlaceOf(x)
  <1>1. walk.listing \in {"attempts", "requests"} /\ walk'.listing = walk.listing
    BY IsWalkFacts, IngestWalks DEF Listings
  <1>2. walk'.stable = Untouched(attempts', requests') /\ walk'.stable \subseteq walk.stable
    BY IngestWalks
  <1>3. CASE walk.listing = "attempts"
    <2>1. \A x \in walk'.stable : x \in Finals(attempts) /\ attempts'[x] = attempts[x]
      BY <1>2, <1>3 DEF Untouched, Rows0, Listed
    <2>2. \A x \in walk'.stable : x \in Finals(attempts')
      BY <2>1 DEF Finals
    <2>3. \A x \in walk'.stable : x \in Rows0'
      BY <1>1, <1>3, <2>2 DEF Rows0, Listed
    <2>4. \A x \in walk'.stable : (PlaceOf(x))' = PlaceOf(x)
      BY <1>1, <1>3, <2>1 DEF PlaceOf, Place
    <2> QED BY <2>3, <2>4
  <1>4. CASE walk.listing = "requests"
    <2>1. \A x \in walk'.stable : /\ x \in RequestKeys /\ requests[x] # None
                                  /\ requests'[x] = requests[x]
      BY <1>2, <1>4 DEF Untouched, Rows0, Listed
    <2>2. \A x \in walk'.stable : x \in Rows0'
      BY <1>1, <1>4, <2>1 DEF Rows0, Listed
    <2>3. \A x \in walk'.stable : (PlaceOf(x))' = PlaceOf(x)
      BY <1>1, <1>4, <2>1 DEF PlaceOf, Place
    <2> QED BY <2>2, <2>3
  <1> QED BY <1>1, <1>3, <1>4

LEMMA KeysetIngest ==
    ASSUME walk # None, WalkOK, NEW batch, NEW correction, IngestOf(batch, correction), RowsOK,
           walk.listing # "sessions"
    PROVE  WalkOK'
  <1>1. IsWalk /\ walk.stable \subseteq Rows0 /\ Ahead /\ Behind
    BY DEF WalkOK, Anchored
  <1>2. /\ walk' = [listing |-> walk.listing, cursor |-> walk.cursor, done |-> walk.done,
                    seen |-> walk.seen, again |-> walk.again,
                    stable |-> Untouched(attempts', requests')]
        /\ IsWalk'
        /\ walk'.stable \subseteq walk.stable
    BY <1>1, IngestWalks
  <1>3. /\ walk'.listing = walk.listing /\ walk'.cursor = walk.cursor
        /\ walk'.done = walk.done /\ walk'.seen = walk.seen /\ walk'.again = walk.again
    BY <1>2
  <1>4. \A x \in walk'.stable : x \in Rows0' /\ (PlaceOf(x))' = PlaceOf(x) /\ x \in Rows0
    BY <1>1, <1>2, UntouchedStay
  <1>5. /\ walk'.cursor = None => Remaining' = Rows0'
        /\ walk'.cursor # None =>
             Remaining' = {x \in Rows0' : Precedes(walk'.cursor, (PlaceOf(x))')}
    BY <1>3 DEF Remaining, Rows0, PlaceOf
  <1>6. \A x \in walk'.stable : x \in Remaining <=> x \in Remaining'
    BY <1>3, <1>4, <1>5, RemainingNow
  <1>7. \A x : (Tied(x))' <=> Tied(x)
    BY <1>3 DEF Tied
  <1>8. Ahead'
    BY <1>1, <1>2, <1>3, <1>6, <1>7 DEF Ahead
  <1>9. Behind'
    BY <1>1, <1>2, <1>3, <1>6 DEF Behind
  <1>10. walk'.stable \subseteq Rows0'
    BY <1>4
  <1> QED BY <1>2, <1>8, <1>9, <1>10 DEF WalkOK

(* Without corrections a session never leaves the listing, and what is in  *)
(* front of it only grows.                                                 *)
LEMMA SessionsGrow ==
    ASSUME walk # None, IsWalk, RowsOK, NEW batch, NEW correction,
           IngestOf(batch, correction), correction = FALSE, walk.listing = "sessions"
    PROVE  /\ Rows0 \subseteq Rows0'
           /\ \A x : (PlaceOf(x))' = PlaceOf(x)
  <1>1. walk'.listing = "sessions"
    BY IngestWalks
  <1>2. \A a \in Finals(attempts) : a \in Finals(attempts') /\ attempts'[a] = attempts[a]
    BY IngestMerges DEF MergedTo, Finals
  <1>3. /\ Rows0 = {SessionOf(a, attempts) : a \in Finals(attempts)}
        /\ Rows0' = {SessionOf(a, attempts') : a \in Finals(attempts')}
    BY <1>1 DEF Rows0, Listed
  <1>4. \A a \in Finals(attempts) : SessionOf(a, attempts') = SessionOf(a, attempts)
    BY <1>2 DEF SessionOf
  <1>5. \A x : (PlaceOf(x))' = PlaceOf(x)
    BY <1>1 DEF PlaceOf, Place
  <1> QED BY <1>2, <1>3, <1>4, <1>5

LEMMA ListedFinite == RowsOK /\ TablesOK /\ walk.listing \in Listings => IsFiniteSet(Rows0)
  BY ListedFacts

LEMMA StillFinite == (RowsOK /\ TablesOK /\ walk.listing \in Listings => IsFiniteSet(Rows0))'
  BY ListedFinite, PTL

LEMMA OffsetIngest ==
    ASSUME walk # None, WalkOK, NEW batch, NEW correction, IngestOf(batch, correction), RowsOK,
           walk.listing = "sessions", correction => deployment.corrections # {},
           RowsOK', TablesOK'
    PROVE  WalkOK'
  <1>1. IsWalk /\ correction \in BOOLEAN
    BY DEF WalkOK, IngestOf
  <1>2. /\ walk' = [listing |-> walk.listing, cursor |-> walk.cursor, done |-> walk.done,
                    seen |-> walk.seen, again |-> walk.again,
                    stable |-> Untouched(attempts', requests')]
        /\ IsWalk'
        /\ walk'.stable \subseteq walk.stable
    BY <1>1, IngestWalks
  <1>3. /\ walk'.listing = walk.listing /\ walk'.cursor = walk.cursor
        /\ walk'.done = walk.done /\ walk'.seen = walk.seen
    BY <1>2
  <1>4. (Anchored)' => Anchored /\ correction = FALSE
    BY <1>1, <1>3 DEF Anchored, IngestOf
  <1>5. ASSUME Anchored, correction = FALSE
        PROVE  (walk.stable \subseteq Rows0)' /\ Ahead'
    <2>1. walk.stable \subseteq Rows0 /\ Ahead
      BY <1>5 DEF WalkOK
    <2>2. Rows0 \subseteq Rows0' /\ \A x : (PlaceOf(x))' = PlaceOf(x)
      BY <1>1, <1>5, SessionsGrow
    <2>3. walk'.listing \in Listings
      BY <1>3 DEF Listings
    <2>4. \A x : Above(x) \subseteq (Above(x))'
      <3>1. \A x : (Above(x))' = {y \in Rows0' : Precedes((PlaceOf(y))', (PlaceOf(x))')}
        BY DEF Above
      <3> QED BY <2>2, <3>1 DEF Above
    <2>5. IsFiniteSet(Rows0')
      BY <2>3, StillFinite
    <2>6. \A x : IsFiniteSet((Above(x))') /\ IsFiniteSet(Above(x))
                 /\ Cardinality(Above(x)) \in Nat /\ Cardinality((Above(x))') \in Nat
                 /\ Cardinality(Above(x)) <= Cardinality((Above(x))')
      <3> SUFFICES ASSUME NEW x
                   PROVE  IsFiniteSet((Above(x))') /\ IsFiniteSet(Above(x))
                          /\ Cardinality(Above(x)) \in Nat /\ Cardinality((Above(x))') \in Nat
                          /\ Cardinality(Above(x)) <= Cardinality((Above(x))')
        OBVIOUS
      <3>1. (Above(x))' \subseteq Rows0'
        BY DEF Above
      <3>2. IsFiniteSet((Above(x))')
        BY <2>5, <3>1, FS_Subset
      <3> QED BY <2>4, <3>2, FS_Subset, FS_CardinalityType
    <2>7. /\ walk'.cursor = None => Remaining' = Rows0'
          /\ walk'.cursor # None =>
               Remaining' = {x \in Rows0' : Cardinality((Above(x))') >= walk'.cursor}
      BY <1>3 DEF Remaining, Rows0, PlaceOf, Before, Above
    <2>8. walk.cursor # None => walk.cursor \in Nat
      BY <1>1 DEF IsWalk
    <2>9. \A x : x \in Remaining => x \in Remaining'
      <3> SUFFICES ASSUME NEW x, x \in Remaining PROVE x \in Remaining'
        OBVIOUS
      <3>1. CASE walk.cursor = None
        BY <1>3, <2>2, <2>7, <3>1, RemainingNow
      <3>2. CASE walk.cursor # None
        <4>1. x \in Rows0 /\ Cardinality(Above(x)) >= walk.cursor
          BY <3>2, RemainingNow
        <4>2. Cardinality((Above(x))') >= walk.cursor
          BY <2>6, <2>8, <3>2, <4>1
        <4> QED BY <1>3, <2>2, <2>7, <3>2, <4>1, <4>2
      <3> QED BY <3>1, <3>2
    <2>10. \A x : (Tied(x))' <=> Tied(x)
      BY <1>3 DEF Tied
    <2> QED BY <1>2, <1>3, <2>1, <2>2, <2>9, <2>10 DEF Ahead
  <1> QED BY <1>2, <1>3, <1>4, <1>5 DEF WalkOK

LEMMA IngestKeepsWalk ==
    ASSUME RowsOK, TablesOK, OpenTablesOK, WalkOK, NEW batch, NEW correction,
           IngestOf(batch, correction), correction => deployment.corrections # {}, RowsOK'
    PROVE  TablesOK' /\ OpenTablesOK' /\ WalkOK'
  <1>1. TablesOK' /\ OpenTablesOK'
    BY TablesKept
  <1>2. CASE walk = None
    <2>1. PICK t : CommitOf(t, batch, correction)
      BY IngestCommits
    <2> QED BY <1>1, <1>2, <2>1 DEF CommitOf, Commit, WalkOK
  <1>3. CASE walk # None /\ walk.listing # "sessions"
    BY <1>1, <1>3, KeysetIngest
  <1>4. CASE walk # None /\ walk.listing = "sessions"
    BY <1>1, <1>4, OffsetIngest
  <1> QED BY <1>1, <1>2, <1>3, <1>4

LEMMA WalkAlone ==
    ASSUME WalkOK, TablesOK, UNCHANGED <<deployment, attempts, requests, walk>>
    PROVE  WalkOK' /\ TablesOK'
  <1>1. TablesOK'
    BY DEF TablesOK
  <1>2. Rows0' = Rows0 /\ Remaining' = Remaining
    BY DEF Rows0, Remaining, Listed, Finals, SessionOf, Before, Place
  <1>3. \A x : (Tied(x))' <=> Tied(x)
    BY DEF Tied
  <1>4. WalkOK'
    <2> SUFFICES ASSUME walk # None
                 PROVE  /\ IsWalk'
                        /\ (Anchored)' => (walk.stable \subseteq Rows0)' /\ Ahead'
                        /\ walk.listing # "sessions" => Behind'
      BY DEF WalkOK
    <2>1. IsWalk'
      BY DEF WalkOK, IsWalk
    <2>2. (Anchored)' => (walk.stable \subseteq Rows0)' /\ Ahead'
      BY <1>2, <1>3 DEF WalkOK, Anchored, Ahead
    <2>3. walk.listing # "sessions" => Behind'
      BY <1>2 DEF WalkOK, Behind
    <2> QED BY <2>1, <2>2, <2>3
  <1> QED BY <1>1, <1>4

LEMMA WalkStarts ==
    ASSUME RowsOK, StartWalk
    PROVE  WalkOK'
  <1>1. /\ walk' = [listing |-> deployment.listing, cursor |-> None, done |-> FALSE,
                    seen |-> {}, again |-> {},
                    stable |-> Listed(deployment.listing, attempts, requests)]
        /\ UNCHANGED <<deployment, attempts, requests>>
    BY DEF StartWalk
  <1>2. /\ walk'.listing = deployment.listing /\ walk'.cursor = None /\ walk'.done = FALSE
        /\ walk'.seen = {} /\ walk'.again = {}
        /\ walk'.stable = Listed(deployment.listing, attempts, requests)
    BY <1>1
  <1>3. Rows0' = walk'.stable /\ Remaining' = Rows0'
    BY <1>1, <1>2 DEF Rows0, Remaining
  <1>4. IsWalk'
    BY <1>1, <1>2 DEF IsWalk
  <1> QED BY <1>2, <1>3, <1>4 DEF WalkOK, Ahead, Behind

WalkInv == ReportsInv /\ TablesOK /\ OpenTablesOK /\ WalkOK

LEMMA OpenTablesStay ==
    ASSUME OpenTablesOK, opened' \subseteq opened
    PROVE  OpenTablesOK'
  BY DEF OpenTablesOK, WritesOK, Written

LEMMA WalkInitInv == Init => WalkInv
  <1> SUFFICES ASSUME Init PROVE WalkInv
    OBVIOUS
  <1>1. WalkOK
    BY DEF Init, WalkOK
  <1>2. OpenTablesOK
    BY DEF Init, OpenTablesOK
  <1> QED BY <1>1, <1>2, ReportsInitInv, TablesInit DEF WalkInv

LEMMA WalkNextInv == WalkInv /\ [Next]_vars => WalkInv'
  <1> SUFFICES ASSUME WalkInv, [Next]_vars PROVE WalkInv'
    OBVIOUS
  <1>1. ReportsInv' /\ ReportsInv /\ TablesOK /\ OpenTablesOK /\ WalkOK
    BY ReportsNextInv DEF WalkInv
  <1>2. ClientInv /\ RowsOK /\ OpenOK /\ RowsOK'
    BY <1>1 DEF ReportsInv
  <1>3. CASE Submit \/ FailIngest \/ UNCHANGED vars
    <2>1. UNCHANGED <<deployment, attempts, requests, walk>> /\ opened' \subseteq opened
      BY <1>3 DEF Submit, FailIngest, vars, serverVars
    <2> QED BY <1>1, <2>1, WalkAlone, OpenTablesStay DEF WalkInv
  <1>4. ASSUME NEW status \in Statuses, NEW commits \in BOOLEAN, Exchange(status, commits)
        PROVE  WalkInv'
    <2>1. CASE commits
      <3>1. Exchange(status, TRUE)
        BY <1>4, <2>1
      <3>2. IngestOf(Current, FALSE)
        BY <1>2, <3>1, ExchangeIngests
      <3> QED BY <1>1, <1>2, <3>2, IngestKeepsWalk DEF WalkInv
    <2>2. CASE ~ commits
      <3>1. UNCHANGED <<deployment, attempts, requests, walk, opened>>
        BY <1>4, <2>2 DEF Exchange, serverVars
      <3> QED BY <1>1, <3>1, WalkAlone, OpenTablesStay DEF WalkInv
    <2> QED BY <2>1, <2>2
  <1>5. ASSUME NEW slice \in late, IngestLate(slice) PROVE WalkInv'
    <2>1. IngestOf(slice, FALSE)
      BY <1>2, <1>5, LateIngests
    <2> QED BY <1>1, <1>2, <2>1, IngestKeepsWalk DEF WalkInv
  <1>6. ASSUME NEW r \in Reports, Correct(r) PROVE WalkInv'
    <2>1. IngestOf(<<r>>, TRUE) /\ deployment.corrections # {}
      BY <1>2, <1>6, CorrectIngests DEF Correct
    <2> QED BY <1>1, <1>2, <2>1, IngestKeepsWalk DEF WalkInv
  <1>7. CASE StartWalk
    <2>1. TablesOK' /\ OpenTablesOK'
      BY <1>1, <1>7, OpenTablesStay DEF StartWalk, TablesOK
    <2> QED BY <1>1, <1>2, <1>7, <2>1, WalkStarts DEF WalkInv
  <1>8. ASSUME walk # None, NEW page \in SUBSET Remaining, FetchPage(page)
        PROVE  WalkInv'
    <2>1. TablesOK' /\ OpenTablesOK'
      BY <1>1, <1>8, OpenTablesStay DEF FetchPage, TablesOK
    <2>2. WalkOK'
      <3>1. CASE walk' = None
        BY <3>1 DEF WalkOK
      <3>2. CASE walk' # None /\ walk.listing = "sessions"
        BY <1>1, <1>2, <1>8, <3>2, OffsetPage
      <3>3. CASE walk' # None /\ walk.listing # "sessions"
        BY <1>1, <1>2, <1>8, <3>3, KeysetPage
      <3> QED BY <3>1, <3>2, <3>3
    <2> QED BY <1>1, <2>1, <2>2 DEF WalkInv
  <1>9. ASSUME NEW batch \in Seq(Reports), NEW correction \in BOOLEAN,
               OpenIngest(batch, correction)
        PROVE  WalkInv'
    <2>1. /\ UNCHANGED <<deployment, attempts, requests, walk>>
          /\ opened' = opened \union {Read(batch, correction)}
      BY <1>9 DEF OpenIngest
    <2>2. WritesOK(Read(batch, correction))
      BY <1>1, <1>2, ReadWrites
    <2>3. OpenTablesOK'
      BY <1>1, <2>1, <2>2 DEF OpenTablesOK, WritesOK, Written
    <2> QED BY <1>1, <2>1, <2>3, WalkAlone DEF WalkInv
  <1>10. ASSUME NEW batch \in AtWork, OpenIngest(batch, FALSE) PROVE WalkInv'
    BY <1>2, <1>9, <1>10, AtWorkSent
  <1>11. ASSUME NEW r \in deployment.corrections, OpenIngest(<<r>>, TRUE) PROVE WalkInv'
    <2>1. r \in Sent /\ r \in Reports
      BY <1>2, SentReports DEF Sent, RowsOK
    <2>2. <<r>> \in Seq(Reports)
      BY <2>1
    <2> QED BY <1>9, <1>11, <2>2
  <1> QED BY <1>3, <1>4, <1>5, <1>6, <1>7, <1>8, <1>10, <1>11 DEF Next

(* WalkStable holds: whatever is committed between its pages, a completed  *)
(* walk has met every row that was there from its start, did not change    *)
(* and shares its id with no other, and by its keys has met none twice,    *)
(* for every size of a page.  The cursor separates what it has met from    *)
(* what it has not; the offset of the sessions does because, without       *)
(* corrections, nothing in front of a row ever leaves (StandsBehind).      *)
THEOREM WalksAreStable == Spec => []WalkStable
  <1>1. Spec => []WalkInv
    BY WalkInitInv, WalkNextInv, PTL DEF Spec
  <1>2. WalkInv => WalkStable
    <2> SUFFICES ASSUME WalkInv, walk # None,
                        walk.listing = "sessions" => deployment.corrections = {}
                 PROVE  /\ walk.done => {x \in walk.stable : ~ Tied(x)} \subseteq walk.seen
                        /\ walk.listing # "sessions" => walk.again \intersect walk.stable = {}
      BY DEF WalkStable
    <2>1. Ahead /\ (walk.listing # "sessions" => Behind)
      BY DEF WalkInv, WalkOK, Anchored
    <2> QED BY <2>1 DEF Ahead, Behind
  <1> QED BY <1>1, <1>2, PTL
==============================================================================
