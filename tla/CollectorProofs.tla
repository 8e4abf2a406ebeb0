--------------------------- MODULE CollectorProofs ---------------------------
(***************************************************************************)
(* Proofs about Collector, for every set of files, ids, outputs and lines, *)
(* every batch size and every number of deaths, lost, late and repeated    *)
(* requests and rolled back transactions.                                  *)
(***************************************************************************)
EXTENDS Collector, FiniteSetTheorems, SequenceTheorems, WellFoundedInduction, TLAPS

(* Events of which no two have one id, as parse() leaves them.             *)
OnePerId(S) == \A x, y \in S : x.id = y.id => x = y

Batches ==
    {b \in [kind : {"events", "limits", "bootstrap"}, events : SUBSET UsageEvents,
            poll : Nat] : OnePerId(b.events)}

TypeOK ==
    /\ content \in [Files -> Seq(LineValues)]
    /\ offset \in [Files -> Nat] /\ offsetOf \in [Files -> Nat]
    /\ queue \in Seq(Batches)
    /\ bootstrapDone \in BOOLEAN
    /\ pc \in {"down", "start", "mark", "cycle", "scan", "save", "drain", "await"}
    /\ pc = "await" => queue # << >>
    /\ sizes \in [Files -> Nat]
    /\ todo \subseteq Files
    /\ current \in Files \cup {NoFile}
    /\ found \subseteq UsageEvents /\ OnePerId(found)
    /\ newOffset \in Nat /\ newOffsetOf \in Nat
    /\ answer \in {"none", "ok", "error"}
    /\ wire \subseteq Batches
    /\ uncommitted \subseteq Batches
    /\ store \in [EventIds -> Nat]
    /\ limitRows \in [1 .. MaxPolls -> 0 .. 2]
    /\ imported \in BOOLEAN
    /\ emitted \subseteq UsageEvents
    /\ history \in {"unread", "read", "missing"}
    /\ generation \in [Files -> Nat]
    /\ polls \in Nat /\ crashes \in Nat
    /\ undone \subseteq Batches

(* What is parsed, queued, in transit or about to be committed was emitted. *)
OnlyEmitted ==
    /\ \A f \in Files : \A i \in 1 .. Len(content[f]) :
          content[f][i] \in UsageEvents => content[f][i] \in emitted
    /\ found \subseteq emitted
    /\ \A i \in 1 .. Len(queue) : queue[i].events \subseteq emitted
    /\ \A b \in wire \cup uncommitted : b.events \subseteq emitted

-----------------------------------------------------------------------------
(* The strengthening of CollectorLosesNothing.                             *)

Dominated(e, S) == \E q \in S : q.id = e.id /\ q.output >= e.output

Undone == UNION {b.events : b \in undone}

(* What the server has, or has answered for.                               *)
AnsweredFor(e) == Recorded(e) \/ Dominated(e, Answered) \/ Dominated(e, Undone)

Safe(e) == AnsweredFor(e) \/ Dominated(e, Queued)

HistoryAnsweredFor == imported \/ BootstrapBatch \in uncommitted \cup undone

HistorySafe ==
    HistoryAnsweredFor \/ \E i \in 1 .. Len(queue) : queue[i] = BootstrapBatch

FileKept(f) ==
    offsetOf[f] = generation[f] =>
        /\ offset[f] <= Len(content[f])
        /\ \A i \in 1 .. offset[f] : content[f][i] \in UsageEvents => Safe(content[f][i])

(* A stored offset, or the one about to be, counts in the file as it is or *)
(* in one that was there before.                                           *)
Generations ==
    /\ \A f \in Files : offsetOf[f] <= generation[f]
    /\ current \in Files => newOffsetOf <= generation[current]

(* The events of the file just parsed are found again, or safe already.    *)
ParsedKept ==
    pc = "save" =>
        /\ current \in Files
        /\ newOffsetOf = generation[current] =>
              /\ newOffset <= Len(content[current])
              /\ \A i \in 1 .. newOffset :
                    content[current][i] \in UsageEvents =>
                        \/ Safe(content[current][i])
                        \/ Dominated(content[current][i], found)

(* The flag is set after bootstrap() has run, and what it returned was     *)
(* queued before.                                                          *)
HistoryKept ==
    /\ bootstrapDone \/ pc = "mark" => history # "unread"
    /\ history = "read" => HistorySafe

(* A batch that was answered with success may leave the queue.             *)
HeadKept ==
    pc = "await" /\ answer = "ok" =>
        /\ \A e \in Head(queue).events : AnsweredFor(e)
        /\ Head(queue) = BootstrapBatch => HistoryAnsweredFor

(* Only batches the server accepts wait for their commit.                  *)
AnsweredValid == \A b \in uncommitted : Valid(b)

LossInv ==
    /\ TypeOK
    /\ Generations
    /\ \A f \in Files : FileKept(f)
    /\ ParsedKept
    /\ HistoryKept
    /\ HeadKept
    /\ AnsweredValid
-----------------------------------------------------------------------------
(* A finite set of numbers has a largest one.                              *)
LEMMA LargestExists ==
    ASSUME NEW S \in SUBSET Nat, IsFiniteSet(S), S # {}
    PROVE  \E m \in S : \A n \in S : n <= m
  <1> DEFINE Above(m) == {n \in S : n >= m}
             sizesOf  == {Cardinality(Above(m)) : m \in S}
  <1>1. \A m \in S : IsFiniteSet(Above(m)) /\ Cardinality(Above(m)) \in Nat
    BY FS_Subset, FS_CardinalityType
  <1>2. sizesOf \subseteq Nat /\ sizesOf # {}
    BY <1>1
  <1>3. PICK k \in sizesOf : \A j \in sizesOf : ~ (<<j, k>> \in OpToRel(<, Nat))
    BY <1>2, WFMin, NatLessThanWellFounded
  <1>4. PICK m \in S : k = Cardinality(Above(m))
    BY <1>3
  <1>5. ASSUME NEW n \in S, ~ (n <= m) PROVE FALSE
    <2>1. Above(n) \in SUBSET Above(m) /\ m \in Above(m) /\ m \notin Above(n)
      <3>1. m \in Nat /\ n \in Nat /\ n > m
        BY <1>5
      <3>2. \A i \in Above(n) : i \in Above(m) /\ i # m
        BY <3>1
      <3>3. m \in Above(m)
        BY <3>1
      <3> QED BY <3>2, <3>3
    <2>2. Cardinality(Above(n)) <= k /\ Cardinality(Above(n)) # k
      BY <1>1, <1>4, <2>1, FS_Subset
    <2>3. Cardinality(Above(n)) \in Nat /\ k \in Nat /\ Cardinality(Above(n)) \in sizesOf
      BY <1>1, <1>4, <1>5
    <2>4. <<Cardinality(Above(n)), k>> \in OpToRel(<, Nat)
      BY <2>2, <2>3 DEF OpToRel
    <2> QED BY <1>3, <2>3, <2>4
  <1> QED BY <1>5

LEMMA CountType ==
    \A e \in UsageEvents : e.id \in EventIds /\ e.output \in Nat /\ e.output > 0
  <1>1. \A n \in Outputs : n \in Nat /\ n > 0
    BY CollectorAssumption
  <1> QED BY <1>1 DEF UsageEvents

(* parse() keeps one event of each id, and one that is as good as any.     *)
LEMMA BestIsOne ==
    ASSUME NEW S \in SUBSET UsageEvents
    PROVE  BestPerId(S) \subseteq S /\ OnePerId(BestPerId(S))
  <1>1. \A x, y \in BestPerId(S) :
           x.id = y.id => x.output = y.output /\ x \in UsageEvents /\ y \in UsageEvents
    BY CountType DEF BestPerId
  <1>2. \A x, y \in UsageEvents : x.id = y.id /\ x.output = y.output => x = y
    BY DEF UsageEvents
  <1> QED BY <1>1, <1>2 DEF BestPerId, OnePerId

LEMMA BestCovers ==
    ASSUME NEW S \in SUBSET UsageEvents, IsFiniteSet(S), NEW e \in S
    PROVE  Dominated(e, BestPerId(S))
  <1> DEFINE same == {x \in S : x.id = e.id}
             outs == {x.output : x \in same}
             g    == [x \in same |-> x.output]
  <1>1. outs \in SUBSET Nat /\ outs # {}
    BY CountType
  <1>2. IsFiniteSet(outs)
    <2>1. IsFiniteSet(same)
      BY FS_Subset
    <2>2. g \in Surjection(same, outs)
      BY DEF Surjection
    <2> QED BY <2>1, <2>2, FS_Surjection
  <1>3. PICK m \in outs : \A n \in outs : n <= m
    BY <1>1, <1>2, LargestExists
  <1>4. PICK x \in same : m = x.output
    BY <1>3
  <1>5. x \in BestPerId(S)
    BY <1>3, <1>4 DEF BestPerId
  <1>6. x.id = e.id /\ x.output >= e.output
    BY <1>1, <1>3, <1>4
  <1> QED BY <1>5, <1>6 DEF Dominated

LEMMA LinesFinite ==
    ASSUME TypeOK, NEW f \in Files
    PROVE  IsFiniteSet(LinesRead(f) \cap UsageEvents)
  <1> DEFINE g == [i \in Positions(f) |-> content[f][i]]
  <1>1. IsFiniteSet(Positions(f))
    <2>1. StartOffset(f) + 1 \in Int /\ Len(content[f]) \in Int
      BY DEF TypeOK, StartOffset
    <2> QED BY <2>1, FS_Interval DEF Positions
  <1>2. g \in Surjection(Positions(f), LinesRead(f))
    BY DEF Surjection, LinesRead
  <1>3. IsFiniteSet(LinesRead(f))
    BY <1>1, <1>2, FS_Surjection
  <1> QED BY <1>3, FS_Intersection

-----------------------------------------------------------------------------
(* What a batch leaves in the store: for every id it carries the larger of *)
(* the stored output and its own, as Delivery has it, and no less for any. *)
LEMMA BestOfOnes ==
    ASSUME NEW S \in SUBSET UsageEvents, OnePerId(S)
    PROVE  BestPerId(S) = S
  BY CountType DEF BestPerId, OnePerId

LEMMA KeepMaxIs ==
    ASSUME NEW stored \in [EventIds -> Nat], NEW S \in SUBSET UsageEvents, OnePerId(S)
    PROVE  /\ KeepMax(stored, S) \in [EventIds -> Nat]
           /\ \A id \in EventIds : KeepMax(stored, S)[id] >= stored[id]
           /\ \A e \in S : KeepMax(stored, S)[e.id] >= e.output
           /\ KeepMax(stored, S) = Promise!KeepMaximum(stored, S)
  <1> DEFINE more(id) == \E e \in S : e.id = id /\ e.output > stored[id]
             best(id) == (CHOOSE e \in BestPerId(S) : e.id = id).output
             most(id) == CHOOSE n \in {e.output : e \in {x \in S : x.id = id}} :
                             \A e \in S : e.id = id => e.output <= n
  <1>1. ASSUME NEW e \in S PROVE best(e.id) = e.output /\ most(e.id) = e.output
    <2>1. \A x \in S : x.id = e.id => x = e
      BY DEF OnePerId
    <2>2. (CHOOSE x \in S : x.id = e.id) = e
      BY <2>1
    <2>3. best(e.id) = e.output
      BY <2>2, BestOfOnes
    <2>4. {x.output : x \in {y \in S : y.id = e.id}} = {e.output}
      BY <2>1
    <2>5. \A x \in S : x.id = e.id => x.output <= e.output
      BY <2>1, CountType
    <2>6. most(e.id) = e.output
      BY <2>4, <2>5
    <2> QED BY <2>3, <2>6
  <1>2. KeepMax(stored, S) = [id \in EventIds |-> IF more(id) THEN best(id) ELSE stored[id]]
    BY DEF KeepMax
  <1>3. Promise!KeepMaximum(stored, S)
          = [id \in EventIds |-> IF more(id) THEN most(id) ELSE stored[id]]
    BY DEF Promise!KeepMaximum
  <1> HIDE DEF more, best, most
  <1>4. ASSUME NEW id \in EventIds, more(id)
        PROVE  best(id) = most(id) /\ best(id) \in Nat /\ best(id) > stored[id]
    <2>1. PICK e \in S : e.id = id /\ e.output > stored[id]
      BY <1>4 DEF more
    <2>2. best(id) = e.output /\ most(id) = e.output
      BY <1>1, <2>1
    <2> QED BY <2>1, <2>2, CountType
  <1>5. \A id \in EventIds : stored[id] \in Nat
    OBVIOUS
  <1>6. KeepMax(stored, S) \in [EventIds -> Nat]
    BY <1>2, <1>4, <1>5
  <1>7. \A id \in EventIds : KeepMax(stored, S)[id] >= stored[id]
    BY <1>2, <1>4, <1>5
  <1>8. ASSUME NEW e \in S PROVE KeepMax(stored, S)[e.id] >= e.output
    <2>1. e.id \in EventIds /\ e.output \in Nat /\ stored[e.id] \in Nat
      BY CountType
    <2>2. CASE more(e.id)
      BY <1>1, <1>2, <2>1, <2>2
    <2>3. CASE ~ more(e.id)
      <3>1. ~ (e.output > stored[e.id])
        BY <2>3 DEF more
      <3> QED BY <1>2, <2>1, <2>3, <3>1
    <2> QED BY <2>2, <2>3
  <1>9. KeepMax(stored, S) = Promise!KeepMaximum(stored, S)
    BY <1>2, <1>3, <1>4
  <1> QED BY <1>6, <1>7, <1>8, <1>9

(* A batch that the server commits.                                        *)
LEMMA Applied ==
    ASSUME TypeOK, NEW b \in Batches, Apply(b)
    PROVE  /\ store' \in [EventIds -> Nat]
           /\ limitRows' \in [1 .. MaxPolls -> 0 .. 2]
           /\ imported' \in BOOLEAN
           /\ \A e \in UsageEvents : Recorded(e) => Recorded(e)'
           /\ Valid(b) => \A e \in b.events : Recorded(e)'
           /\ imported => imported'
           /\ b = BootstrapBatch => imported'
  <1>1. b.events \in SUBSET UsageEvents /\ OnePerId(b.events)
    BY DEF Batches
  <1>2. store \in [EventIds -> Nat]
    BY DEF TypeOK
  <1>3. /\ store' \in [EventIds -> Nat]
        /\ \A id \in EventIds : store'[id] >= store[id]
        /\ Valid(b) => \A e \in b.events : store'[e.id] >= e.output
    <2>1. CASE Valid(b)
      BY <1>1, <1>2, <2>1, KeepMaxIs DEF Apply
    <2>2. CASE ~ Valid(b)
      BY <1>2, <2>2 DEF Apply
    <2> QED BY <2>1, <2>2
  <1>4. \A e \in UsageEvents : Recorded(e) => Recorded(e)'
    BY <1>2, <1>3, CountType DEF Recorded
  <1>5. limitRows' \in [1 .. MaxPolls -> 0 .. 2]
    <2>1. limitRows \in [1 .. MaxPolls -> 0 .. 2]
      BY DEF TypeOK
    <2>2. \A n \in 0 .. 2 : (IF n = 2 THEN 2 ELSE n + 1) \in 0 .. 2
      OBVIOUS
    <2>3. CASE b.kind = "limits"
      BY <2>1, <2>2, <2>3 DEF Apply
    <2>4. CASE b.kind # "limits"
      BY <2>1, <2>4 DEF Apply
    <2> QED BY <2>3, <2>4
  <1>6. imported' \in BOOLEAN /\ (imported => imported') /\ (b = BootstrapBatch => imported')
    <2>1. imported \in BOOLEAN /\ imported' = (imported \/ b.kind = "bootstrap")
      BY DEF Apply, TypeOK
    <2>2. b = BootstrapBatch => b.kind = "bootstrap"
      BY DEF BootstrapBatch
    <2> QED BY <2>1, <2>2, Zenon
  <1>7. Valid(b) => \A e \in b.events : Recorded(e)'
    BY <1>1, <1>3 DEF Recorded
  <1> QED BY <1>3, <1>4, <1>5, <1>6, <1>7

-----------------------------------------------------------------------------
(* Types.                                                                  *)
LEMMA InitTyped == Init => TypeOK /\ OnlyEmitted
  <1> SUFFICES ASSUME Init PROVE TypeOK /\ OnlyEmitted
    OBVIOUS
  <1>1. TypeOK
    <2>1. << >> \in Seq(LineValues) /\ << >> \in Seq(Batches)
      BY EmptySeq
    <2>2. content \in [Files -> Seq(LineValues)] /\ queue \in Seq(Batches)
      BY <2>1 DEF Init
    <2>3. limitRows \in [1 .. MaxPolls -> 0 .. 2] /\ store \in [EventIds -> Nat]
      BY DEF Init
    <2>4. OnePerId(found)
      BY DEF Init, OnePerId
    <2> QED BY <2>2, <2>3, <2>4 DEF Init, TypeOK
  <1>2. OnlyEmitted
    BY EmptySeq DEF Init, OnlyEmitted
  <1> QED BY <1>1, <1>2

(* A scan that is over leaves nothing behind.                              *)
LEMMA NoScanTyped ==
    ASSUME NoScan
    PROVE  /\ sizes' \in [Files -> Nat] /\ todo' \subseteq Files
           /\ current' \in Files \cup {NoFile} /\ found' \subseteq UsageEvents
           /\ OnePerId(found)' /\ newOffset' \in Nat /\ newOffsetOf' \in Nat
           /\ found' = {} /\ current' = NoFile
  BY DEF NoScan, OnePerId

(* A batch at the end of the queue.                                        *)
LEMMA Enqueued ==
    ASSUME TypeOK, NEW b \in Batches, queue' = Append(queue, b)
    PROVE  /\ queue' \in Seq(Batches)
           /\ Len(queue') = Len(queue) + 1 /\ Len(queue) \in Nat
           /\ \A i \in 1 .. Len(queue) : queue'[i] = queue[i]
           /\ queue'[Len(queue) + 1] = b
  BY AppendProperties, LenProperties DEF TypeOK

LEMMA NewBatches ==
    /\ BootstrapBatch \in Batches
    /\ \A n \in Nat : LimitsBatch(n) \in Batches
    /\ \A S \in SUBSET UsageEvents : OnePerId(S) => EventsBatch(S) \in Batches
  BY DEF BootstrapBatch, LimitsBatch, EventsBatch, Batches, OnePerId

LEMMA Dequeued ==
    ASSUME TypeOK, queue # << >>
    PROVE  /\ Head(queue) \in Batches /\ Head(queue) = queue[1]
           /\ Tail(queue) \in Seq(Batches)
           /\ Len(queue) \in Nat /\ Len(Tail(queue)) = Len(queue) - 1
           /\ \A i \in 1 .. Len(Tail(queue)) : Tail(queue)[i] = queue[i + 1]
  BY HeadTailProperties, LenProperties DEF TypeOK

LEMMA LinesTyped ==
    ASSUME TypeOK, NEW f \in Files
    PROVE  /\ Len(content[f]) \in Nat
           /\ \A i \in 1 .. Len(content[f]) : content[f][i] \in LineValues
  BY LenProperties, ElementOfSeq DEF TypeOK

LEMMA LineAdded ==
    ASSUME TypeOK, NEW f \in Files, NEW line \in NewLines[f], AddLine(f, line)
    PROVE  /\ line \in LineValues
           /\ content' \in [Files -> Seq(LineValues)]
           /\ \A g \in Files \ {f} : content'[g] = content[g]
           /\ Len(content'[f]) = Len(content[f]) + 1 /\ Len(content[f]) \in Nat
           /\ \A i \in 1 .. Len(content[f]) : content'[f][i] = content[f][i]
           /\ content'[f][Len(content[f]) + 1] = line
  <1>1. line \in LineValues
    BY CollectorAssumption
  <1>2. content[f] \in Seq(LineValues) /\ content'[f] = Append(content[f], line)
    BY DEF TypeOK, AddLine
  <1>3. content' \in [Files -> Seq(LineValues)] /\ \A g \in Files \ {f} : content'[g] = content[g]
    BY <1>1, <1>2, AppendProperties DEF TypeOK, AddLine
  <1> QED BY <1>1, <1>2, <1>3, AppendProperties, LenProperties

LEMMA Rotated ==
    ASSUME TypeOK, NEW f \in Files, Rotate(f)
    PROVE  /\ content' \in [Files -> Seq(LineValues)]
           /\ generation' \in [Files -> Nat]
           /\ \A g \in Files \ {f} : content'[g] = content[g] /\ generation'[g] = generation[g]
           /\ content'[f] = << >> /\ generation'[f] = generation[f] + 1
  <1>1. << >> \in Seq(LineValues) /\ generation[f] \in Nat /\ generation[f] + 1 \in Nat
    BY EmptySeq DEF TypeOK
  <1> QED BY <1>1 DEF TypeOK, Rotate

LEMMA Parsed ==
    ASSUME TypeOK, NEW f \in Files, ParseFile(f)
    PROVE  /\ found' \subseteq LinesRead(f) \cap UsageEvents
           /\ OnePerId(found)'
           /\ newOffset' \in Nat /\ newOffsetOf' \in Nat
  <1>1. LinesRead(f) \cap UsageEvents \in SUBSET UsageEvents
    OBVIOUS
  <1>2. found' = BestPerId(LinesRead(f) \cap UsageEvents)
    BY DEF ParseFile
  <1>3. found' \subseteq LinesRead(f) \cap UsageEvents /\ OnePerId(found')
    BY <1>1, <1>2, BestIsOne
  <1>4. StartOffset(f) \in Nat
    BY DEF StartOffset, TypeOK
  <1>5. newOffset' \in Nat /\ newOffsetOf' \in Nat
    BY <1>4, LinesTyped DEF ParseFile, TypeOK
  <1> QED BY <1>3, <1>5 DEF OnePerId

LEMMA TypeKept == TypeOK /\ [Next]_vars => TypeOK'
  <1> SUFFICES ASSUME TypeOK, [Next]_vars PROVE TypeOK'
    OBVIOUS
  <1> USE DEF files, stateDb, scanning, server, counts
  <1>1. CASE Start
    BY <1>1 DEF Start, TypeOK, OnePerId
  <1>2. CASE QueueHistory \/ NoHistory
    <2>1. CASE QueueHistory
      BY <2>1, Enqueued, NewBatches DEF QueueHistory, TypeOK, OnePerId
    <2>2. CASE NoHistory
      BY <2>2 DEF NoHistory, TypeOK, OnePerId
    <2> QED BY <1>2, <2>1, <2>2
  <1>3. CASE MarkHistory
    BY <1>3 DEF MarkHistory, TypeOK, OnePerId
  <1>4. CASE SkipHistory
    BY <1>4 DEF SkipHistory, TypeOK, OnePerId
  <1>5. CASE BeginCycle
    BY <1>5, LinesTyped DEF BeginCycle, TypeOK, OnePerId
  <1>6. ASSUME NEW f \in Files, ParseFile(f) PROVE TypeOK'
    BY <1>6, Parsed DEF ParseFile, TypeOK
  <1>7. ASSUME NEW f \in Files, ParseDies(f) PROVE TypeOK'
    BY <1>7, NoScanTyped DEF ParseDies, TypeOK
  <1>8. ASSUME NEW f \in Files, SkipUnreadable(f) PROVE TypeOK'
    BY <1>8 DEF SkipUnreadable, TypeOK, OnePerId
  <1>9. CASE EnqueueChunk
    <2>1. PICK chunk \in Chunks(found) :
             queue' = Append(queue, EventsBatch(chunk)) /\ found' = found \ chunk
      BY <1>9 DEF EnqueueChunk
    <2>2. chunk \in SUBSET UsageEvents /\ OnePerId(chunk)
      BY <2>1 DEF Chunks, TypeOK, OnePerId
    <2>3. queue' \in Seq(Batches)
      BY <2>1, <2>2, Enqueued, NewBatches
    <2>4. found' \subseteq UsageEvents /\ OnePerId(found)'
      BY <2>1 DEF TypeOK, OnePerId
    <2> QED BY <1>9, <2>3, <2>4 DEF EnqueueChunk, TypeOK
  <1>10. CASE SaveOffset
    BY <1>10 DEF SaveOffset, TypeOK, OnePerId
  <1>11. CASE PollLimits
    BY <1>11, NoScanTyped, Enqueued, NewBatches DEF PollLimits, TypeOK
  <1>12. CASE SkipLimits
    BY <1>12, NoScanTyped DEF SkipLimits, TypeOK
  <1>13. CASE Send
    BY <1>13, Dequeued DEF Send, TypeOK, OnePerId
  <1>14. CASE MarkUploaded
    <2>1. Tail(queue) \in Seq(Batches)
      BY <1>14, Dequeued DEF MarkUploaded, TypeOK
    <2> QED BY <1>14, <2>1 DEF MarkUploaded, TypeOK, OnePerId
  <1>15. CASE UploadFails
    BY <1>15 DEF UploadFails, TypeOK, OnePerId
  <1>16. CASE QueueEmpty
    BY <1>16 DEF QueueEmpty, TypeOK, OnePerId
  <1>17. CASE Crash
    BY <1>17, NoScanTyped DEF Crash, TypeOK
  <1>18. ASSUME NEW f \in Files, Rotate(f) PROVE TypeOK'
    BY <1>18, Rotated DEF Rotate, TypeOK, OnePerId
  <1>19. ASSUME NEW f \in Files, NEW line \in NewLines[f], AddLine(f, line) PROVE TypeOK'
    <2>1. line \in LineValues /\ content' \in [Files -> Seq(LineValues)]
      BY <1>19, LineAdded
    <2>2. emitted' \subseteq UsageEvents
      BY <1>19 DEF AddLine, TypeOK
    <2>3. UNCHANGED <<generation, history, stateDb, pc, scanning, answer, wire, server, counts>>
      BY <1>19 DEF AddLine
    <2> QED BY <2>1, <2>2, <2>3 DEF TypeOK, OnePerId
  <1>20. CASE ServerAnswers
    <2> DEFINE sent == Head(queue)
    <2>1. sent \in Batches
      BY <1>20 DEF ServerAnswers, TypeOK
    <2>2. store' \in [EventIds -> Nat] /\ limitRows' \in [1 .. MaxPolls -> 0 .. 2]
            /\ imported' \in BOOLEAN
      <3>1. Apply(sent) \/ UNCHANGED <<store, limitRows, imported>>
        BY <1>20 DEF ServerAnswers
      <3> QED BY <2>1, <3>1, Applied DEF TypeOK
    <2>3. uncommitted' \subseteq Batches
      BY <1>20, <2>1 DEF ServerAnswers, TypeOK
    <2> QED BY <1>20, <2>2, <2>3 DEF ServerAnswers, TypeOK, OnePerId
  <1>21. ASSUME NEW b \in wire, ServerUnheard(b) PROVE TypeOK'
    <2>1. b \in Batches
      BY DEF TypeOK
    <2> QED BY <1>21, <2>1, Applied DEF ServerUnheard, TypeOK, OnePerId
  <1>22. ASSUME NEW b \in wire, Lose(b) PROVE TypeOK'
    BY <1>22 DEF Lose, TypeOK, OnePerId
  <1>23. ASSUME NEW b \in uncommitted, CommitAnswered(b) PROVE TypeOK'
    <2>1. b \in Batches
      BY DEF TypeOK
    <2> QED BY <1>23, <2>1, Applied DEF CommitAnswered, TypeOK, OnePerId
  <1>24. ASSUME NEW b \in uncommitted, AbortAnswered(b) PROVE TypeOK'
    BY <1>24 DEF AbortAnswered, TypeOK, OnePerId
  <1>25. CASE UNCHANGED vars
    BY <1>25 DEF vars, TypeOK, OnePerId
  <1> QED
    BY <1>1, <1>2, <1>3, <1>4, <1>5, <1>6, <1>7, <1>8, <1>9, <1>10, <1>11, <1>12,
       <1>13, <1>14, <1>15, <1>16, <1>17, <1>18, <1>19, <1>20, <1>21, <1>22, <1>23,
       <1>24, <1>25 DEF Next, Daemon, Transit, Commits

(* The state of the collector and of the server has its types, whatever is *)
(* written, lost, late or repeated, and wherever the daemon dies; it waits *)
(* for an answer only while the batch it sent is at the head of the queue. *)
THEOREM CollectorTyped == Spec => []TypeOK
  <1>1. Init => TypeOK
    BY InitTyped
  <1> QED BY <1>1, TypeKept, PTL DEF Spec

-----------------------------------------------------------------------------
(* The refinement of Delivery.                                             *)

(* What is recorded was emitted, on every way from a file to the store.    *)
LEMMA OnlyEmittedKept == TypeOK /\ OnlyEmitted /\ [Next]_vars => OnlyEmitted'
  <1> SUFFICES ASSUME TypeOK, OnlyEmitted, [Next]_vars PROVE OnlyEmitted'
    OBVIOUS
  <1> USE DEF files, stateDb, scanning, server, counts, OnlyEmitted
  <1>1. CASE Start \/ MarkHistory \/ SkipHistory \/ NoHistory \/ BeginCycle \/ UploadFails \/ QueueEmpty
    BY <1>1 DEF Start, MarkHistory, SkipHistory, NoHistory, BeginCycle, UploadFails, QueueEmpty
  <1>2. CASE QueueHistory
    BY <1>2, Enqueued, NewBatches DEF QueueHistory, BootstrapBatch
  <1>3. ASSUME NEW f \in Files, ParseFile(f) PROVE OnlyEmitted'
    <2>1. \A e \in LinesRead(f) \cap UsageEvents : e \in emitted
      <3>1. ASSUME NEW i \in Positions(f), content[f][i] \in UsageEvents
            PROVE  content[f][i] \in emitted
        <4>1. StartOffset(f) \in Nat /\ Len(content[f]) \in Nat
          BY LinesTyped DEF StartOffset, TypeOK
        <4>2. i \in 1 .. Len(content[f])
          BY <4>1 DEF Positions
        <4> QED BY <3>1, <4>2
      <3> QED BY <3>1 DEF LinesRead
    <2> QED BY <1>3, <2>1, Parsed DEF ParseFile
  <1>4. ASSUME NEW f \in Files, ParseDies(f) \/ SkipUnreadable(f) PROVE OnlyEmitted'
    BY <1>4, NoScanTyped DEF ParseDies, SkipUnreadable
  <1>5. CASE EnqueueChunk
    <2>1. PICK chunk \in Chunks(found) :
             queue' = Append(queue, EventsBatch(chunk)) /\ found' = found \ chunk
      BY <1>5 DEF EnqueueChunk
    <2>2. chunk \in SUBSET found /\ chunk \in SUBSET UsageEvents /\ OnePerId(chunk)
      BY <2>1 DEF Chunks, TypeOK, OnePerId
    <2>3. EventsBatch(chunk) \in Batches /\ EventsBatch(chunk).events \subseteq emitted
      BY <2>2, NewBatches DEF EventsBatch
    <2>4. \A i \in 1 .. Len(queue') : queue'[i].events \subseteq emitted
      BY <2>1, <2>3, Enqueued
    <2> QED BY <1>5, <2>1, <2>4 DEF EnqueueChunk
  <1>6. CASE SaveOffset
    BY <1>6 DEF SaveOffset
  <1>7. CASE PollLimits
    <2>1. polls + 1 \in Nat
      BY DEF TypeOK
    <2>2. LimitsBatch(polls + 1) \in Batches /\ LimitsBatch(polls + 1).events = {}
      BY <2>1, NewBatches DEF LimitsBatch
    <2>3. \A i \in 1 .. Len(queue') : queue'[i].events \subseteq emitted
      BY <1>7, <2>2, Enqueued DEF PollLimits
    <2> QED BY <1>7, <2>3, NoScanTyped DEF PollLimits
  <1>8. CASE SkipLimits \/ Crash
    BY <1>8, NoScanTyped DEF SkipLimits, Crash
  <1>9. CASE Send
    BY <1>9, Dequeued DEF Send
  <1>10. CASE MarkUploaded
    BY <1>10, Dequeued DEF MarkUploaded, TypeOK
  <1>11. ASSUME NEW f \in Files, Rotate(f) PROVE OnlyEmitted'
    BY <1>11, Rotated, EmptySeq DEF Rotate
  <1>12. ASSUME NEW f \in Files, NEW line \in NewLines[f], AddLine(f, line) PROVE OnlyEmitted'
    <2>1. emitted \subseteq emitted' /\ (line \in UsageEvents => line \in emitted')
      BY <1>12 DEF AddLine
    <2>2. \A g \in Files : \A i \in 1 .. Len(content'[g]) :
             content'[g][i] \in UsageEvents => content'[g][i] \in emitted'
      BY <1>12, <2>1, LineAdded
    <2> QED BY <1>12, <2>1, <2>2 DEF AddLine
  <1>13. CASE ServerAnswers
    <2>1. Head(queue) \in wire
      BY <1>13 DEF ServerAnswers
    <2>2. wire' \subseteq wire /\ uncommitted' \subseteq uncommitted \cup wire
      BY <1>13, <2>1 DEF ServerAnswers
    <2> QED BY <1>13, <2>2 DEF ServerAnswers
  <1>14. ASSUME NEW b \in wire, ServerUnheard(b) \/ Lose(b) PROVE OnlyEmitted'
    BY <1>14 DEF ServerUnheard, Lose
  <1>15. ASSUME NEW b \in uncommitted, CommitAnswered(b) \/ AbortAnswered(b) PROVE OnlyEmitted'
    BY <1>15 DEF CommitAnswered, AbortAnswered
  <1>16. CASE UNCHANGED vars
    BY <1>16 DEF vars
  <1> QED
    BY <1>1, <1>2, <1>3, <1>4, <1>5, <1>6, <1>7, <1>8, <1>9, <1>10, <1>11, <1>12,
       <1>13, <1>14, <1>15, <1>16 DEF Next, Daemon, Transit, Commits

(* A batch the server commits is a Record of Delivery, or no change.       *)
LEMMA AppliedPromised ==
    ASSUME TypeOK, NEW b \in Batches, b.events \subseteq emitted, Apply(b), UNCHANGED emitted
    PROVE  [Promise!Next]_<<emitted, store>>
  <1>1. CASE Valid(b)
    <2>1. b.events \in SUBSET UsageEvents /\ OnePerId(b.events)
      BY DEF Batches
    <2>2. store' = Promise!KeepMaximum(store, b.events)
      BY <1>1, <2>1, KeepMaxIs DEF Apply, TypeOK
    <2>3. Promise!Record(b.events)
      BY <2>2 DEF Promise!Record
    <2> QED BY <2>3 DEF Promise!Next
  <1>2. CASE ~ Valid(b)
    BY <1>2 DEF Apply
  <1> QED BY <1>1, <1>2

LEMMA StepPromised == TypeOK /\ OnlyEmitted /\ [Next]_vars => [Promise!Next]_<<emitted, store>>
  <1> SUFFICES ASSUME TypeOK, OnlyEmitted, [Next]_vars PROVE [Promise!Next]_<<emitted, store>>
    OBVIOUS
  <1> USE DEF files, stateDb, scanning, server, counts
  <1>1. CASE Start \/ QueueHistory \/ MarkHistory \/ SkipHistory \/ NoHistory \/ BeginCycle
    BY <1>1 DEF Start, QueueHistory, MarkHistory, SkipHistory, NoHistory, BeginCycle
  <1>2. ASSUME NEW f \in Files, ParseFile(f) \/ ParseDies(f) \/ SkipUnreadable(f)
        PROVE  UNCHANGED <<emitted, store>>
    BY <1>2 DEF ParseFile, ParseDies, SkipUnreadable
  <1>3. CASE EnqueueChunk \/ SaveOffset \/ PollLimits \/ SkipLimits
    BY <1>3 DEF EnqueueChunk, SaveOffset, PollLimits, SkipLimits
  <1>4. CASE Send \/ MarkUploaded \/ UploadFails \/ QueueEmpty \/ Crash
    BY <1>4 DEF Send, MarkUploaded, UploadFails, QueueEmpty, Crash
  <1>5. ASSUME NEW f \in Files, Rotate(f) PROVE UNCHANGED <<emitted, store>>
    BY <1>5 DEF Rotate
  <1>6. ASSUME NEW f \in Files, NEW line \in NewLines[f], AddLine(f, line)
        PROVE  [Promise!Next]_<<emitted, store>>
    <2>1. CASE line \in UsageEvents
      <3>1. Promise!Emit(line) /\ line \in Promise!Emittable
        BY <1>6, <2>1 DEF AddLine, Promise!Emit, Promise!Emittable, UsageEvents
      <3> QED BY <3>1 DEF Promise!Next
    <2>2. CASE line \notin UsageEvents
      BY <1>6, <2>2 DEF AddLine
    <2> QED BY <2>1, <2>2
  <1>7. CASE ServerAnswers
    <2>1. Head(queue) \in Batches /\ Head(queue).events \subseteq emitted
      BY <1>7 DEF ServerAnswers, TypeOK, OnlyEmitted
    <2>2. Apply(Head(queue)) \/ UNCHANGED store
      BY <1>7 DEF ServerAnswers
    <2> QED BY <1>7, <2>1, <2>2, AppliedPromised DEF ServerAnswers
  <1>8. ASSUME NEW b \in wire, ServerUnheard(b) PROVE [Promise!Next]_<<emitted, store>>
    BY <1>8, AppliedPromised DEF ServerUnheard, TypeOK, OnlyEmitted
  <1>9. ASSUME NEW b \in wire, Lose(b) PROVE UNCHANGED <<emitted, store>>
    BY <1>9 DEF Lose
  <1>10. ASSUME NEW b \in uncommitted, CommitAnswered(b)
         PROVE  [Promise!Next]_<<emitted, store>>
    BY <1>10, AppliedPromised DEF CommitAnswered, TypeOK, OnlyEmitted
  <1>11. ASSUME NEW b \in uncommitted, AbortAnswered(b) PROVE UNCHANGED <<emitted, store>>
    BY <1>11 DEF AbortAnswered
  <1>12. CASE UNCHANGED vars
    BY <1>12 DEF vars
  <1> QED
    BY <1>1, <1>2, <1>3, <1>4, <1>5, <1>6, <1>7, <1>8, <1>9, <1>10, <1>11, <1>12
       DEF Next, Daemon, Transit, Commits

(* Collector and server together deliver what Delivery promises: whatever  *)
(* is lost, late, repeated or rolled back, the server records only events  *)
(* that were emitted, keeps the largest output of each id and never takes  *)
(* one back (upload.py, services/ingest.py).                               *)
THEOREM ImplementsDelivery == Spec => DeliversAsPromised
  <1>1. Init => Promise!Init
    BY DEF Init, Promise!Init, Promise!Nothing
  <1>2. Init => TypeOK /\ OnlyEmitted
    BY InitTyped
  <1>3. TypeOK /\ OnlyEmitted /\ [Next]_vars => TypeOK' /\ OnlyEmitted'
    BY TypeKept, OnlyEmittedKept
  <1> QED BY <1>1, <1>2, <1>3, StepPromised, PTL DEF Spec, DeliversAsPromised, Promise!Spec

-----------------------------------------------------------------------------
(* Nothing that is safe becomes unsafe.                                    *)
KeepsSafe ==
    /\ \A e \in UsageEvents : AnsweredFor(e) => AnsweredFor(e)'
    /\ \A e \in UsageEvents : Safe(e) => Safe(e)'
    /\ HistoryAnsweredFor => HistoryAnsweredFor'
    /\ HistorySafe => HistorySafe'

(* What stands for an event stands for every earlier report of its id.     *)
LEMMA StandsForEarlier ==
    ASSUME TypeOK', NEW q \in UsageEvents, NEW e \in UsageEvents,
           q.id = e.id, q.output >= e.output
    PROVE  /\ Recorded(q)' => Recorded(e)'
           /\ AnsweredFor(q)' => AnsweredFor(e)'
  <1>1. e.id \in EventIds /\ e.output \in Nat /\ q.output \in Nat
    BY CountType
  <1>2. store'[e.id] \in Nat
    BY <1>1 DEF TypeOK
  <1>3. Recorded(q)' => Recorded(e)'
    BY <1>1, <1>2 DEF Recorded
  <1>4. ASSUME NEW S, \A x \in S : x \in UsageEvents PROVE Dominated(q, S) => Dominated(e, S)
    BY <1>1, <1>4, CountType DEF Dominated
  <1>5. /\ \A x \in Answered' : x \in UsageEvents
        /\ \A x \in Undone' : x \in UsageEvents
    BY DEF TypeOK, Batches, Answered, Undone
  <1>6. /\ Dominated(q, Answered)' => Dominated(e, Answered)'
        /\ Dominated(q, Undone)' => Dominated(e, Undone)'
    BY <1>4, <1>5 DEF Dominated
  <1> QED BY <1>3, <1>6 DEF AnsweredFor

LEMMA AnswersStand ==
    ASSUME TypeOK, TypeOK',
           \A e \in UsageEvents : Recorded(e) => Recorded(e)',
           imported => imported', undone \subseteq undone',
           \A b \in uncommitted :
              \/ b \in uncommitted' \cup undone'
              \/ (\A e \in b.events : Recorded(e)') /\ (b = BootstrapBatch => imported')
    PROVE  /\ \A e \in UsageEvents : AnsweredFor(e) => AnsweredFor(e)'
           /\ HistoryAnsweredFor => HistoryAnsweredFor'
  <1>1. ASSUME NEW e \in UsageEvents, Dominated(e, Answered) PROVE AnsweredFor(e)'
    <2>1. PICK b \in uncommitted : \E q \in b.events : q.id = e.id /\ q.output >= e.output
      BY <1>1 DEF Dominated, Answered
    <2>2. PICK q \in b.events : q.id = e.id /\ q.output >= e.output
      BY <2>1
    <2>3. q \in UsageEvents
      BY DEF TypeOK, Batches
    <2>4. CASE b \in uncommitted' \cup undone'
      <3>1. q \in Answered' \/ q \in Undone'
        BY <2>4 DEF Answered, Undone
      <3> QED BY <2>2, <3>1 DEF AnsweredFor, Dominated
    <2>5. CASE \A x \in b.events : Recorded(x)'
      <3>1. Recorded(e)'
        BY <2>2, <2>3, <2>5, StandsForEarlier
      <3> QED BY <3>1 DEF AnsweredFor
    <2> QED BY <2>4, <2>5
  <1>2. ASSUME NEW e \in UsageEvents, Dominated(e, Undone) PROVE Dominated(e, Undone)'
    <2>1. Undone \subseteq Undone'
      BY DEF Undone
    <2> QED BY <1>2, <2>1 DEF Dominated
  <1>3. HistoryAnsweredFor => HistoryAnsweredFor'
    BY DEF HistoryAnsweredFor
  <1> QED BY <1>1, <1>2, <1>3 DEF AnsweredFor

(* A batch leaves the queue only when the server has answered for it.      *)
LEMMA SafetyStands ==
    ASSUME TypeOK, TypeOK',
           \A e \in UsageEvents : AnsweredFor(e) => AnsweredFor(e)',
           HistoryAnsweredFor => HistoryAnsweredFor',
           \A i \in 1 .. Len(queue) :
              \/ \E j \in 1 .. Len(queue') : queue'[j] = queue[i]
              \/ /\ \A e \in queue[i].events : AnsweredFor(e)'
                 /\ queue[i] = BootstrapBatch => HistoryAnsweredFor'
    PROVE  KeepsSafe
  <1>1. /\ DOMAIN queue = 1 .. Len(queue) /\ DOMAIN queue' = 1 .. Len(queue')
        /\ \A i \in 1 .. Len(queue) : queue[i].events \subseteq UsageEvents
    <2>1. queue \in Seq(Batches) /\ queue' \in Seq(Batches)
      BY DEF TypeOK
    <2>2. \A i \in 1 .. Len(queue) : queue[i] \in Batches
      BY <2>1, ElementOfSeq
    <2> QED BY <2>1, <2>2, LenProperties DEF Batches
  <1>2. ASSUME NEW e \in UsageEvents, Dominated(e, Queued) PROVE Safe(e)'
    <2>1. PICK i \in 1 .. Len(queue) :
             \E q \in queue[i].events : q.id = e.id /\ q.output >= e.output
      BY <1>1, <1>2 DEF Dominated, Queued
    <2>2. PICK q \in queue[i].events : q.id = e.id /\ q.output >= e.output
      BY <2>1
    <2>3. q \in UsageEvents
      BY <1>1
    <2>4. ASSUME NEW j \in 1 .. Len(queue'), queue'[j] = queue[i] PROVE Safe(e)'
      <3>1. q \in Queued'
        BY <1>1, <2>4 DEF Queued
      <3> QED BY <2>2, <3>1 DEF Safe, Dominated
    <2>5. CASE \A x \in queue[i].events : AnsweredFor(x)'
      <3>1. AnsweredFor(e)'
        BY <2>2, <2>3, <2>5, StandsForEarlier
      <3> QED BY <3>1 DEF Safe
    <2> QED BY <2>4, <2>5
  <1>3. HistorySafe => HistorySafe'
    BY DEF HistorySafe
  <1> QED BY <1>2, <1>3 DEF KeepsSafe, Safe

LEMMA StepSafe == LossInv /\ [Next]_vars => KeepsSafe
  <1> SUFFICES ASSUME LossInv, [Next]_vars PROVE KeepsSafe
    OBVIOUS
  <1>t. TypeOK /\ TypeOK'
    BY TypeKept DEF LossInv
  <1> DEFINE answers == UNCHANGED <<store, imported, uncommitted, undone>>
  <1> USE DEF files, stateDb, scanning, server, counts
  <1>1. ASSUME answers, UNCHANGED queue PROVE KeepsSafe
    <2>1. /\ \A e \in UsageEvents : AnsweredFor(e) => AnsweredFor(e)'
          /\ HistoryAnsweredFor => HistoryAnsweredFor'
      BY <1>t, <1>1, AnswersStand DEF Recorded
    <2> QED BY <1>t, <1>1, <2>1, SafetyStands
  <1>2. ASSUME answers, NEW b \in Batches, queue' = Append(queue, b) PROVE KeepsSafe
    <2>1. /\ \A e \in UsageEvents : AnsweredFor(e) => AnsweredFor(e)'
          /\ HistoryAnsweredFor => HistoryAnsweredFor'
      BY <1>t, <1>2, AnswersStand DEF Recorded
    <2>2. \A i \in 1 .. Len(queue) : i \in 1 .. Len(queue') /\ queue'[i] = queue[i]
      BY <1>t, <1>2, Enqueued
    <2> QED BY <1>t, <2>1, <2>2, SafetyStands
  <1>3. CASE QueueHistory
    BY <1>2, <1>3, NewBatches DEF QueueHistory
  <1>4. CASE EnqueueChunk
    <2>1. PICK chunk \in Chunks(found) : queue' = Append(queue, EventsBatch(chunk))
      BY <1>4 DEF EnqueueChunk
    <2>2. chunk \in SUBSET UsageEvents /\ OnePerId(chunk)
      BY <1>t, <2>1 DEF Chunks, TypeOK, OnePerId
    <2> QED BY <1>2, <1>4, <2>1, <2>2, NewBatches DEF EnqueueChunk
  <1>5. CASE PollLimits
    <2>1. polls + 1 \in Nat
      BY <1>t DEF TypeOK
    <2> QED BY <1>2, <1>5, <2>1, NewBatches DEF PollLimits
  <1>6. CASE MarkUploaded
    <2>1. answer = "ok" /\ pc = "await" /\ answers /\ queue' = Tail(queue)
      BY <1>6 DEF MarkUploaded, Confirmed
    <2>2. /\ \A e \in UsageEvents : AnsweredFor(e) => AnsweredFor(e)'
          /\ HistoryAnsweredFor => HistoryAnsweredFor'
      BY <1>t, <2>1, AnswersStand DEF Recorded
    <2>3. queue # << >> /\ Head(queue) = queue[1] /\ Head(queue).events \subseteq UsageEvents
      BY <1>t, <2>1, Dequeued DEF TypeOK, Batches
    <2>4. /\ \A e \in queue[1].events : AnsweredFor(e)'
          /\ queue[1] = BootstrapBatch => HistoryAnsweredFor'
      BY <2>1, <2>2, <2>3 DEF LossInv, HeadKept
    <2>5. ASSUME NEW i \in 1 .. Len(queue), i # 1
          PROVE  \E j \in 1 .. Len(queue') : queue'[j] = queue[i]
      <3>1. i - 1 \in 1 .. Len(queue') /\ queue'[i - 1] = queue[(i - 1) + 1] /\ (i - 1) + 1 = i
        BY <1>t, <2>1, <2>3, <2>5, Dequeued
      <3> QED BY <3>1
    <2> QED BY <1>t, <2>2, <2>4, <2>5, SafetyStands
  <1>7. ASSUME UNCHANGED queue, undone \subseteq undone', imported => imported',
               \A e \in UsageEvents : Recorded(e) => Recorded(e)',
               \A b \in uncommitted :
                 \/ b \in uncommitted' \cup undone'
                 \/ (\A e \in b.events : Recorded(e)') /\ (b = BootstrapBatch => imported')
        PROVE  KeepsSafe
    <2>1. /\ \A e \in UsageEvents : AnsweredFor(e) => AnsweredFor(e)'
          /\ HistoryAnsweredFor => HistoryAnsweredFor'
      BY <1>t, <1>7, AnswersStand
    <2> QED BY <1>t, <1>7, <2>1, SafetyStands
  <1>8. CASE ServerAnswers
    <2>1. Head(queue) \in Batches
      BY <1>t, <1>8 DEF ServerAnswers, TypeOK
    <2>2. /\ UNCHANGED <<queue, undone>> /\ uncommitted \subseteq uncommitted'
          /\ Apply(Head(queue)) \/ UNCHANGED <<store, imported>>
      BY <1>8 DEF ServerAnswers
    <2>3. (imported => imported') /\ \A e \in UsageEvents : Recorded(e) => Recorded(e)'
      BY <1>t, <2>1, <2>2, Applied DEF Recorded
    <2> QED BY <1>7, <2>2, <2>3
  <1>9. ASSUME NEW b \in wire, ServerUnheard(b) PROVE KeepsSafe
    <2>1. b \in Batches /\ Apply(b) /\ UNCHANGED <<queue, undone, uncommitted>>
      BY <1>t, <1>9 DEF ServerUnheard, TypeOK
    <2> QED BY <1>t, <1>7, <2>1, Applied
  <1>10. ASSUME NEW b \in uncommitted, CommitAnswered(b) PROVE KeepsSafe
    <2>1. b \in Batches /\ Valid(b) /\ Apply(b) /\ UNCHANGED <<queue, undone>>
            /\ uncommitted' = uncommitted \ {b}
      BY <1>t, <1>10 DEF CommitAnswered, TypeOK, LossInv, AnsweredValid
    <2> QED BY <1>t, <1>7, <2>1, Applied
  <1>11. ASSUME NEW b \in uncommitted, AbortAnswered(b) PROVE KeepsSafe
    <2>1. /\ UNCHANGED <<queue, store, imported>>
          /\ undone' = undone \cup {b} /\ uncommitted' = uncommitted \ {b}
      BY <1>11 DEF AbortAnswered
    <2> QED BY <1>7, <2>1 DEF Recorded
  <1>12. ASSUME NEW b \in wire, Lose(b) PROVE KeepsSafe
    BY <1>1, <1>12 DEF Lose
  <1>13. CASE Start \/ MarkHistory \/ SkipHistory \/ NoHistory \/ BeginCycle \/ UploadFails \/ QueueEmpty
    BY <1>1, <1>13 DEF Start, MarkHistory, SkipHistory, NoHistory, BeginCycle, UploadFails, QueueEmpty
  <1>14. ASSUME NEW f \in Files, ParseFile(f) \/ ParseDies(f) \/ SkipUnreadable(f) PROVE KeepsSafe
    BY <1>1, <1>14 DEF ParseFile, ParseDies, SkipUnreadable
  <1>15. CASE SaveOffset \/ SkipLimits \/ Send \/ Crash
    BY <1>1, <1>15 DEF SaveOffset, SkipLimits, Send, Crash
  <1>16. ASSUME NEW f \in Files, Rotate(f) \/ \E line \in NewLines[f] : AddLine(f, line)
         PROVE  KeepsSafe
    BY <1>1, <1>16 DEF Rotate, AddLine
  <1>17. CASE UNCHANGED vars
    BY <1>1, <1>17 DEF vars
  <1> QED
    BY <1>3, <1>4, <1>5, <1>6, <1>8, <1>9, <1>10, <1>11, <1>12, <1>13, <1>14, <1>15,
       <1>16, <1>17 DEF Next, Daemon, Transit, Commits

-----------------------------------------------------------------------------
(* What each action does to the variables that the invariant relates.      *)
FilesSame == UNCHANGED <<content, generation>>
SavedSame == UNCHANGED <<offset, offsetOf>>
ScanSame  == UNCHANGED <<current, found, newOffset, newOffsetOf>>

LEMMA InitKept == Init => LossInv
  <1> SUFFICES ASSUME Init PROVE LossInv
    OBVIOUS
  <1>1. TypeOK
    BY InitTyped
  <1>2. \A f \in Files : FileKept(f)
    BY EmptySeq DEF Init, FileKept
  <1>3. Generations
    BY CollectorAssumption DEF Init, Generations
  <1> QED BY <1>1, <1>2, <1>3 DEF Init, LossInv, ParsedKept, HistoryKept, HeadKept, AnsweredValid

LEMMA GenerationsKept == LossInv /\ [Next]_vars => Generations'
  <1> SUFFICES ASSUME TypeOK, Generations, ParsedKept, [Next]_vars PROVE Generations'
    BY DEF LossInv
  <1> USE DEF files, stateDb, scanning, server, counts, Generations
  <1>1. ASSUME FilesSame, SavedSame, UNCHANGED <<current, newOffsetOf>> PROVE Generations'
    BY <1>1 DEF FilesSame, SavedSame
  <1>2. ASSUME FilesSame, SavedSame, NoScan PROVE Generations'
    BY <1>2, NoScanTyped, CollectorAssumption DEF FilesSame, SavedSame
  <1>3. ASSUME NEW f \in Files, ParseFile(f) PROVE Generations'
    BY <1>3 DEF ParseFile, TypeOK
  <1>4. CASE SaveOffset
    BY <1>4, CollectorAssumption DEF SaveOffset, ParsedKept, TypeOK
  <1>5. ASSUME NEW f \in Files, Rotate(f) PROVE Generations'
    BY <1>5, Rotated DEF Rotate, TypeOK
  <1>6. ASSUME NEW f \in Files, NEW line \in NewLines[f], AddLine(f, line) PROVE Generations'
    BY <1>6 DEF AddLine
  <1>7. CASE Start \/ QueueHistory \/ MarkHistory \/ SkipHistory \/ NoHistory \/ BeginCycle \/ EnqueueChunk
    BY <1>1, <1>7 DEF Start, QueueHistory, MarkHistory, SkipHistory, NoHistory, BeginCycle, EnqueueChunk,
                      FilesSame, SavedSame
  <1>8. ASSUME NEW f \in Files, ParseDies(f) \/ SkipUnreadable(f) PROVE Generations'
    BY <1>1, <1>2, <1>8 DEF ParseDies, SkipUnreadable, FilesSame, SavedSame
  <1>9. CASE PollLimits \/ SkipLimits \/ Crash
    BY <1>2, <1>9 DEF PollLimits, SkipLimits, Crash, FilesSame, SavedSame
  <1>10. CASE Send \/ MarkUploaded \/ UploadFails \/ QueueEmpty \/ ServerAnswers
    BY <1>1, <1>10 DEF Send, MarkUploaded, UploadFails, QueueEmpty, ServerAnswers,
                       FilesSame, SavedSame
  <1>11. ASSUME NEW b \in wire \cup uncommitted,
                ServerUnheard(b) \/ Lose(b) \/ CommitAnswered(b) \/ AbortAnswered(b)
         PROVE  Generations'
    BY <1>1, <1>11 DEF ServerUnheard, Lose, CommitAnswered, AbortAnswered, FilesSame, SavedSame
  <1>12. CASE UNCHANGED vars
    BY <1>1, <1>12 DEF vars, FilesSame, SavedSame
  <1> QED
    BY <1>3, <1>4, <1>5, <1>6, <1>7, <1>8, <1>9, <1>10, <1>11, <1>12
       DEF Next, Daemon, Transit, Commits

(* A stored offset moves only past lines that are safe, and a file that    *)
(* grows or is cut short does not touch what lies before it.               *)
LEMMA FilesKept == LossInv /\ [Next]_vars => \A f \in Files : FileKept(f)'
  <1> SUFFICES ASSUME LossInv, [Next]_vars, NEW g \in Files PROVE FileKept(g)'
    OBVIOUS
  <1> USE DEF files, stateDb, scanning, server, counts
  <1>t. TypeOK /\ KeepsSafe /\ FileKept(g) /\ offsetOf[g] <= generation[g]
    BY StepSafe DEF LossInv, Generations
  <1>n. offset[g] \in Nat /\ offsetOf[g] \in Nat /\ generation[g] \in Nat /\ Len(content[g]) \in Nat
    BY <1>t, LinesTyped DEF TypeOK
  <1>1. ASSUME FilesSame, SavedSame PROVE FileKept(g)'
    BY <1>1, <1>t, <1>n DEF FilesSame, SavedSame, FileKept, KeepsSafe
  <1>2. CASE SaveOffset
    <2>1. CASE g = current
      <3>1. found = {} /\ pc = "save" /\ UNCHANGED <<content, generation>>
              /\ offset'[g] = newOffset /\ offsetOf'[g] = newOffsetOf
        BY <1>2, <1>t, <2>1 DEF SaveOffset, AllQueued, TypeOK
      <3>2. newOffsetOf = generation[g] =>
              /\ newOffset <= Len(content[g])
              /\ \A i \in 1 .. newOffset : content[g][i] \in UsageEvents => Safe(content[g][i])
        BY <2>1, <3>1 DEF LossInv, ParsedKept, Dominated
      <3> QED BY <1>t, <3>1, <3>2 DEF FileKept, KeepsSafe
    <2>2. CASE g # current
      <3>1. UNCHANGED <<content, generation>> /\ offset'[g] = offset[g] /\ offsetOf'[g] = offsetOf[g]
        BY <1>2, <1>t, <2>2 DEF SaveOffset, TypeOK
      <3> QED BY <1>t, <1>n, <3>1 DEF FileKept, KeepsSafe
    <2> QED BY <2>1, <2>2
  <1>3. ASSUME NEW f \in Files, Rotate(f) PROVE FileKept(g)'
    <2>1. UNCHANGED <<offset, offsetOf>>
      BY <1>3 DEF Rotate
    <2>2. CASE f = g
      <3>1. offsetOf'[g] # generation'[g]
        BY <1>3, <1>n, <1>t, <2>1, <2>2, Rotated
      <3> QED BY <3>1 DEF FileKept
    <2>3. CASE f # g
      <3>1. content'[g] = content[g] /\ generation'[g] = generation[g]
        BY <1>3, <1>t, <2>3, Rotated
      <3> QED BY <1>t, <1>n, <2>1, <3>1 DEF FileKept, KeepsSafe
    <2> QED BY <2>2, <2>3
  <1>4. ASSUME NEW f \in Files, NEW line \in NewLines[f], AddLine(f, line) PROVE FileKept(g)'
    <2>1. UNCHANGED <<offset, offsetOf, generation>>
      BY <1>4 DEF AddLine
    <2>2. /\ Len(content'[g]) \in Nat /\ Len(content'[g]) >= Len(content[g])
          /\ \A i \in 1 .. Len(content[g]) : content'[g][i] = content[g][i]
      <3>1. CASE f = g
        <4>1. /\ Len(content'[g]) = Len(content[g]) + 1
              /\ \A i \in 1 .. Len(content[g]) : content'[g][i] = content[g][i]
          BY <1>4, <1>t, <3>1, LineAdded
        <4> QED BY <1>n, <4>1
      <3>2. CASE f # g
        <4>1. content'[g] = content[g]
          BY <1>4, <1>t, <3>2, LineAdded
        <4> QED BY <1>n, <4>1
      <3> QED BY <3>1, <3>2
    <2>3. ASSUME offsetOf[g] = generation[g], NEW i \in 1 .. offset[g],
                 content'[g][i] \in UsageEvents
          PROVE  Safe(content[g][i])'
      <3>1. offset[g] <= Len(content[g]) /\ i \in 1 .. Len(content[g])
        BY <1>n, <1>t, <2>3 DEF FileKept
      <3>2. content'[g][i] = content[g][i] /\ Safe(content[g][i])
        BY <1>t, <2>2, <2>3, <3>1 DEF FileKept
      <3>3. \A e \in UsageEvents : Safe(e) => Safe(e)'
        BY <1>t DEF KeepsSafe
      <3> QED BY <2>3, <3>2, <3>3
    <2>4. offsetOf[g] = generation[g] => offset[g] <= Len(content'[g])
      BY <1>n, <1>t, <2>2 DEF FileKept
    <2> QED BY <2>1, <2>3, <2>4 DEF FileKept
  <1>5. CASE Start \/ QueueHistory \/ MarkHistory \/ SkipHistory \/ NoHistory \/ BeginCycle \/ EnqueueChunk
    BY <1>1, <1>5 DEF Start, QueueHistory, MarkHistory, SkipHistory, NoHistory, BeginCycle, EnqueueChunk,
                      FilesSame, SavedSame
  <1>6. ASSUME NEW f \in Files, ParseFile(f) \/ ParseDies(f) \/ SkipUnreadable(f)
        PROVE  FileKept(g)'
    BY <1>1, <1>6 DEF ParseFile, ParseDies, SkipUnreadable, FilesSame, SavedSame
  <1>7. CASE PollLimits \/ SkipLimits \/ Crash
    BY <1>1, <1>7 DEF PollLimits, SkipLimits, Crash, FilesSame, SavedSame
  <1>8. CASE Send \/ MarkUploaded \/ UploadFails \/ QueueEmpty \/ ServerAnswers
    BY <1>1, <1>8 DEF Send, MarkUploaded, UploadFails, QueueEmpty, ServerAnswers,
                      FilesSame, SavedSame
  <1>9. ASSUME NEW b \in wire \cup uncommitted,
               ServerUnheard(b) \/ Lose(b) \/ CommitAnswered(b) \/ AbortAnswered(b)
        PROVE  FileKept(g)'
    BY <1>1, <1>9 DEF ServerUnheard, Lose, CommitAnswered, AbortAnswered, FilesSame, SavedSame
  <1>10. CASE UNCHANGED vars
    BY <1>1, <1>10 DEF vars, FilesSame, SavedSame
  <1> QED
    BY <1>2, <1>3, <1>4, <1>5, <1>6, <1>7, <1>8, <1>9, <1>10
       DEF Next, Daemon, Transit, Commits

(* parse() hands on an event for every line past the stored offset, and    *)
(* what is handed on stays in the daemon's hands or enters the queue.      *)
LEMMA ParsedStaysKept == LossInv /\ [Next]_vars => ParsedKept'
  <1> SUFFICES ASSUME LossInv, [Next]_vars, pc' = "save" PROVE ParsedKept'
    BY DEF ParsedKept
  <1> USE DEF files, stateDb, scanning, server, counts
  <1>t. TypeOK /\ TypeOK' /\ KeepsSafe /\ ParsedKept
    BY StepSafe, TypeKept DEF LossInv
  <1>1. ASSUME NEW f \in Files, ParseFile(f) PROVE ParsedKept'
    <2>1. current' = f /\ UNCHANGED <<content, generation>>
            /\ found' = BestPerId(LinesRead(f) \cap UsageEvents)
      BY <1>1 DEF ParseFile
    <2>n. Len(content[f]) \in Nat /\ offset[f] \in Nat
      BY <1>t, LinesTyped DEF TypeOK
    <2>2. ASSUME NEW i \in Positions(f), content[f][i] \in UsageEvents
          PROVE  Dominated(content[f][i], found')
      <3>1. content[f][i] \in LinesRead(f) \cap UsageEvents
        BY <2>2 DEF LinesRead
      <3>2. IsFiniteSet(LinesRead(f) \cap UsageEvents)
        BY <1>t, LinesFinite
      <3>3. LinesRead(f) \cap UsageEvents \in SUBSET UsageEvents
        OBVIOUS
      <3> QED BY <2>1, <3>1, <3>2, <3>3, BestCovers
    <2> DEFINE kept ==
                 newOffsetOf' = generation[f] =>
                   /\ newOffset' <= Len(content[f])
                   /\ \A i \in 1 .. newOffset' : content[f][i] \in UsageEvents =>
                         Safe(content[f][i]) \/ Dominated(content[f][i], found')
    <2>3. ASSUME StartOffset(f) = 0 PROVE kept
      <3>1. newOffset' = Len(content[f]) /\ Positions(f) = 1 .. Len(content[f])
        BY <1>1, <2>3, <2>n DEF ParseFile, Positions
      <3> QED BY <2>2, <2>n, <3>1
    <2>4. ASSUME StartOffset(f) # 0 PROVE kept
      <3>1. StartOffset(f) = offset[f] /\ newOffsetOf' = offsetOf[f]
        BY <1>1, <2>4 DEF ParseFile, StartOffset
      <3>2. ASSUME offsetOf[f] = generation[f]
            PROVE  /\ offset[f] <= Len(content[f])
                   /\ \A i \in 1 .. offset[f] : content[f][i] \in UsageEvents => Safe(content[f][i])
        BY <3>2 DEF LossInv, FileKept
      <3>3. ASSUME offsetOf[f] = generation[f]
            PROVE  newOffset' = Len(content[f])
        BY <1>1, <2>n, <3>1, <3>2, <3>3 DEF ParseFile
      <3>4. ASSUME offsetOf[f] = generation[f], NEW i \in 1 .. Len(content[f]),
                   content[f][i] \in UsageEvents
            PROVE  Safe(content[f][i]) \/ Dominated(content[f][i], found')
        <4>1. CASE i <= offset[f]
          BY <2>n, <3>2, <3>4, <4>1
        <4>2. CASE ~ (i <= offset[f])
          <5>1. i \in Positions(f)
            BY <2>n, <3>1, <4>2 DEF Positions
          <5> QED BY <2>2, <3>4, <5>1
        <4> QED BY <4>1, <4>2
      <3> QED BY <2>n, <3>1, <3>3, <3>4
    <2>5. kept
      BY <2>3, <2>4
    <2>6. \A e \in UsageEvents : Safe(e) => Safe(e)'
      BY <1>t DEF KeepsSafe
    <2> QED BY <2>1, <2>5, <2>6 DEF ParsedKept
  <1>2. CASE EnqueueChunk
    <2>1. PICK chunk \in Chunks(found) :
             queue' = Append(queue, EventsBatch(chunk)) /\ found' = found \ chunk
      BY <1>2 DEF EnqueueChunk
    <2>2. chunk \in SUBSET found /\ chunk \in SUBSET UsageEvents /\ OnePerId(chunk)
      BY <1>t, <2>1 DEF Chunks, TypeOK, OnePerId
    <2>3. chunk \subseteq Queued'
      <3>1. Len(queue) + 1 \in DOMAIN queue' /\ queue'[Len(queue) + 1].events = chunk
        BY <1>t, <2>1, <2>2, Enqueued, NewBatches, LenProperties DEF EventsBatch
      <3> QED BY <3>1 DEF Queued
    <2>4. pc = "save" /\ UNCHANGED <<content, generation, current, newOffset, newOffsetOf>>
      BY <1>2 DEF EnqueueChunk
    <2>5. ASSUME NEW e \in UsageEvents, Safe(e) \/ Dominated(e, found)
          PROVE  Safe(e)' \/ Dominated(e, found')
      <3>1. CASE Safe(e)
        BY <1>t, <3>1 DEF KeepsSafe
      <3>2. CASE Dominated(e, found)
        <4>1. PICK q \in found : q.id = e.id /\ q.output >= e.output
          BY <3>2 DEF Dominated
        <4>2. q \in found' \/ q \in Queued'
          BY <2>1, <2>3
        <4> QED BY <4>1, <4>2 DEF Safe, Dominated
      <3> QED BY <2>5, <3>1, <3>2
    <2> QED BY <1>t, <2>4, <2>5 DEF ParsedKept, Dominated
  <1>3. ASSUME NEW f \in Files, Rotate(f) PROVE ParsedKept'
    <2>1. pc = "save" /\ UNCHANGED <<current, found, newOffset, newOffsetOf>>
      BY <1>3 DEF Rotate
    <2>2. current \in Files /\ newOffsetOf \in Nat /\ generation[current] \in Nat
            /\ newOffsetOf <= generation[current]
      BY <1>t, <2>1 DEF ParsedKept, TypeOK, LossInv, Generations
    <2>3. CASE f = current
      <3>1. newOffsetOf' # generation'[current']
        BY <1>3, <1>t, <2>1, <2>2, <2>3, Rotated
      <3> QED BY <2>1, <2>2, <3>1 DEF ParsedKept
    <2>4. CASE f # current
      <3>1. content'[current] = content[current] /\ generation'[current] = generation[current]
        BY <1>3, <1>t, <2>2, <2>4, Rotated
      <3> QED BY <1>t, <2>1, <3>1 DEF ParsedKept, KeepsSafe
    <2> QED BY <2>3, <2>4
  <1>4. ASSUME NEW f \in Files, NEW line \in NewLines[f], AddLine(f, line) PROVE ParsedKept'
    <2> DEFINE g == current
    <2>1. pc = "save" /\ UNCHANGED <<generation, current, found, newOffset, newOffsetOf>>
      BY <1>4 DEF AddLine
    <2>2. g \in Files /\ newOffset \in Nat /\ Len(content[g]) \in Nat
      BY <1>t, <2>1, LinesTyped DEF ParsedKept, TypeOK
    <2>3. /\ Len(content'[g]) \in Nat /\ Len(content'[g]) >= Len(content[g])
          /\ \A i \in 1 .. Len(content[g]) : content'[g][i] = content[g][i]
      <3>1. CASE f = g
        <4>1. /\ Len(content'[g]) = Len(content[g]) + 1
              /\ \A i \in 1 .. Len(content[g]) : content'[g][i] = content[g][i]
          BY <1>4, <1>t, <3>1, LineAdded
        <4> QED BY <2>2, <4>1
      <3>2. CASE f # g
        <4>1. content'[g] = content[g]
          BY <1>4, <1>t, <2>2, <3>2, LineAdded
        <4> QED BY <2>2, <4>1
      <3> QED BY <3>1, <3>2
    <2>4. \A e \in UsageEvents : Safe(e) => Safe(e)'
      BY <1>t DEF KeepsSafe
    <2>5. ASSUME newOffsetOf = generation[g]
          PROVE  /\ newOffset <= Len(content'[g])
                 /\ \A i \in 1 .. newOffset : content'[g][i] = content[g][i]
      BY <1>t, <2>1, <2>2, <2>3, <2>5 DEF ParsedKept
    <2> QED BY <1>t, <2>1, <2>2, <2>4, <2>5 DEF ParsedKept
  <1>5. ASSUME pc = "save", FilesSame, ScanSame PROVE ParsedKept'
    BY <1>5, <1>t DEF ParsedKept, KeepsSafe, FilesSame, ScanSame
  <1>6. CASE ServerAnswers \/ UNCHANGED vars
    BY <1>5, <1>6 DEF ServerAnswers, vars, FilesSame, ScanSame
  <1>7. ASSUME NEW b \in wire \cup uncommitted,
               ServerUnheard(b) \/ Lose(b) \/ CommitAnswered(b) \/ AbortAnswered(b)
        PROVE  ParsedKept'
    BY <1>5, <1>7 DEF ServerUnheard, Lose, CommitAnswered, AbortAnswered, FilesSame, ScanSame
  <1>8. ~ (Start \/ QueueHistory \/ MarkHistory \/ SkipHistory \/ NoHistory \/ BeginCycle \/ SaveOffset
            \/ PollLimits \/ SkipLimits \/ Send \/ MarkUploaded \/ UploadFails \/ QueueEmpty
            \/ Crash)
    BY DEF Start, QueueHistory, MarkHistory, SkipHistory, NoHistory, BeginCycle, SaveOffset, PollLimits,
           SkipLimits, Send, MarkUploaded, UploadFails, QueueEmpty, Crash
  <1>9. \A f \in Files : ~ (ParseDies(f) \/ SkipUnreadable(f))
    BY DEF ParseDies, SkipUnreadable
  <1> QED
    BY <1>1, <1>2, <1>3, <1>4, <1>6, <1>7, <1>8, <1>9 DEF Next, Daemon, Transit, Commits

(* The history is marked as queued only after it was.                      *)
LEMMA HistoryStaysKept == LossInv /\ [Next]_vars => HistoryKept'
  <1> SUFFICES ASSUME LossInv, [Next]_vars PROVE HistoryKept'
    OBVIOUS
  <1> USE DEF files, stateDb, scanning, server, counts, HistoryKept
  <1>t. TypeOK /\ (HistorySafe => HistorySafe') /\ HistoryKept
    BY StepSafe DEF LossInv, KeepsSafe
  <1>1. ASSUME UNCHANGED <<bootstrapDone, history>>, pc' = "mark" => pc = "mark"
        PROVE  HistoryKept'
    BY <1>t, <1>1
  <1>2. CASE QueueHistory
    <2>1. queue' = Append(queue, BootstrapBatch)
      BY <1>2 DEF QueueHistory
    <2>2. Len(queue) + 1 \in 1 .. Len(queue') /\ queue'[Len(queue) + 1] = BootstrapBatch
      BY <1>t, <2>1, Enqueued, NewBatches
    <2>3. HistorySafe'
      BY <2>2 DEF HistorySafe
    <2> QED BY <1>2, <2>3 DEF QueueHistory
  <1>3. CASE NoHistory
    BY <1>t, <1>3 DEF NoHistory
  <1>4. CASE MarkHistory
    BY <1>t, <1>4 DEF MarkHistory
  <1>5. CASE Start \/ SkipHistory \/ BeginCycle \/ EnqueueChunk \/ SaveOffset
    BY <1>1, <1>5 DEF Start, SkipHistory, BeginCycle, EnqueueChunk, SaveOffset
  <1>6. ASSUME NEW f \in Files, ParseFile(f) \/ ParseDies(f) \/ SkipUnreadable(f)
        PROVE  HistoryKept'
    BY <1>1, <1>6 DEF ParseFile, ParseDies, SkipUnreadable
  <1>7. CASE PollLimits \/ SkipLimits \/ Send \/ MarkUploaded \/ UploadFails \/ QueueEmpty
    BY <1>1, <1>7 DEF PollLimits, SkipLimits, Send, MarkUploaded, UploadFails, QueueEmpty
  <1>8. CASE Crash \/ ServerAnswers
    BY <1>1, <1>8 DEF Crash, ServerAnswers
  <1>9. ASSUME NEW f \in Files, Rotate(f) \/ \E line \in NewLines[f] : AddLine(f, line)
        PROVE  HistoryKept'
    BY <1>1, <1>9 DEF Rotate, AddLine
  <1>10. ASSUME NEW b \in wire \cup uncommitted,
                ServerUnheard(b) \/ Lose(b) \/ CommitAnswered(b) \/ AbortAnswered(b)
         PROVE  HistoryKept'
    BY <1>1, <1>10 DEF ServerUnheard, Lose, CommitAnswered, AbortAnswered
  <1>11. CASE UNCHANGED vars
    BY <1>1, <1>11 DEF vars
  <1> QED
    BY <1>2, <1>3, <1>4, <1>5, <1>6, <1>7, <1>8, <1>9, <1>10, <1>11
       DEF Next, Daemon, Transit, Commits

(* The server answers with success once it has stored the batch, or holds  *)
(* it in a transaction.                                                    *)
LEMMA HeadStaysKept == LossInv /\ [Next]_vars => HeadKept'
  <1> SUFFICES ASSUME LossInv, [Next]_vars, pc' = "await", answer' = "ok" PROVE HeadKept'
    BY DEF HeadKept
  <1> USE DEF files, stateDb, scanning, server, counts
  <1>t. TypeOK /\ TypeOK' /\ KeepsSafe /\ HeadKept
    BY StepSafe, TypeKept DEF LossInv
  <1>h. pc = "await" => Head(queue) \in Batches /\ Head(queue).events \subseteq UsageEvents
    BY <1>t, Dequeued DEF TypeOK, Batches
  <1>1. ASSUME UNCHANGED <<pc, answer, queue>> PROVE HeadKept'
    BY <1>t, <1>h, <1>1 DEF HeadKept, KeepsSafe
  <1>2. CASE ServerAnswers
    <2> DEFINE sent == Head(queue)
    <2>1. Valid(sent) /\ UNCHANGED queue /\ pc = "await"
      BY <1>2 DEF ServerAnswers
    <2>2. CASE Apply(sent) /\ sent.kind = "limits"
      <3>1. \A e \in sent.events : Recorded(e)'
        BY <1>h, <1>t, <2>1, <2>2, Applied
      <3>2. sent # BootstrapBatch
        BY <2>2 DEF BootstrapBatch
      <3> QED BY <2>1, <3>1, <3>2 DEF HeadKept, AnsweredFor
    <2>3. CASE sent \in uncommitted'
      <3>1. \A e \in sent.events : e \in Answered'
        BY <2>3 DEF Answered
      <3>2. \A e \in sent.events : e.output >= e.output
        BY <1>h, <2>1, CountType
      <3>3. \A e \in sent.events : AnsweredFor(e)'
        BY <3>1, <3>2 DEF AnsweredFor, Dominated
      <3> QED BY <2>1, <2>3, <3>3 DEF HeadKept, HistoryAnsweredFor
    <2> QED BY <1>2, <2>1, <2>2, <2>3 DEF ServerAnswers
  <1>3. ASSUME NEW b \in wire \cup uncommitted,
               ServerUnheard(b) \/ Lose(b) \/ CommitAnswered(b) \/ AbortAnswered(b)
        PROVE  HeadKept'
    BY <1>1, <1>3 DEF ServerUnheard, Lose, CommitAnswered, AbortAnswered
  <1>4. ASSUME NEW f \in Files, Rotate(f) \/ \E line \in NewLines[f] : AddLine(f, line)
        PROVE  HeadKept'
    BY <1>1, <1>4 DEF Rotate, AddLine
  <1>5. CASE UNCHANGED vars
    BY <1>1, <1>5 DEF vars
  <1>6. ~ (Start \/ QueueHistory \/ MarkHistory \/ SkipHistory \/ NoHistory \/ BeginCycle \/ EnqueueChunk
            \/ SaveOffset \/ PollLimits \/ SkipLimits \/ Send \/ MarkUploaded \/ UploadFails
            \/ QueueEmpty \/ Crash)
    BY DEF Start, QueueHistory, MarkHistory, SkipHistory, NoHistory, BeginCycle, EnqueueChunk, SaveOffset,
           PollLimits, SkipLimits, Send, MarkUploaded, UploadFails, QueueEmpty, Crash
  <1>7. \A f \in Files : ~ (ParseFile(f) \/ ParseDies(f) \/ SkipUnreadable(f))
    BY DEF ParseFile, ParseDies, SkipUnreadable
  <1> QED BY <1>2, <1>3, <1>4, <1>5, <1>6, <1>7 DEF Next, Daemon, Transit, Commits

LEMMA AnsweredStayValid == LossInv /\ [Next]_vars => AnsweredValid'
  <1> SUFFICES ASSUME AnsweredValid, [Next]_vars PROVE AnsweredValid'
    BY DEF LossInv
  <1> USE DEF files, stateDb, scanning, server, counts, AnsweredValid
  <1>1. CASE Daemon \/ Crash
    <2>1. UNCHANGED uncommitted
      BY <1>1 DEF Daemon, Start, QueueHistory, MarkHistory, SkipHistory, NoHistory, BeginCycle, ParseFile,
                  ParseDies, SkipUnreadable, EnqueueChunk, SaveOffset, PollLimits, SkipLimits,
                  Send, MarkUploaded, UploadFails, QueueEmpty, Crash
    <2> QED BY <2>1
  <1>2. ASSUME NEW f \in Files, Rotate(f) \/ \E line \in NewLines[f] : AddLine(f, line)
        PROVE  AnsweredValid'
    BY <1>2 DEF Rotate, AddLine
  <1>3. CASE ServerAnswers
    BY <1>3 DEF ServerAnswers, Valid
  <1>4. CASE Transit \/ Commits \/ \E b \in uncommitted : AbortAnswered(b)
    <2>1. uncommitted' \subseteq uncommitted
      BY <1>4 DEF Transit, Commits, ServerUnheard, Lose, CommitAnswered, AbortAnswered
    <2> QED BY <2>1 DEF Valid
  <1>5. CASE UNCHANGED vars
    BY <1>5 DEF vars
  <1> QED BY <1>1, <1>2, <1>3, <1>4, <1>5 DEF Next

(* CollectorLosesNothing, in the terms of the invariant.                   *)
LEMMA KeptMeans == LossInv => CollectorLosesNothing
  <1> SUFFICES ASSUME LossInv PROVE CollectorLosesNothing
    OBVIOUS
  <1>1. \A e : Safe(e) => Secured(e) \/ RolledBack(e)
    BY DEF Safe, AnsweredFor, Dominated, Secured, RolledBack, Undone
  <1>2. DOMAIN queue = 1 .. Len(queue)
    BY LenProperties DEF LossInv, TypeOK
  <1>3. ASSUME NEW f \in Files, offsetOf[f] = generation[f]
        PROVE  /\ offset[f] <= Len(content[f])
               /\ \A i \in 1 .. offset[f] : content[f][i] \in UsageEvents =>
                     Secured(content[f][i]) \/ RolledBack(content[f][i])
    BY <1>1, <1>3 DEF LossInv, FileKept
  <1>4. bootstrapDone /\ history # "missing" =>
          \/ imported \/ BootstrapBatch \in uncommitted \cup undone
          \/ \E i \in DOMAIN queue : queue[i] = BootstrapBatch
    <2>1. bootstrapDone /\ history # "missing" => history = "read"
      BY DEF LossInv, HistoryKept, TypeOK
    <2> QED BY <1>2, <2>1 DEF LossInv, HistoryKept, HistorySafe, HistoryAnsweredFor
  <1> QED BY <1>3, <1>4 DEF CollectorLosesNothing, Kept

(* The daemon loses nothing, at whatever point it dies: every event before *)
(* a stored offset, and the history once its import is marked done (unless *)
(* a start found none to import), is in the queue, on the server, about to *)
(* be committed there, or was rolled back behind the server's answer       *)
(* (runner.py, state.py).                                                  *)
THEOREM LosesNothing == Spec => []CollectorLosesNothing
  <1>1. LossInv /\ [Next]_vars => LossInv'
    BY TypeKept, GenerationsKept, FilesKept, ParsedStaysKept, HistoryStaysKept, HeadStaysKept,
       AnsweredStayValid DEF LossInv
  <1> QED BY InitKept, <1>1, KeptMeans, PTL DEF Spec
=============================================================================
