----------------------------- MODULE Collector -----------------------------
(***************************************************************************)
(* One collector daemon (apps/collector), the transcript files it tails,   *)
(* its SQLite state, the network and the server's v1 ingest.               *)
(*                                                                         *)
(* A cycle (Collector.collect_once) scans the files, parses what lies past *)
(* the stored offset of each, queues the events in chunks, stores the new  *)
(* offset, polls the limits, and uploads the queue head by head until a    *)
(* request fails.  Every SQLite call commits on its own, so the process    *)
(* may die between any two of them.  A request may be lost before or after *)
(* the server handles it, and may be handled long after the client has     *)
(* given up on it.  The v1 endpoints (events, bootstrap) commit after they *)
(* have answered, the v2 endpoint (limits) before.                         *)
(*                                                                         *)
(* A line of a file is one of: a usage record, given by the event it       *)
(* yields; Passed, which parse() consumes without an event (another record *)
(* type, a blank or a malformed line); Scalar, valid JSON that is not an   *)
(* object.  A line still being written is not in the file yet: parse()     *)
(* stops in front of it.  Offsets count lines.                             *)
(***************************************************************************)
EXTENDS Naturals, Sequences, FiniteSets

CONSTANTS
    Files,          \* the files discover() finds
    NoFile,
    EventIds,       \* event ids
    Outputs,        \* output counts, all above 0
    Passed, Scalar, \* the two kinds of line without an event
    NewLines,       \* file -> the lines its tool may append
    BadEvents,      \* events validate_event refuses, with their whole batch
    WithBootstrap,  \* the daemon runs with --bootstrap
    BatchSize,      \* config.upload_batch_size
    MaxLines,       \* bound: file -> lines in it
    MaxRotations,   \* bound: file -> truncations of it
    MaxInTransit,   \* bound: requests in transit when another is sent
    MaxAborts,      \* bound: transactions rolled back after the answer
    MaxPolls,       \* bound: limit polls that return a snapshot
    MaxCrashes      \* bound: deaths of the daemon

UsageEvents == [id : EventIds, output : Outputs]
LineValues  == UsageEvents \cup {Passed, Scalar}

ASSUME CollectorAssumption ==
    /\ NoFile \notin Files
    /\ {Passed, Scalar} \cap UsageEvents = {}
    /\ Passed # Scalar
    /\ NewLines \in [Files -> SUBSET LineValues]
    /\ BadEvents \subseteq UsageEvents
    /\ BatchSize \in Nat \ {0}
    /\ Outputs \subseteq Nat \ {0}
    /\ WithBootstrap \in BOOLEAN
    /\ MaxLines \in [Files -> Nat]
    /\ MaxRotations \in [Files -> Nat]
    /\ {MaxInTransit, MaxAborts, MaxPolls, MaxCrashes} \subseteq Nat

VARIABLES
    (***********************************************************************)
    (* The machine's files, and the state database                         *)
    (***********************************************************************)
    content,        \* file -> its lines
    offset,         \* file_offsets: file -> lines already handled
    queue,          \* upload_queue, oldest first
    bootstrapDone,  \* meta: the bootstrap_done flag
    (***********************************************************************)
    (* The daemon's memory                                                 *)
    (***********************************************************************)
    pc,             \* where collect_once is
    sizes,          \* file -> its size when discover() listed it
    todo,           \* files this scan has not reached
    current,        \* the file just parsed
    found,          \* its events that are not queued yet
    newOffset,      \* where parse() stopped
    answer,         \* the answer to the request in progress
    (***********************************************************************)
    (* The network and the server                                          *)
    (***********************************************************************)
    wire,           \* requests the server has still to handle
    uncommitted,    \* requests answered, whose transaction is still open
    store,          \* usage_events_v2: id -> largest output, 0 when absent
    limitRows,      \* limit_snapshots: poll -> rows stored for it (2: or more)
    imported,       \* the bootstrap aggregates are in daily_rollups
    (***********************************************************************)
    (* Observation and bounds                                              *)
    (***********************************************************************)
    emitted,        \* every event ever written to a file
    history,        \* whether bootstrap() ever returned aggregates
    generation,     \* file -> how often it was truncated
    offsetOf,       \* file -> the generation its stored offset counts in
    newOffsetOf,    \* the generation newOffset counts in
    polls, crashes, \* so far
    undone          \* batches answered whose transaction was rolled back

files    == <<content, emitted, generation, history>>
stateDb  == <<offset, offsetOf, queue, bootstrapDone>>
scanning == <<sizes, todo, current, found, newOffset, newOffsetOf>>
server   == <<uncommitted, store, limitRows, imported>>
counts   == <<polls, crashes, undone>>
vars     == <<files, stateDb, pc, scanning, answer, wire, server, counts>>

EventsBatch(S) == [kind |-> "events", events |-> S, poll |-> 0]
LimitsBatch(n) == [kind |-> "limits", events |-> {}, poll |-> n]
BootstrapBatch == [kind |-> "bootstrap", events |-> {}, poll |-> 0]

NoScan ==
    /\ sizes' = [f \in Files |-> 0]
    /\ todo' = {}
    /\ current' = NoFile
    /\ found' = {}
    /\ newOffset' = 0
    /\ newOffsetOf' = 0

Init ==
    /\ content = [f \in Files |-> << >>]
    /\ offset = [f \in Files |-> 0]
    /\ queue = << >>
    /\ bootstrapDone = FALSE
    /\ pc = "down"
    /\ sizes = [f \in Files |-> 0]
    /\ todo = {}
    /\ current = NoFile
    /\ found = {}
    /\ newOffset = 0
    /\ answer = "none"
    /\ wire = {}
    /\ uncommitted = {}
    /\ store = [id \in EventIds |-> 0]
    /\ limitRows = [n \in 1 .. MaxPolls |-> 0]
    /\ imported = FALSE
    /\ emitted = {}
    /\ history = "unread"
    /\ generation = [f \in Files |-> 0]
    /\ offsetOf = [f \in Files |-> 0]
    /\ newOffsetOf = 0
    /\ polls = 0
    /\ crashes = 0
    /\ undone = {}

----------------------------------------------------------------------------
(* The tools that write the files.                                         *)

(* Environment assumption: a file that was cut short does not grow back to *)
(* a position remembered from before, stored or about to be, before a scan *)
(* sees that it is shorter.                                                *)
StaysShort(f, length) ==
    /\ offset[f] > 0 /\ offsetOf[f] # generation[f] => length < offset[f]
    /\ f = current /\ newOffsetOf # generation[f] => length < newOffset

(* A tool appends a line. *)
AddLine(f, line) ==
    /\ Len(content[f]) < MaxLines[f]
    /\ StaysShort(f, Len(content[f]) + 1)
    /\ content' = [content EXCEPT ![f] = Append(@, line)]
    /\ emitted' = IF line \in UsageEvents THEN emitted \cup {line} ELSE emitted
    /\ UNCHANGED <<generation, history, stateDb, pc, scanning, answer, wire, server, counts>>

(* A file is truncated, or replaced by an empty one of the same name. *)
Rotate(f) ==
    /\ generation[f] < MaxRotations[f]
    /\ content[f] # << >>
    /\ content' = [content EXCEPT ![f] = << >>]
    /\ generation' = [generation EXCEPT ![f] = @ + 1]
    /\ UNCHANGED <<emitted, history, stateDb, pc, scanning, answer, wire, server, counts>>

----------------------------------------------------------------------------
(* The daemon.                                                             *)

Start ==
    /\ pc = "down"
    /\ pc' = "start"
    /\ UNCHANGED <<files, stateDb, scanning, answer, wire, server, counts>>

(* run_bootstrap(), first commit: the history is queued. *)
QueueHistory ==
    /\ pc = "start"
    /\ WithBootstrap /\ ~ bootstrapDone
    /\ queue' = Append(queue, BootstrapBatch)
    /\ history' = "read"
    /\ pc' = "mark"
    /\ UNCHANGED <<content, emitted, generation, offset, offsetOf, bootstrapDone,
                   scanning, answer, wire, server, counts>>

(* The stats cache is missing, unreadable or half written: bootstrap()     *)
(* returns nothing, nothing is queued, and the flag will be set all the    *)
(* same.  (A cache whose JSON is no object kills the daemon, as a crash.)  *)
NoHistory ==
    /\ pc = "start"
    /\ WithBootstrap /\ ~ bootstrapDone
    /\ history' = IF history = "read" THEN history ELSE "missing"
    /\ pc' = "mark"
    /\ UNCHANGED <<content, emitted, generation, stateDb, scanning, answer, wire,
                   server, counts>>

(* run_bootstrap(), second commit: the flag is set. *)
MarkHistory ==
    /\ pc = "mark"
    /\ bootstrapDone' = TRUE
    /\ pc' = "cycle"
    /\ UNCHANGED <<files, offset, offsetOf, queue, scanning, answer, wire, server, counts>>

(* The flag is set already, or the daemon runs without --bootstrap. *)
SkipHistory ==
    /\ pc = "start"
    /\ WithBootstrap => bootstrapDone
    /\ pc' = "cycle"
    /\ UNCHANGED <<files, stateDb, scanning, answer, wire, server, counts>>

(* A cycle starts: discover() lists the files with their sizes. *)
BeginCycle ==
    /\ pc = "cycle"
    /\ pc' = "scan"
    /\ sizes' = [f \in Files |-> Len(content[f])]
    /\ todo' = Files
    /\ UNCHANGED <<files, stateDb, current, found, newOffset, newOffsetOf,
                   answer, wire, server, counts>>

(* Mutant: a file that shrank is read on from its stored offset. *)
NoReset(f) == offset[f]

(* _tail_usage: where to read f from; a size below the offset stored for   *)
(* it means it was cut short.                                              *)
StartOffset(f) == IF sizes[f] < offset[f] THEN 0 ELSE offset[f]

Positions(f) == StartOffset(f) + 1 .. Len(content[f])
LinesRead(f) == {content[f][i] : i \in Positions(f)}

(* parse() keeps one event per id, the one with the largest output. *)
BestPerId(S) ==
    {e \in S : \A x \in S : x.id = e.id => x.output <= e.output}

(* parse() reads f to its end. *)
ParseFile(f) ==
    /\ pc = "scan"
    /\ f \in todo
    /\ Scalar \notin LinesRead(f)
    /\ current' = f
    /\ found' = BestPerId(LinesRead(f) \cap UsageEvents)
    /\ newOffset' = IF StartOffset(f) > Len(content[f]) THEN StartOffset(f)
                    ELSE Len(content[f])
    /\ newOffsetOf' = IF StartOffset(f) = 0 THEN generation[f] ELSE offsetOf[f]
    /\ pc' = "save"
    /\ UNCHANGED <<files, stateDb, sizes, todo, answer, wire, server, counts>>

(* A JSON line that is not an object: record.get raises AttributeError,    *)
(* which nothing catches, and the daemon dies.                             *)
ParseDies(f) ==
    /\ pc = "scan"
    /\ f \in todo
    /\ Scalar \in LinesRead(f)
    /\ pc' = "down"
    /\ NoScan
    /\ UNCHANGED <<files, stateDb, answer, wire, server, counts>>

(* parse() raises OSError: the file is left for the next cycle. *)
SkipUnreadable(f) ==
    /\ pc = "scan"
    /\ f \in todo
    /\ todo' = todo \ {f}
    /\ UNCHANGED <<files, stateDb, pc, sizes, current, found, newOffset,
                   newOffsetOf, answer, wire, server, counts>>

(* _chunks: the next chunk of at most upload_batch_size events. *)
Chunks(S) ==
    {T \in SUBSET S :
        Cardinality(T) = IF Cardinality(S) < BatchSize THEN Cardinality(S)
                         ELSE BatchSize}

EnqueueChunk ==
    /\ pc = "save"
    /\ found # {}
    /\ \E chunk \in Chunks(found) :
          /\ queue' = Append(queue, EventsBatch(chunk))
          /\ found' = found \ chunk
    /\ UNCHANGED <<files, offset, offsetOf, bootstrapDone, pc, sizes, todo, current,
                   newOffset, newOffsetOf, answer, wire, server, counts>>

(* Mutant: the offset may be stored before the events are queued. *)
AnyTime(S) == TRUE

AllQueued(S) == S = {}

SaveOffset ==
    /\ pc = "save"
    /\ AllQueued(found)
    /\ offset' = [offset EXCEPT ![current] = newOffset]
    /\ offsetOf' = [offsetOf EXCEPT ![current] = newOffsetOf]
    /\ todo' = todo \ {current}
    /\ current' = NoFile
    /\ newOffset' = 0
    /\ newOffsetOf' = 0
    /\ pc' = "scan"
    /\ UNCHANGED <<files, queue, bootstrapDone, sizes, found, answer, wire,
                   server, counts>>

(* The scan is over and a limit source answers: its snapshot is queued. *)
PollLimits ==
    /\ pc = "scan"
    /\ todo = {}
    /\ polls < MaxPolls
    /\ polls' = polls + 1
    /\ queue' = Append(queue, LimitsBatch(polls'))
    /\ pc' = "drain"
    /\ NoScan
    /\ UNCHANGED <<files, offset, offsetOf, bootstrapDone, answer, wire, server, crashes, undone>>

(* The scan is over and the limits are not due, or unavailable. *)
SkipLimits ==
    /\ pc = "scan"
    /\ todo = {}
    /\ pc' = "drain"
    /\ NoScan
    /\ UNCHANGED <<files, stateDb, answer, wire, server, counts>>

(* _drain: the oldest batch is sent. *)
Send ==
    /\ pc = "drain"
    /\ queue # << >>
    /\ Cardinality(wire \cup uncommitted) < MaxInTransit
    /\ wire' = wire \cup {Head(queue)}
    /\ answer' = "none"
    /\ pc' = "await"
    /\ UNCHANGED <<files, stateDb, scanning, server, counts>>

Confirmed(a) == a = "ok"

(* A 2xx answer: mark_uploaded removes the batch. *)
MarkUploaded ==
    /\ pc = "await"
    /\ Confirmed(answer)
    /\ queue' = Tail(queue)
    /\ answer' = "none"
    /\ pc' = "drain"
    /\ UNCHANGED <<files, offset, offsetOf, bootstrapDone, scanning, wire, server, counts>>

(* A timeout, a network error or an error answer: the batch stays (its     *)
(* attempts counter, which nothing reads, is left out) and the cycle ends. *)
UploadFails ==
    /\ pc = "await"
    /\ ~ Confirmed(answer)
    /\ answer' = "none"
    /\ pc' = "cycle"
    /\ UNCHANGED <<files, stateDb, scanning, wire, server, counts>>

QueueEmpty ==
    /\ pc = "drain"
    /\ queue = << >>
    /\ pc' = "cycle"
    /\ UNCHANGED <<files, stateDb, scanning, answer, wire, server, counts>>

(* The daemon is killed, or its machine stops. *)
Crash ==
    /\ pc # "down"
    /\ crashes < MaxCrashes
    /\ crashes' = crashes + 1
    /\ pc' = "down"
    /\ NoScan
    /\ answer' = "none"
    /\ UNCHANGED <<files, stateDb, wire, server, polls, undone>>

----------------------------------------------------------------------------
(* The network and the server.                                             *)

(* validate_event refuses the whole batch for one bad event. *)
Valid(b) == b.events \cap BadEvents = {}

(* Mutant: the last upload of an event wins. *)
LastWins(stored, S) ==
    [id \in EventIds |->
        IF \E e \in S : e.id = id THEN (CHOOSE e \in S : e.id = id).output
        ELSE stored[id]]

(* KEEP_MAX, as the ledger keeps it for v1 traffic (KeepMaxHolds there). *)
KeepMax(stored, S) ==
    [id \in EventIds |->
        IF \E e \in S : e.id = id /\ e.output > stored[id]
        THEN (CHOOSE e \in BestPerId(S) : e.id = id).output
        ELSE stored[id]]

(* The server commits a valid batch: usage by keep-max, limit snapshots    *)
(* appended, bootstrap aggregates upserted.                                *)
Apply(b) ==
    /\ store' = IF Valid(b) THEN KeepMax(store, b.events) ELSE store
    /\ limitRows' = IF b.kind = "limits"
                    THEN [limitRows EXCEPT ![b.poll] = IF @ = 2 THEN 2 ELSE @ + 1]
                    ELSE limitRows
    /\ imported' = (imported \/ b.kind = "bootstrap")

(* The server handles the request its client is waiting for, and answers:  *)
(* an error, or success before the commit (v1) or after it (v2).           *)
ServerAnswers ==
    LET sent == Head(queue) IN
    /\ pc = "await"
    /\ answer = "none"
    /\ sent \in wire
    /\ wire' = wire \ {sent}
    /\ answer' = IF Valid(sent) THEN "ok" ELSE "error"
    /\ \/ /\ Valid(sent) /\ sent.kind = "limits"
          /\ Apply(sent)
          /\ UNCHANGED uncommitted
       \/ /\ Valid(sent) /\ sent.kind # "limits"
          /\ uncommitted' = uncommitted \cup {sent}
          /\ UNCHANGED <<store, limitRows, imported>>
       \/ /\ ~ Valid(sent)
          /\ UNCHANGED server
    /\ UNCHANGED <<files, stateDb, pc, scanning, counts>>

(* get_session's exit, once the answer is out: the transaction commits.    *)
CommitAnswered(b) ==
    /\ b \in uncommitted
    /\ uncommitted' = uncommitted \ {b}
    /\ Apply(b)
    /\ UNCHANGED <<files, stateDb, pc, scanning, answer, wire, counts>>

(* The server dies in between, or the database refuses the commit.         *)
AbortAnswered(b) ==
    /\ b \in uncommitted
    /\ Cardinality(undone) < MaxAborts
    /\ undone' = undone \cup {b}
    /\ uncommitted' = uncommitted \ {b}
    /\ UNCHANGED <<files, stateDb, pc, scanning, answer, wire, store, limitRows,
                   imported, polls, crashes>>

(* The server handles a request and its answer reaches nobody. *)
ServerUnheard(b) ==
    /\ b \in wire
    /\ Apply(b)
    /\ wire' = wire \ {b}
    /\ UNCHANGED <<files, stateDb, pc, scanning, answer, uncommitted, counts>>

(* A request is lost, or the server fails and rolls its transaction back. *)
Lose(b) ==
    /\ b \in wire
    /\ wire' = wire \ {b}
    /\ UNCHANGED <<files, stateDb, pc, scanning, answer, server, counts>>

----------------------------------------------------------------------------
Daemon ==
    \/ Start \/ QueueHistory \/ NoHistory \/ MarkHistory \/ SkipHistory \/ BeginCycle
    \/ \E f \in Files : ParseFile(f) \/ ParseDies(f) \/ SkipUnreadable(f)
    \/ EnqueueChunk \/ SaveOffset \/ PollLimits \/ SkipLimits
    \/ Send \/ MarkUploaded \/ UploadFails \/ QueueEmpty

Transit == \E b \in wire : ServerUnheard(b) \/ Lose(b)

Commits == \E b \in uncommitted : CommitAnswered(b)

Next ==
    \/ Daemon
    \/ Crash
    \/ \E f \in Files : Rotate(f) \/ \E line \in NewLines[f] : AddLine(f, line)
    \/ ServerAnswers
    \/ Transit
    \/ Commits
    \/ \E b \in uncommitted : AbortAnswered(b)

Spec == Init /\ [][Next]_vars

(* The daemon keeps running (systemd restarts it), every file can be read  *)
(* again and again, no request stays in transit and no transaction open    *)
(* for ever, and the server does not ignore the daemon for ever.           *)
Fairness ==
    /\ WF_vars(Daemon)
    /\ WF_vars(Transit)
    /\ WF_vars(Commits)
    /\ \A f \in Files : SF_vars(ParseFile(f))
    /\ SF_vars(ServerAnswers)

FairSpec == Spec /\ Fairness

----------------------------------------------------------------------------
Recorded(e) == store[e.id] >= e.output

Queued   == UNION {queue[i].events : i \in DOMAIN queue}
Answered == UNION {b.events : b \in uncommitted}

(* An event that is as good as delivered: the server has it or is about to *)
(* commit it, or the queue holds it, or a later report of the same id.     *)
Secured(e) ==
    Recorded(e) \/ \E q \in Queued \cup Answered :
                      q.id = e.id /\ q.output >= e.output

(* What lies before the stored offset of a file is secured, and so is the  *)
(* history once its import is marked done, unless no start before that     *)
(* found any: the import is best effort, and tried until the flag is set.  *)
Kept(secured(_), excused) ==
    /\ \A f \in Files :
          offsetOf[f] = generation[f] =>
              /\ offset[f] <= Len(content[f])
              /\ \A i \in 1 .. offset[f] :
                    content[f][i] \in UsageEvents => secured(content[f][i])
    /\ bootstrapDone /\ history # "missing" =>
          \/ imported
          \/ BootstrapBatch \in uncommitted \cup excused
          \/ \E i \in DOMAIN queue : queue[i] = BootstrapBatch

(* The server answered for the event and rolled its transaction back.      *)
RolledBack(e) ==
    \E b \in undone : \E q \in b.events : q.id = e.id /\ q.output >= e.output

(* The daemon itself loses nothing, at whatever point it dies: all that is *)
(* lost is what the server answered for and then rolled back.              *)
CollectorLosesNothing == Kept(LAMBDA e : Secured(e) \/ RolledBack(e), undone)

(* Collector and server together deliver what Delivery promises. *)
Promise == INSTANCE Delivery WITH recorded <- store

DeliversAsPromised == Promise!Spec

OnDisk == UNION {{content[f][i] : i \in DOMAIN content[f]} : f \in Files}

(* The head of the queue is a batch the server will always refuse, or a    *)
(* file holds a line parse() dies on.                                      *)
Blocked ==
    \/ queue # << >> /\ ~ Valid(Head(queue))
    \/ \E f \in Files : \E i \in DOMAIN content[f] : content[f][i] = Scalar

Known == OnDisk \cup Queued \cup Answered

(* Every event in a file or in the queue reaches the server, unless a file *)
(* is cut short before the event is read, the server rolls back what it    *)
(* answered for, or what blocks the daemon is in front of it.              *)
EventuallyRecorded ==
    \A e \in UsageEvents \ BadEvents :
        e \in Known ~> Recorded(e) \/ RolledBack(e) \/ Blocked \/ e \notin Known
=============================================================================
