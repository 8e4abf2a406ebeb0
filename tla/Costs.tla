------------------------------ MODULE Costs ------------------------------
(***************************************************************************)
(* The computed costs of final attempts and the three jobs that write      *)
(* them: the background sweep of uncosted events, the admin's reprice and  *)
(* the admin's revert (services/computed_costs.py, cost_worker.py,         *)
(* cost_v2.py, repricing.py).  What the cards of RateCards price an event  *)
(* at is the variable rate, which their requests change.                   *)
(*                                                                         *)
(* The events are of one model and day, so they have one rate.             *)
(* A job is one transaction of PostgreSQL (READ COMMITTED): each statement *)
(* sees its own writes and what was committed when it started, an UPDATE   *)
(* waits for the row locks of others and then checks its WHERE clause      *)
(* again on the rows it had found, and an INSERT waits for an uncommitted  *)
(* row of the same key.  An event consumes one unit, so its cost is priced *)
(* or unpriced; its billing mode only decides which column holds the       *)
(* amount.                                                                 *)
(***************************************************************************)
EXTENDS Integers, FiniteSets

CONSTANTS
    Events,       \* final attempts
    Jobs,         \* jobs that may be open at one time
    Sweeper,      \* the job that is the background loop
    EventPrices,  \* what the rate cards may price an event at
    Unpriced,     \* an amount that is NULL
    Absent,       \* no cost row, no job
    BatchSize,    \* the most events one sweep takes
    MaxVersion,   \* bound on the pricing version
    MaxFailures   \* bound on the jobs that fail for a reason outside the model

Versions == 1 .. MaxVersion
Amounts  == EventPrices \union {Unpriced}
CostRows == [amount : Amounts, active : BOOLEAN]

(* A job: where it is, the events it has yet to take, the one it is at and *)
(* what it has read of it, and the rows it wrote and did not commit.       *)
Phases     == {"version", "bump", "next", "deactivate", "lookup", "write", "activate"}
JobRecords == [kind : {"sweep", "reprice", "revert"}, phase : Phases, version : Versions,
               bumped : BOOLEAN, todo : SUBSET Events, event : Events \union {Absent},
               seen : SUBSET Versions, amount : Amounts, found : CostRows \union {Absent},
               wrote : [Events -> [Versions -> CostRows \union {Absent}]]]

ASSUME CostsAssumption ==
    /\ Absent \notin Events \union CostRows \union JobRecords
    /\ Sweeper \in Jobs
    /\ BatchSize \in Nat \ {0}
    /\ MaxVersion \in Nat \ {0}
    /\ MaxFailures \in Nat

VARIABLES
    rate,       \* what the rate cards price the events at now
    finals,     \* the final attempts ingested so far
    version,    \* app_settings.pricing_version; 1 is no row
    costs,      \* computed_costs: the row of each event and version, or Absent
    job,        \* the state of each job, Absent when it is not open
    failures    \* the jobs that failed

vars == <<rate, finals, version, costs, job, failures>>

-----------------------------------------------------------------------------
(* What statements see.                                                    *)

Init ==
    /\ rate = Unpriced
    /\ finals = {}
    /\ version = 1
    /\ costs = [e \in Events |-> [v \in Versions |-> Absent]]
    /\ job = [j \in Jobs |-> Absent]
    /\ failures = 0

(* "wrote" holds the rows a job wrote and did not commit, Absent elsewhere.  *)
NoWrites == [e \in Events |-> [v \in Versions |-> Absent]]

Fresh(kind, v, phase) ==
    [kind |-> kind, phase |-> phase, version |-> v, bumped |-> FALSE,
     todo |-> {}, event |-> Absent, seen |-> {}, amount |-> Unpriced,
     found |-> Absent, wrote |-> NoWrites]

Open(j)          == job[j] # Absent
In(j, phase)     == Open(j) /\ job[j].phase = phase
CostRow(j, e, v) == IF job[j].wrote[e][v] # Absent THEN job[j].wrote[e][v] ELSE costs[e][v]
ActiveSeen(j, e) ==
    {v \in Versions : CostRow(j, e, v) # Absent /\ CostRow(j, e, v).active}
LockedBy(j, e, v) == Open(j) /\ job[j].wrote[e][v] # Absent
Locked(j, e, v)   == \E k \in Jobs \ {j} : LockedBy(k, e, v)

HasActive(e) == \E v \in Versions : costs[e][v] # Absent /\ costs[e][v].active

Write(j, e, v, row) == [job[j].wrote EXCEPT ![e][v] = row]

(* A statement that fails ends the job: its transaction is rolled back.    *)
Rollback(j) == /\ job' = [job EXCEPT ![j] = Absent]
               /\ UNCHANGED <<rate, finals, version, costs>>

-----------------------------------------------------------------------------
(* Opening a job.                                                          *)

(* A card is created, closed or imported: no cost is computed again.       *)
RateChanges(amount) ==
    /\ amount # rate
    /\ rate' = amount
    /\ UNCHANGED <<finals, version, costs, job, failures>>

(* An attempt becomes final in the ledger; ingest computes no cost.        *)
Ingest(e) ==
    /\ e \notin finals
    /\ finals' = finals \union {e}
    /\ UNCHANGED <<rate, version, costs, job, failures>>

(* Mutant: the sweep waits for a full batch. *)
SweepSelectFull(batch) ==
    /\ ~ Open(Sweeper)
    /\ batch \subseteq {e \in finals : ~ HasActive(e)}
    /\ Cardinality(batch) = BatchSize
    /\ job' = [job EXCEPT ![Sweeper] = [Fresh("sweep", 1, "version") EXCEPT !.todo = batch]]
    /\ UNCHANGED <<rate, finals, version, costs, failures>>

(* sweep_uncosted_costs: up to BatchSize finals without an active cost ... *)
SweepSelect(batch) ==
    /\ ~ Open(Sweeper)
    /\ batch # {}
    /\ batch \subseteq {e \in finals : ~ HasActive(e)}
    /\ Cardinality(batch) <= BatchSize
    /\ job' = [job EXCEPT ![Sweeper] = [Fresh("sweep", 1, "version") EXCEPT !.todo = batch]]
    /\ UNCHANGED <<rate, finals, version, costs, failures>>

(* ... then the pricing version, once for all of them.                     *)
SweepVersion ==
    /\ In(Sweeper, "version")
    /\ job' = [job EXCEPT ![Sweeper].version = version, ![Sweeper].phase = "next"]
    /\ UNCHANGED <<rate, finals, version, costs, failures>>

(* Mutant: a reprice works in the version there is. *)
RepriceInPlace(j) ==
    /\ j # Sweeper
    /\ ~ Open(j)
    /\ version < MaxVersion
    /\ job' = [job EXCEPT ![j] = Fresh("reprice", version, "bump")]
    /\ UNCHANGED <<rate, finals, version, costs, failures>>

(* reprice: bump_pricing_version reads the version ...                     *)
RepriceRead(j) ==
    /\ j # Sweeper
    /\ ~ Open(j)
    /\ version < MaxVersion
    /\ job' = [job EXCEPT ![j] = Fresh("reprice", version + 1, "bump")]
    /\ UNCHANGED <<rate, finals, version, costs, failures>>

BumpLocked(j) == \E k \in Jobs \ {j} : Open(k) /\ job[k].bumped

(* ... and writes it before the events of the range are selected.  Without *)
(* a row it INSERTs one, which fails if another job did so in between.     *)
RepriceBump(j, range) ==
    /\ In(j, "bump")
    /\ ~ BumpLocked(j)
    /\ IF job[j].version = 2 /\ version # 1
       THEN Rollback(j)
       ELSE /\ job' = [job EXCEPT ![j].bumped = TRUE, ![j].phase = "next",
                                  ![j].todo = finals \intersect range]
            /\ UNCHANGED <<rate, finals, version, costs>>
    /\ UNCHANGED failures

(* revert: the events of the range, and the version to go back to.         *)
RevertSelect(j, v, range) ==
    /\ j # Sweeper
    /\ ~ Open(j)
    /\ job' = [job EXCEPT ![j] =
          [Fresh("revert", v, "next") EXCEPT !.todo = finals \intersect range]]
    /\ UNCHANGED <<rate, finals, version, costs, failures>>

-----------------------------------------------------------------------------
(* One event of a job.                                                     *)

(* Mutant: a revert deactivates before it looks for its target. *)
TakeEventDeactivating(j, e) ==
    /\ In(j, "next")
    /\ e \in job[j].todo
    /\ IF job[j].kind = "revert" /\ CostRow(j, e, job[j].version) = Absent
       THEN job' = [job EXCEPT ![j].todo = @ \ {e}, ![j].wrote[e] = [v \in Versions |->
                IF v \in ActiveSeen(j, e) THEN [CostRow(j, e, v) EXCEPT !.active = FALSE]
                ELSE @[v]]]
       ELSE job' = [job EXCEPT
              ![j].phase = "deactivate", ![j].event = e, ![j].seen = ActiveSeen(j, e),
              ![j].amount = IF job[j].kind = "revert" THEN Unpriced ELSE rate]
    /\ UNCHANGED <<rate, finals, version, costs, failures>>

(* The price is computed, and the UPDATE that deactivates the event's cost *)
(* finds the rows it will change.  A revert has looked up its target first *)
(* and passes over an event without one.                                   *)
TakeEvent(j, e) ==
    /\ In(j, "next")
    /\ e \in job[j].todo
    /\ IF job[j].kind = "revert" /\ CostRow(j, e, job[j].version) = Absent
       THEN job' = [job EXCEPT ![j].todo = job[j].todo \ {e}]
       ELSE job' = [job EXCEPT
              ![j].phase = "deactivate", ![j].event = e, ![j].seen = ActiveSeen(j, e),
              ![j].amount = IF job[j].kind = "revert" THEN Unpriced ELSE rate]
    /\ UNCHANGED <<rate, finals, version, costs, failures>>

(* The UPDATE has its locks: what it found and is still active is not any  *)
(* more.                                                                   *)
DeactivateOthers(j) ==
    LET e     == job[j].event
        still == job[j].seen \intersect ActiveSeen(j, e)
    IN  /\ In(j, "deactivate")
        /\ \A v \in job[j].seen : ~ Locked(j, e, v)
        /\ job' = [job EXCEPT
              ![j].phase = IF job[j].kind = "revert" THEN "activate" ELSE "lookup",
              ![j].seen = {},
              ![j].found = Absent,
              ![j].wrote[e] = [v \in Versions |->
                  IF v \in still THEN [CostRow(j, e, v) EXCEPT !.active = FALSE]
                  ELSE job[j].wrote[e][v]]]
        /\ UNCHANGED <<rate, finals, version, costs, failures>>

(* record_cost looks for the row of its version ...                        *)
LookUp(j) ==
    /\ In(j, "lookup")
    /\ job' = [job EXCEPT ![j].found = CostRow(j, job[j].event, job[j].version),
                          ![j].phase = "write"]
    /\ UNCHANGED <<rate, finals, version, costs, failures>>

Done(j, row) ==
    LET e == job[j].event
    IN  job' = [job EXCEPT
            ![j].phase = "next", ![j].todo = job[j].todo \ {e}, ![j].event = Absent,
            ![j].seen = {}, ![j].amount = Unpriced, ![j].found = Absent,
            ![j].wrote = Write(j, e, job[j].version, row)]

(* ... and writes it in place (the active column only when the row it read *)
(* was inactive) ...                                                       *)
UpdateCost(j) ==
    LET e == job[j].event
        v == job[j].version
    IN  /\ In(j, "write")
        /\ job[j].found # Absent
        /\ ~ Locked(j, e, v)
        /\ Done(j, [amount |-> job[j].amount,
                    active |-> CostRow(j, e, v).active \/ ~ job[j].found.active])
        /\ UNCHANGED <<rate, finals, version, costs, failures>>

(* ... or inserts it, which fails when another job has done so meanwhile.  *)
InsertCost(j) ==
    LET e == job[j].event
        v == job[j].version
    IN  /\ In(j, "write")
        /\ job[j].found = Absent
        /\ ~ Locked(j, e, v)
        /\ IF CostRow(j, e, v) # Absent
           THEN Rollback(j)
           ELSE /\ Done(j, [amount |-> job[j].amount, active |-> TRUE])
                /\ UNCHANGED <<rate, finals, version, costs>>
        /\ UNCHANGED failures

(* Mutant: a revert prices the event again. *)
ReactivateRepriced(j) ==
    LET e == job[j].event
        v == job[j].version
    IN  /\ In(j, "activate")
        /\ ~ Locked(j, e, v)
        /\ Done(j, [amount |-> rate, active |-> TRUE])
        /\ UNCHANGED <<rate, finals, version, costs, failures>>

(* revert: the row of the version it goes back to.                         *)
Reactivate(j) ==
    LET e == job[j].event
        v == job[j].version
    IN  /\ In(j, "activate")
        /\ ~ Locked(j, e, v)
        /\ Done(j, [CostRow(j, e, v) EXCEPT !.active = TRUE])
        /\ UNCHANGED <<rate, finals, version, costs, failures>>

Commit(j) ==
    /\ In(j, "next")
    /\ job[j].todo = {}
    /\ costs' = [e \in Events |-> [v \in Versions |-> CostRow(j, e, v)]]
    /\ version' = IF job[j].bumped THEN job[j].version ELSE version
    /\ job' = [job EXCEPT ![j] = Absent]
    /\ UNCHANGED <<rate, finals, failures>>

-----------------------------------------------------------------------------
(* Faults.                                                                 *)

(* A job dies: the process stops, the connection or the disk fails.        *)
Fail(j) ==
    /\ Open(j)
    /\ failures < MaxFailures
    /\ failures' = failures + 1
    /\ Rollback(j)

Blocked(j) ==
    \/ In(j, "bump") /\ BumpLocked(j)
    \/ In(j, "deactivate") /\ \E v \in job[j].seen : Locked(j, job[j].event, v)
    \/ /\ In(j, "write") \/ In(j, "activate")
       /\ Locked(j, job[j].event, job[j].version)

(* PostgreSQL ends one of the transactions that wait for each other.       *)
Deadlock(j) ==
    /\ Open(j)
    /\ \A k \in Jobs : Open(k) => Blocked(k)
    /\ Rollback(j)
    /\ UNCHANGED failures

-----------------------------------------------------------------------------
JobStep(j) ==
    \/ \E range \in SUBSET Events : RepriceBump(j, range)
    \/ \E e \in Events : TakeEvent(j, e)
    \/ DeactivateOthers(j)
    \/ LookUp(j)
    \/ UpdateCost(j)
    \/ InsertCost(j)
    \/ Reactivate(j)
    \/ Commit(j)
    \/ Deadlock(j)

Sweep == \/ \E batch \in SUBSET Events : SweepSelect(batch)
         \/ SweepVersion

Next ==
    \/ \E amount \in Amounts : RateChanges(amount)
    \/ \E e \in Events : Ingest(e)
    \/ Sweep
    \/ \E j \in Jobs : RepriceRead(j)
    \/ \E j \in Jobs, v \in Versions, range \in SUBSET Events : RevertSelect(j, v, range)
    \/ \E j \in Jobs : JobStep(j)
    \/ \E j \in Jobs : Fail(j)

Spec == Init /\ [][Next]_vars

(* The sweep runs in a loop for as long as the server does, and a job that *)
(* is open goes on.  One that waits for a row gets it even if others keep  *)
(* taking it: PostgreSQL queues those who wait for a lock in order.        *)
Fairness ==
    /\ WF_vars(Sweep)
    /\ SF_vars(JobStep(Sweeper))
    /\ \A j \in Jobs \ {Sweeper} : WF_vars(JobStep(j))

FairSpec == Spec /\ Fairness

-----------------------------------------------------------------------------
(* Properties.                                                             *)

TypeOK ==
    /\ rate \in Amounts
    /\ finals \subseteq Events
    /\ version \in Versions
    /\ costs \in [Events -> [Versions -> CostRows \union {Absent}]]
    /\ failures \in 0 .. MaxFailures
    /\ job \in [Jobs -> JobRecords \union {Absent}]

(* An event that has an active cost never loses it, whatever jobs overlap: *)
(* deactivating and activating are one transaction (computed_costs.py).    *)
CostNeverVanishes == [][\A e \in Events : HasActive(e) => HasActive(e)']_vars

(* A reprice or a revert leaves the rows of the version it supersedes, and *)
(* of all before it, with their amounts, which is what makes it reversible *)
(* (repricing.py:5-10).  This and CostNeverVanishes are for one            *)
(* administrator at a time, see PricingProofs.                             *)
PriorAmountsKept ==
    [][\A j \in Jobs \ {Sweeper} : Open(j) /\ ~ Open(j)' =>
          \A e \in Events, v \in Versions :
              v <= version /\ costs[e][v] # Absent =>
                  /\ costs'[e][v] # Absent
                  /\ costs'[e][v].amount = costs[e][v].amount]_vars

(* The costs there are stay: the active ones, and those of other versions. *)
CostHistoryKept == CostNeverVanishes /\ PriorAmountsKept

(* Every final attempt gets a cost at last (cost_worker.py:5-8, "eventual  *)
(* cost coverage after ingest bursts and after a worker restart").         *)
EventuallyCosted == \A e \in Events : (e \in finals) ~> HasActive(e)

=============================================================================
