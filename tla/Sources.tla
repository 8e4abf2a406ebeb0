----------------------------- MODULE Sources -----------------------------
(***************************************************************************)
(* The registry of reporting sources and their health (services/           *)
(* sources.py), as ingest requests and the sources API write it            *)
(* (services/ingest_v2.py, ingest.py, ingest_v2_meta.py,                   *)
(* api/v2/sources.py).                                                     *)
(*                                                                         *)
(* A request looks its source up, and at its end writes the row it found   *)
(* with the batch's health, or inserts one; it is one transaction (READ    *)
(* COMMITTED), and an UPDATE carries the columns whose value it changed.   *)
(* The columns that only describe a source (version, machine, label,       *)
(* last_seen, clock skew) are left out.                                    *)
(***************************************************************************)
EXTENDS Integers, Sequences

CONSTANTS
    Sources,      \* identities: type, name and instance id
    Named,        \* those with an instance id
    Requests,     \* ingest requests that may be open at one time
    MaxTime,      \* the clock runs from 1 to MaxTime
    ErrorWindow,  \* how long errors are counted together
    MaxErrors,    \* bound on the errors of a source
    None          \* no request

Times == 1 .. MaxTime
Never == 0

(* The schema versions of requests; 0 in a row is none reported yet.       *)
Apis == {"v1", "v2", "limits"}

Rows == [firstSeen : Times, ingested : Times \union {Never},
         errors : 0 .. MaxErrors, window : Times \union {Never},
         version : 0 .. 2, revoked : BOOLEAN]

(* What a request found, or will insert, and the health of its batch.      *)
Lookups == [source : Sources, api : Apis, errors : 0 .. MaxErrors, found : Rows,
            insert : BOOLEAN]

ASSUME SourcesAssumption ==
    /\ Named \subseteq Sources
    /\ MaxTime \in Nat \ {0}
    /\ ErrorWindow \in Nat
    /\ MaxErrors \in Nat

VARIABLES
    now,      \* the clock
    rows,     \* table sources: the rows of each identity, oldest first
    request   \* what each open request has found, and will record

sourceVars == <<now, rows, request>>

-----------------------------------------------------------------------------
SourcesInit ==
    /\ now = 1
    /\ rows = [s \in Sources |-> <<>>]
    /\ request = [r \in Requests |-> None]

NewRow == [firstSeen |-> now, ingested |-> Never, errors |-> 0, window |-> Never,
           version |-> 0, revoked |-> FALSE]

(* resolve_or_create: the source's row is read, or one is to be inserted.  *)
(* With two rows of one identity the lookup raises, and the request fails. *)
(* Whether a row is revoked is not looked at.  A v1 source's instance is   *)
(* its machine; only v2 batches have events the ledger rejects.            *)
Resolve(r, s, api, errors) ==
    /\ request[r] = None
    /\ Len(rows[s]) <= 1
    /\ api = "v1" => s \in Named
    /\ api # "v2" => errors = 0
    /\ request' = [request EXCEPT ![r] =
          [source |-> s, api |-> api, errors |-> errors,
           found |-> IF rows[s] = <<>> THEN NewRow ELSE rows[s][1],
           insert |-> rows[s] = <<>>]]
    /\ UNCHANGED <<now, rows>>

WindowLapsed(row) == row.window = Never \/ now - row.window > ErrorWindow

AddErrors(m, n) == IF m + n > MaxErrors THEN MaxErrors ELSE m + n

(* record_ingest; a limits request records no health.                      *)
Health(row, api, errors) ==
    IF api = "limits" THEN row
    ELSE [row EXCEPT
            !.version = IF api = "v1" THEN 1 ELSE 2,
            !.ingested = IF errors = 0 THEN now ELSE @,
            !.errors = IF WindowLapsed(row) THEN errors ELSE AddErrors(@, errors),
            !.window = IF WindowLapsed(row) THEN now ELSE @]

(* Mutant: every column is written. *)
WholeRow(row, read, new) == new

(* The UPDATE: the columns that changed, over the row as it is by then.    *)
Updated(row, read, new) ==
    [column \in DOMAIN row |-> IF new[column] # read[column] THEN new[column] ELSE row[column]]

(* The request commits.  The unique constraint refuses a second row of an  *)
(* identity that has an instance id, and the request fails.                *)
CommitIngest(r) ==
    LET t   == request[r]
        new == Health(t.found, t.api, t.errors)
    IN  /\ t # None
        /\ rows' = IF ~ t.insert
                   THEN [rows EXCEPT ![t.source][1] = Updated(@, t.found, new)]
                   ELSE IF t.source \in Named /\ rows[t.source] # <<>> THEN rows
                   ELSE [rows EXCEPT ![t.source] = Append(@, new)]
        /\ request' = [request EXCEPT ![r] = None]
        /\ UNCHANGED now

IngestFails(r) ==
    /\ request[r] # None
    /\ request' = [request EXCEPT ![r] = None]
    /\ UNCHANGED <<now, rows>>

(* POST /sources/{id}/revoke.  Nothing takes a revocation back.            *)
Revoke(s, i) ==
    /\ i \in DOMAIN rows[s]
    /\ rows' = [rows EXCEPT ![s][i].revoked = TRUE]
    /\ UNCHANGED <<now, request>>

Tick ==
    /\ now < MaxTime
    /\ now' = now + 1
    /\ UNCHANGED <<rows, request>>

SourcesNext ==
    \/ \E r \in Requests, s \in Sources, api \in Apis, errors \in 0 .. MaxErrors :
          Resolve(r, s, api, errors)
    \/ \E r \in Requests : CommitIngest(r) \/ IngestFails(r)
    \/ \E s \in Sources, i \in 1 .. 2 : Revoke(s, i)
    \/ Tick

SourcesSpec == SourcesInit /\ [][SourcesNext]_sourceVars

-----------------------------------------------------------------------------
(* Properties.                                                             *)

SourcesTypeOK ==
    /\ now \in Times
    /\ rows \in [Sources -> Seq(Rows)]
    /\ request \in [Requests -> Lookups \union {None}]

(* A revocation is never undone, whatever requests read the row before it  *)
(* and write it after (services/sources.py, api/v2/sources.py:139).        *)
RevocationSticks ==
    [][\A s \in Sources : \A i \in DOMAIN rows[s] :
          rows[s][i].revoked => rows'[s][i].revoked]_sourceVars

(* "a NULL instance id is matched explicitly so a source without one is    *)
(* not duplicated" (services/sources.py:8-9): a second row would make      *)
(* every later lookup of the source fail.                                  *)
OneRowPerSource == \A s \in Sources : Len(rows[s]) <= 1
=============================================================================
