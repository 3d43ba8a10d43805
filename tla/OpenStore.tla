----------------------------- MODULE OpenStore -----------------------------
(***************************************************************************)
(* Processes that open a database file with SqliteStore::open and use it:  *)
(* the migration first, then the read model's backfill, and only then is   *)
(* there a store to append to, to compact and to catch up (driver.rs,      *)
(* store.rs).  Composes Migration, whose variables it has, with Backfill.  *)
(***************************************************************************)
EXTENDS Migration

CONSTANTS Menu, Unknown, Batch, Wrap, MaxFaults

VARIABLES bad, saved, taken, memory, ready, writing, pc, reset, left, on, head,
          cursor, todo, running, report, ghost, faults

B == INSTANCE Backfill WITH Stores <- Openers

ASSUME OpenStoreAssumption == B!BackfillConstants

sinkVars == <<bad, saved, taken>>
storeVars == <<memory, ready, writing>>
streamVars == <<on, head, cursor, todo, running>>
callVars == <<pc, reset, left, streamVars, report, ghost>>
restOfStore == <<sinkVars, storeVars, callVars, faults>>
restOfFile == <<schemaVars, openerVars, held>>
vars == <<migrationVars, restOfStore>>

-----------------------------------------------------------------------------
(* SqliteBackends::open, then SqliteStore::from_backends.                  *)

\* Slip: the backfill does not wait for the migration.
AtOnce(o) == phase[o] # "closed"

Migrated(o) == phase[o] = "open"

Migrate(o) ==
  /\ Open(o) \/ Step(o)
  /\ UNCHANGED restOfStore

MigrationFails(o) ==
  /\ phase[o] = "step" /\ Close(o)
  /\ UNCHANGED restOfStore

Attach(o) ==
  /\ Migrated(o) /\ B!Start(o)
  /\ UNCHANGED restOfFile

Use(o) ==
  /\ B!Work(o)
  /\ UNCHANGED restOfFile

\* The driver goes with the store.
Stop(o) == B!Stop(o) /\ Close(o)

-----------------------------------------------------------------------------
(* The table of events, which both have.                                   *)

Write(o, s) == B!Commit(o, s) /\ Append(o, s)

CompactStream(o, s, k) == B!Compact(o, s, k) /\ Compact(o, s, k)

\* A row that another client takes away: later patches meet another state, on
\* which they may or may not apply, and the report of a call in progress misses
\* the row.  Not the last one, whose coordinate would be used again.
TamperRow(s, n) ==
  /\ n # LastOf(log[s]) /\ Tamper(s, n)
  /\ \E fail \in SUBSET {m \in log[s] : m > n} :
       bad' = [bad EXCEPT ![s] = {m \in @ : m < n} \cup fail]
  /\ ghost' = [q \in Openers |-> [ghost[q] EXCEPT !.steady = pc[q] \in {"down", "idle"}]]
  /\ UNCHANGED <<saved, taken, storeVars, pc, reset, left, streamVars, report, faults>>

-----------------------------------------------------------------------------
Init == MigrationInit /\ B!BackfillStart

Next ==
  \/ \E o \in Openers : Migrate(o) \/ MigrationFails(o) \/ Attach(o) \/ Use(o) \/ Stop(o)
  \/ \E o \in Openers, s \in Streams : Write(o, s)
  \/ \E o \in Openers, s \in Streams : \E k \in log[s] : CompactStream(o, s, k)
  \/ \E s \in Streams : \E n \in log[s] : TamperRow(s, n)

Spec == Init /\ [][Next]_vars

-----------------------------------------------------------------------------
(* Properties.                                                             *)

\* Nobody uses the file before its schema is complete for its build: not the
\* backfill, a write, a dispatch or a call, whatever other openers do to the
\* version meanwhile.
UsersHaveSchema ==
  \A o \in Openers : pc[o] # "down" \/ writing[o] # <<>> => 1 .. Known[o] \subseteq schema

\* The two properties of Backfill, of stores whose file others migrate, change
\* and compact meanwhile.
CheckpointsCover == B!CheckpointsCover
OkMeansDriven == B!OkMeansDriven

\* The same of the report, as long as nobody else has taken a row out of the
\* middle of a stream: what is skipped is counted by coordinates.
Gapless(s) == log[s] = {n \in 1 .. LastOf(log[s]) : \E m \in log[s] : m <= n}
ReportAccounts == (\A s \in Streams : Gapless(s)) => B!ReportAccounts
=============================================================================
