----------------------------- MODULE Migration -----------------------------
(***************************************************************************)
(* The schema of one database file under several openers: `apply` of       *)
(* migration.rs, run by every process that opens the file, and the triggers*)
(* its last step installs, which compact_stream takes away and puts back.  *)
(*                                                                         *)
(* A step of the migration is a number, and the schema is the set of steps *)
(* whose tables, indices or triggers exist.  Builds differ by how many     *)
(* steps they know.  Each step is one transaction; the steps of two openers*)
(* interleave, because the version is read once, outside of them.          *)
(***************************************************************************)
EXTENDS Naturals, FiniteSets

CONSTANTS
  Openers,   \* processes that open the file, each again and again
  Known,     \* how many steps an opener's build knows: MIGRATIONS.len()
  Newest,    \* how many the newest build knows
  Streams,
  MaxEvents  \* bound: the events of all streams, of which a file may have one
             \* in each when it is found

Baseline == 1  \* the step of the tables events, labels and cache
Triggers == 4  \* the step of the append-only triggers

ASSUME MigrationAssumption ==
  /\ Newest \in Nat /\ Newest >= Triggers
  /\ Known \in [Openers -> 1 .. Newest]
  /\ MaxEvents \in Nat
  /\ IsFiniteSet(Streams) /\ Cardinality(Streams) <= MaxEvents

VARIABLES
  version,  \* PRAGMA user_version
  schema,   \* the steps whose objects exist
  phase,    \* of an opener: "closed", "step" or "open"
  next,     \* the step an opener runs next
  log,      \* the coordinates of a stream that have a row in events
  base,     \* the coordinate of a stream's snapshot, 0 for none
  held      \* history variable: the rows that the triggers have guarded

schemaVars == <<version, schema>>
openerVars == <<phase, next>>
rowVars == <<log, base, held>>
migrationVars == <<schemaVars, openerVars, rowVars>>

Steps == 1 .. Newest
Phases == {"closed", "step", "open"}
LastOf(S) == IF S = {} THEN 0 ELSE CHOOSE n \in S : \A m \in S : m <= n
Written == Cardinality(UNION {{s} \X (1 .. LastOf(log[s])) : s \in Streams})

\* The triggers guard what is there once they are installed.
Guarding(steps, rows) ==
  [s \in Streams |-> IF Triggers \in steps THEN held[s] \cup rows[s] ELSE held[s]]

-----------------------------------------------------------------------------
(* apply                                                                   *)

\* Slip: the iterator skips one step too many.
OneTooMany == version + 2

\* The steps up to the version are skipped.
FirstOutstanding == version + 1

\* init_conn: the version is read once.  A file of a newer build is refused,
\* and one that is up to date needs no step.
Open(o) ==
  /\ phase[o] = "closed"
  /\ version <= Known[o]
  /\ next' = [next EXCEPT ![o] = FirstOutstanding]
  /\ phase' = [phase EXCEPT ![o] = IF version = Known[o] THEN "open" ELSE "step"]
  /\ UNCHANGED <<schemaVars, rowVars>>

\* CREATE ... IF NOT EXISTS: what is there already stays as it is.
WithStep(o) == schema \cup {next[o]}

\* One transaction: the objects of the step, and its number as the version,
\* whatever the version is by now.
Step(o) ==
  /\ phase[o] = "step"
  /\ schema' = WithStep(o)
  /\ version' = next[o]
  /\ held' = Guarding(schema', log)
  /\ next' = [next EXCEPT ![o] = @ + 1]
  /\ phase' = [phase EXCEPT ![o] = IF next[o] = Known[o] THEN "open" ELSE @]
  /\ UNCHANGED <<log, base>>

\* A step fails and is rolled back (a busy file, an I/O error), or the process
\* ends, here or later.
Close(o) ==
  /\ phase[o] # "closed"
  /\ phase' = [phase EXCEPT ![o] = "closed"]
  /\ next' = [next EXCEPT ![o] = 0]
  /\ UNCHANGED <<schemaVars, rowVars>>

-----------------------------------------------------------------------------
(* The table events.                                                       *)

Append(o, s) ==
  /\ phase[o] = "open" /\ Written < MaxEvents
  /\ log' = [log EXCEPT ![s] = @ \cup {LastOf(@) + 1}]
  /\ held' = Guarding(schema, log')
  /\ UNCHANGED <<schemaVars, openerVars, base>>

\* A client that is not ai-store deletes or rewrites a row: what the triggers
\* are there to deny, to every connection.
Tamper(s, n) ==
  /\ Baseline \in schema /\ Triggers \notin schema
  /\ n \in log[s]
  /\ log' = [log EXCEPT ![s] = @ \ {n}]
  /\ UNCHANGED <<schemaVars, openerVars, base, held>>

\* Slip: the triggers are dropped and not created again.
TriggersDropped == schema \ {Triggers}

\* DROP TRIGGER IF EXISTS and CREATE TRIGGER, in one transaction.
TriggersBack == TriggersDropped \cup {Triggers}

\* compact_stream, of the builds that have it; StoreWrite has its steps.
Compact(o, s, k) ==
  /\ phase[o] = "open" /\ Known[o] >= Triggers
  /\ k \in log[s]
  /\ log' = [log EXCEPT ![s] = {n \in @ : n >= k}]
  /\ base' = [base EXCEPT ![s] = k]
  /\ schema' = TriggersBack
  /\ held' = Guarding(schema', log')
  /\ UNCHANGED <<version, openerVars>>

-----------------------------------------------------------------------------
\* A new file; one of the time before the versions, with the baseline tables
\* and version 0; or one that some build has left, which may be newer than the
\* others know.
Files == {<<0, {}>>, <<0, {Baseline}>>} \cup {<<v, 1 .. v>> : v \in Steps}

MigrationInit ==
  /\ \E f \in Files : version = f[1] /\ schema = f[2]
  /\ \E n \in {0, 1} :
       /\ Baseline \notin schema => n = 0
       /\ log = [s \in Streams |-> 1 .. n]
  /\ base = [s \in Streams |-> 0]
  /\ held = [s \in Streams |-> IF Triggers \in schema THEN log[s] ELSE {}]
  /\ phase = [o \in Openers |-> "closed"]
  /\ next = [o \in Openers |-> 0]

MigrationNext ==
  \/ \E o \in Openers : Open(o) \/ Step(o) \/ Close(o)
  \/ \E o \in Openers, s \in Streams : Append(o, s)
  \/ \E s \in Streams : \E n \in log[s] : Tamper(s, n)
  \/ \E o \in Openers, s \in Streams : \E k \in log[s] : Compact(o, s, k)

MigrationSpec == MigrationInit /\ [][MigrationNext]_migrationVars

-----------------------------------------------------------------------------
(* Properties.                                                             *)

\* Every variable has its type.
MigrationTypeOK ==
  /\ version \in 0 .. Newest
  /\ schema \subseteq Steps
  /\ phase \in [Openers -> Phases]
  /\ next \in [Openers -> 0 .. Newest + 1]
  /\ log \in [Streams -> SUBSET Nat]
  /\ base \in [Streams -> Nat]
  /\ held \in [Streams -> SUBSET Nat]

\* The version is never ahead of the schema, whichever openers stop between
\* two steps and however far a slow one sets the version back: a later open
\* that skips the steps up to it skips nothing that is missing.
VersionCovered == 1 .. version \subseteq schema

\* A store that is open has every table its build knows, although it read the
\* version before the others changed it.
OpenHasSchema ==
  \A o \in Openers : phase[o] = "open" => 1 .. Known[o] \subseteq schema

\* From the triggers' installation on, an event is gone only below a
\* compaction's snapshot: no other client gets to remove one, not even while
\* compact_stream has the triggers dropped.
HistoryKept ==
  \A s \in Streams : \A n \in held[s] : n \in log[s] \/ n < base[s]

-----------------------------------------------------------------------------
(* The inductive invariant.                                                *)

\* What an opener knows of the schema, wherever it is in its migration.
OpenerSound(o) ==
  /\ phase[o] = "step" =>
       next[o] \in 1 .. Known[o] /\ \A n \in 1 .. Newest : n < next[o] => n \in schema
  /\ phase[o] = "open" => 1 .. Known[o] \subseteq schema

\* Rows are guarded, and a snapshot is only made, where the triggers are; the
\* snapshot's row stays, and is the first.
RowsSound(s) ==
  /\ LastOf(log[s]) \in Nat /\ \A n \in log[s] : n <= LastOf(log[s])
  /\ held[s] # {} => Triggers \in schema
  /\ base[s] # 0 => Triggers \in schema /\ base[s] \in log[s]
  /\ \A n \in log[s] : base[s] <= n

MigrationInv ==
  /\ MigrationTypeOK
  /\ VersionCovered
  /\ \A o \in Openers : OpenerSound(o)
  /\ \A s \in Streams : RowsSound(s)
  /\ HistoryKept
=============================================================================
