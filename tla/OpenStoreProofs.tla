-------------------------- MODULE OpenStoreProofs --------------------------
(***************************************************************************)
(* What holds of a file that any processes of any builds migrate, use and  *)
(* leave: its version never runs ahead of its schema and its history is    *)
(* kept; what stores do to it is what Migration allows, and nobody uses it *)
(* before its schema is there; its checkpoints pass over no event, and a   *)
(* catch-up that returns Ok has left out no stream and reports what it did *)
(* with every event.                                                       *)
(***************************************************************************)
EXTENDS OpenStore, NaturalSets, FunctionTheorems

\* The last element of a bounded set of naturals.
LEMMA LastOfIs ==
  ASSUME NEW S \in SUBSET Nat, NEW b \in Nat, \A n \in S : n <= b
  PROVE  /\ LastOf(S) \in Nat
         /\ \A n \in S : n <= LastOf(S)
         /\ S # {} => LastOf(S) \in S
<1>1. CASE S = {}
  BY <1>1 DEF LastOf
<1>2. CASE S # {}
  <2>1. \E n \in S : \A m \in S : m <= n
    BY <1>2, GreatestExists
  <2>2. LastOf(S) \in S /\ \A m \in S : m <= LastOf(S)
    BY <1>2, <2>1 DEF LastOf
  <2> QED
    BY <2>2
<1> QED
  BY <1>1, <1>2

\* The step of the triggers is one of the newest build's.
LEMMA TriggersStep == Triggers \in Steps /\ Baseline \in Steps /\ Newest \in Nat
BY MigrationAssumption DEF Triggers, Baseline, Steps

LEMMA InitSound == MigrationInit => MigrationInv
<1> SUFFICES ASSUME MigrationInit PROVE MigrationInv
  OBVIOUS
<1> USE MigrationAssumption, TriggersStep DEF MigrationInit
<1>1. version \in 0 .. Newest /\ schema \subseteq Steps /\ VersionCovered
  BY DEF Files, Steps, VersionCovered
<1>2. PICK k \in {0, 1} : log = [s \in Streams |-> 1 .. k]
  OBVIOUS
<1>3. /\ log \in [Streams -> SUBSET Nat] /\ base \in [Streams -> Nat]
      /\ held \in [Streams -> SUBSET Nat]
  <2>1. 1 .. k \in SUBSET Nat
    OBVIOUS
  <2> QED
    BY <1>2, <2>1
<1>4. MigrationTypeOK
  BY <1>1, <1>3 DEF MigrationTypeOK, Phases
<1>5. ASSUME NEW s \in Streams PROVE RowsSound(s)
  <2>1. LastOf(log[s]) \in Nat /\ \A n \in log[s] : n <= LastOf(log[s])
    <3>1. log[s] \in SUBSET Nat /\ \A n \in log[s] : n <= 1
      BY <1>2
    <3> QED
      BY <3>1, LastOfIs
  <2>2. base[s] = 0 /\ (held[s] # {} => Triggers \in schema)
    BY DEF RowsSound
  <2> QED
    BY <2>1, <2>2, <1>2 DEF RowsSound
<1>6. HistoryKept
  BY DEF HistoryKept
<1>7. ASSUME NEW o \in Openers PROVE OpenerSound(o)
  BY DEF OpenerSound
<1> QED
  BY <1>1, <1>4, <1>5, <1>6, <1>7 DEF MigrationInv

-----------------------------------------------------------------------------
(* The actions.                                                            *)

LEMMA OpenSound ==
  ASSUME MigrationInv, NEW o \in Openers, Open(o)
  PROVE  MigrationInv'
<1> USE MigrationAssumption, TriggersStep DEF MigrationInv, MigrationTypeOK, Open
<1>1. version \in Nat /\ Known[o] \in Nat /\ Known[o] <= Newest
  <2>1. Known[o] \in 1 .. Newest
    OBVIOUS
  <2> QED
    BY <2>1
<1>2. MigrationTypeOK'
  <2>1. next' \in [Openers -> 0 .. Newest + 1]
    BY <1>1 DEF FirstOutstanding
  <2>2. phase' \in [Openers -> Phases]
    BY DEF Phases
  <2> QED
    BY <2>1, <2>2 DEF schemaVars, rowVars
<1>3. VersionCovered' /\ HistoryKept' /\ \A s \in Streams : RowsSound(s)'
  BY DEF VersionCovered, HistoryKept, RowsSound, schemaVars, rowVars
<1>4. ASSUME NEW q \in Openers PROVE OpenerSound(q)'
  <2>1. CASE q = o
    BY <1>1, <2>1 DEF OpenerSound, VersionCovered, FirstOutstanding, schemaVars
  <2>2. CASE q # o
    <3>1. phase'[q] = phase[q] /\ next'[q] = next[q] /\ schema' = schema
      BY <2>2 DEF schemaVars
    <3> QED
      BY <3>1 DEF OpenerSound
  <2> QED
    BY <2>1, <2>2
<1> QED
  BY <1>2, <1>3, <1>4

LEMMA StepSound ==
  ASSUME MigrationInv, NEW o \in Openers, Step(o)
  PROVE  MigrationInv'
<1> USE MigrationAssumption, TriggersStep DEF MigrationInv, MigrationTypeOK, Step
<1>1. /\ next[o] \in 1 .. Known[o] /\ Known[o] \in 1 .. Newest
      /\ \A n \in 1 .. Newest : n < next[o] => n \in schema
  BY DEF OpenerSound
<1>2. schema' = schema \cup {next[o]} /\ version' = next[o]
  BY DEF WithStep
<1>3. VersionCovered'
  BY <1>1, <1>2 DEF VersionCovered
<1>4. /\ log' = log /\ base' = base /\ held' \in [Streams -> SUBSET Nat]
      /\ \A s \in Streams : held[s] \subseteq held'[s] /\ held'[s] \subseteq held[s] \cup log[s]
      /\ \A s \in Streams : held'[s] # {} => Triggers \in schema'
  <2>1. \A s \in Streams : held[s] # {} => Triggers \in schema'
    BY <1>2 DEF RowsSound
  <2>2. held' = Guarding(schema', log)
    OBVIOUS
  <2> QED
    BY <2>1, <2>2 DEF Guarding
<1>5. MigrationTypeOK'
  <2>1. next' \in [Openers -> 0 .. Newest + 1] /\ version' \in 0 .. Newest
    BY <1>1, <1>2
  <2>2. phase' \in [Openers -> Phases]
    BY DEF Phases
  <2>3. schema' \subseteq Steps
    <3>1. next[o] \in Steps
      BY <1>1 DEF Steps
    <3> QED
      BY <1>2, <3>1
  <2> QED
    BY <2>1, <2>2, <2>3, <1>4
<1>6. HistoryKept'
  BY <1>4 DEF HistoryKept
<1>7. ASSUME NEW s \in Streams PROVE RowsSound(s)'
  BY <1>2, <1>4 DEF RowsSound
<1>8. ASSUME NEW q \in Openers PROVE OpenerSound(q)'
  <2>1. CASE q = o
    <3>1. next'[q] = next[o] + 1 /\ (phase'[q] = "open" <=> next[o] = Known[o])
      BY <2>1
    <3> QED
      BY <1>1, <1>2, <2>1, <3>1 DEF OpenerSound
  <2>2. CASE q # o
    <3>1. phase'[q] = phase[q] /\ next'[q] = next[q] /\ schema \subseteq schema'
      BY <2>2, <1>2
    <3> QED
      BY <3>1 DEF OpenerSound
  <2> QED
    BY <2>1, <2>2
<1> QED
  BY <1>3, <1>5, <1>6, <1>7, <1>8

LEMMA CloseSound ==
  ASSUME MigrationInv, NEW o \in Openers, Close(o)
  PROVE  MigrationInv'
<1> USE TriggersStep DEF MigrationInv, MigrationTypeOK, Close, schemaVars, rowVars
<1>1. MigrationTypeOK' /\ VersionCovered' /\ HistoryKept' /\ \A s \in Streams : RowsSound(s)'
  BY DEF Phases, VersionCovered, HistoryKept, RowsSound
<1>2. ASSUME NEW q \in Openers PROVE OpenerSound(q)'
  <2>1. CASE q = o
    BY <2>1 DEF OpenerSound
  <2>2. CASE q # o
    <3>1. phase'[q] = phase[q] /\ next'[q] = next[q] /\ schema' = schema
      BY <2>2
    <3> QED
      BY <3>1 DEF OpenerSound
  <2> QED
    BY <2>1, <2>2
<1> QED
  BY <1>1, <1>2

\* What the openers know is not touched where schema and version stay.
LEMMA OpenersKept ==
  ASSUME MigrationInv, schema \subseteq schema', UNCHANGED <<version, phase, next>>
  PROVE  VersionCovered' /\ \A o \in Openers : OpenerSound(o)'
BY DEF MigrationInv, VersionCovered, OpenerSound

LEMMA AppendSound ==
  ASSUME MigrationInv, NEW o \in Openers, NEW s \in Streams, Append(o, s)
  PROVE  MigrationInv'
<1> DEFINE n == LastOf(log[s]) + 1
<1>1. /\ log \in [Streams -> SUBSET Nat] /\ base \in [Streams -> Nat]
      /\ held \in [Streams -> SUBSET Nat]
      /\ \A q \in Streams : RowsSound(q)
  BY DEF MigrationInv, MigrationTypeOK
<1>2. n \in Nat /\ \A m \in log[s] : m <= n
  BY <1>1 DEF RowsSound
<1>3. log' = [log EXCEPT ![s] = @ \cup {n}] /\ held' = Guarding(schema, log')
  BY DEF Append
<1>4. UNCHANGED <<version, schema, phase, next, base>>
  BY DEF Append, schemaVars, openerVars
<1> HIDE DEF n
<1>5. log' \in [Streams -> SUBSET Nat] /\ \A q \in Streams : log[q] \subseteq log'[q]
  BY <1>1, <1>2, <1>3
<1>6. /\ held' \in [Streams -> SUBSET Nat]
      /\ \A q \in Streams : held'[q] \subseteq held[q] \cup log'[q]
      /\ \A q \in Streams : held'[q] # {} => Triggers \in schema
  BY <1>1, <1>3, <1>5 DEF Guarding, RowsSound
<1>7. MigrationTypeOK'
  BY <1>4, <1>5, <1>6 DEF MigrationInv, MigrationTypeOK
<1>8. ASSUME NEW q \in Streams PROVE RowsSound(q)'
  <2>1. CASE q = s
    <3>1. log'[s] = log[s] \cup {n} /\ \A m \in log'[s] : m <= n
      BY <1>1, <1>2, <1>3
    <3>2. LastOf(log'[s]) \in Nat /\ \A m \in log'[s] : m <= LastOf(log'[s])
      BY <3>1, <1>2, <1>5, LastOfIs
    <3>3. base[s] <= n
      <4>1. base[s] \in Nat /\ (base[s] # 0 => base[s] \in log[s])
        BY <1>1 DEF RowsSound
      <4> QED
        BY <4>1, <1>2
    <3> QED
      BY <2>1, <3>1, <3>2, <3>3, <1>1, <1>4, <1>6 DEF RowsSound
  <2>2. CASE q # s
    <3>1. log'[q] = log[q]
      BY <2>2, <1>1, <1>3
    <3> QED
      BY <3>1, <1>1, <1>4, <1>6 DEF RowsSound
  <2> QED
    BY <2>1, <2>2
<1>9. HistoryKept'
  BY <1>4, <1>5, <1>6 DEF MigrationInv, HistoryKept
<1> QED
  BY <1>4, <1>7, <1>8, <1>9, OpenersKept DEF MigrationInv

\* A row can only be taken away while no row is guarded.
LEMMA TamperSound ==
  ASSUME MigrationInv, NEW s \in Streams, NEW n \in log[s], Tamper(s, n)
  PROVE  MigrationInv'
<1>1. /\ log \in [Streams -> SUBSET Nat] /\ base \in [Streams -> Nat]
      /\ \A q \in Streams : RowsSound(q)
  BY DEF MigrationInv, MigrationTypeOK
<1>2. /\ UNCHANGED <<version, schema, phase, next, base, held>>
      /\ log' = [log EXCEPT ![s] = @ \ {n}]
      /\ \A q \in Streams : held[q] = {} /\ base[q] = 0
  BY <1>1 DEF Tamper, RowsSound, schemaVars, openerVars
<1>3. log' \in [Streams -> SUBSET Nat] /\ \A q \in Streams : log'[q] \subseteq log[q]
  BY <1>1, <1>2
<1>4. MigrationTypeOK'
  BY <1>2, <1>3 DEF MigrationInv, MigrationTypeOK
<1>5. ASSUME NEW q \in Streams PROVE RowsSound(q)'
  <2>1. LastOf(log'[q]) \in Nat /\ \A m \in log'[q] : m <= LastOf(log'[q])
    <3>1. /\ log'[q] \in SUBSET Nat /\ LastOf(log[q]) \in Nat
          /\ \A m \in log'[q] : m <= LastOf(log[q])
      BY <1>1, <1>3 DEF RowsSound
    <3> QED
      BY <3>1, LastOfIs
  <2>2. log'[q] \in SUBSET Nat /\ base'[q] = 0 /\ held'[q] = {}
    BY <1>2, <1>3
  <2> QED
    BY <2>1, <2>2 DEF RowsSound
<1>6. HistoryKept'
  BY <1>2 DEF HistoryKept
<1> QED
  BY <1>2, <1>4, <1>5, <1>6, OpenersKept DEF MigrationInv

LEMMA CompactSound ==
  ASSUME MigrationInv, NEW o \in Openers, NEW s \in Streams, NEW k \in log[s],
         Compact(o, s, k)
  PROVE  MigrationInv'
<1>1. /\ log \in [Streams -> SUBSET Nat] /\ base \in [Streams -> Nat]
      /\ held \in [Streams -> SUBSET Nat] /\ schema \subseteq Steps
      /\ \A q \in Streams : RowsSound(q)
  BY DEF MigrationInv, MigrationTypeOK
<1>2. /\ UNCHANGED <<version, phase, next>>
      /\ log' = [log EXCEPT ![s] = {n \in @ : n >= k}]
      /\ base' = [base EXCEPT ![s] = k]
      /\ schema' = schema \cup {Triggers}
      /\ held' = Guarding(schema', log')
  BY DEF Compact, TriggersBack, TriggersDropped, openerVars
<1>3. /\ k \in Nat /\ base[s] <= k
      /\ log' \in [Streams -> SUBSET Nat] /\ base' \in [Streams -> Nat]
      /\ log'[s] = {n \in log[s] : n >= k} /\ base'[s] = k
      /\ \A q \in Streams : q # s => log'[q] = log[q] /\ base'[q] = base[q]
  BY <1>1, <1>2 DEF RowsSound
<1>4. held' = [q \in Streams |-> held[q] \cup log'[q]]
  BY <1>2 DEF Guarding
<1>5. held' \in [Streams -> SUBSET Nat]
  BY <1>1, <1>3, <1>4
<1>6. MigrationTypeOK'
  BY <1>1, <1>2, <1>3, <1>5, TriggersStep DEF MigrationInv, MigrationTypeOK
<1>7. ASSUME NEW q \in Streams PROVE RowsSound(q)'
  <2>1. log'[q] \subseteq log[q]
    BY <1>3
  <2>2. LastOf(log'[q]) \in Nat /\ \A m \in log'[q] : m <= LastOf(log'[q])
    <3>1. /\ log'[q] \in SUBSET Nat /\ LastOf(log[q]) \in Nat
          /\ \A m \in log'[q] : m <= LastOf(log[q])
      BY <1>1, <1>3, <2>1 DEF RowsSound
    <3> QED
      BY <3>1, LastOfIs
  <2>3. Triggers \in schema'
    BY <1>2
  <2>4. CASE q = s
    BY <2>2, <2>3, <2>4, <1>3 DEF RowsSound
  <2>5. CASE q # s
    BY <2>2, <2>3, <2>5, <1>1, <1>3 DEF RowsSound
  <2> QED
    BY <2>4, <2>5
<1>8. HistoryKept'
  <2> SUFFICES ASSUME NEW q \in Streams, NEW n \in held'[q]
               PROVE  n \in log'[q] \/ n < base'[q]
    BY DEF HistoryKept
  <2>1. n \in log'[q] \/ n \in log[q] \/ n < base[q]
    BY <1>4 DEF MigrationInv, HistoryKept
  <2>2. n \in Nat /\ base[q] \in Nat
    BY <1>1, <1>5
  <2>3. CASE q = s
    BY <2>1, <2>2, <2>3, <1>3
  <2>4. CASE q # s
    BY <2>1, <2>4, <1>3
  <2> QED
    BY <2>3, <2>4
<1> QED
  BY <1>2, <1>6, <1>7, <1>8, OpenersKept DEF MigrationInv

-----------------------------------------------------------------------------
LEMMA NextSound == MigrationInv /\ [MigrationNext]_migrationVars => MigrationInv'
<1> SUFFICES ASSUME MigrationInv, [MigrationNext]_migrationVars PROVE MigrationInv'
  OBVIOUS
<1>1. CASE UNCHANGED migrationVars
  BY <1>1 DEF migrationVars, schemaVars, openerVars, rowVars, MigrationInv,
     MigrationTypeOK, VersionCovered, OpenerSound, RowsSound, HistoryKept
<1>2. CASE MigrationNext
  BY <1>2, OpenSound, StepSound, CloseSound, AppendSound, TamperSound,
     CompactSound DEF MigrationNext
<1> QED
  BY <1>1, <1>2

\* The inductive invariant holds: for any openers with any builds, which start
\* and stop in any order, between any two steps.
THEOREM MigrationSound == MigrationSpec => []MigrationInv
BY InitSound, NextSound, PTL DEF MigrationSpec

\* No step up to the version is missing, so that no later open skips one.
THEOREM NoStepSkipped == MigrationSpec => []VersionCovered
<1>1. MigrationInv => VersionCovered
  BY DEF MigrationInv
<1> QED
  BY <1>1, MigrationSound, PTL

\* A store that is open has the tables of its build.
THEOREM SchemaComplete == MigrationSpec => []OpenHasSchema
<1>1. MigrationInv => OpenHasSchema
  BY DEF MigrationInv, OpenerSound, OpenHasSchema
<1> QED
  BY <1>1, MigrationSound, PTL

\* The triggers keep what they guard from everything but a compaction.
THEOREM HistoryStays == MigrationSpec => []HistoryKept
<1>1. MigrationInv => HistoryKept
  BY DEF MigrationInv
<1> QED
  BY <1>1, MigrationSound, PTL

-----------------------------------------------------------------------------
(* OpenStore implements Migration.                                         *)

\* What a store does by itself leaves the rows alone.
LEMMA WorkKeepsRows ==
  ASSUME NEW o \in Openers, B!Work(o)
  PROVE  UNCHANGED <<log, base>>
<1>1. CASE B!NextStream(o) \/ B!GetCheckpoint(o) \/ B!ReadBatch(o) \/ B!TakeState(o)
  BY <1>1 DEF B!NextStream, B!GetCheckpoint, B!ReadBatch, B!TakeState, B!fileVars
<1>2. CASE B!Apply(o) \/ B!Refuse(o) \/ B!CatchUp(o) \/ B!Return(o) \/ B!Done(o)
  BY <1>2 DEF B!Apply, B!Refuse, B!CatchUp, B!Begin, B!Return, B!Done, B!fileVars
<1>3. CASE B!Dispatch(o) \/ \E s \in Streams : B!Prepare(o, s)
  BY <1>3 DEF B!Dispatch, B!Prepare, B!fileVars
<1> QED
  BY <1>1, <1>2, <1>3 DEF B!Work

LEMMA StepImplements == [Next]_vars => [MigrationNext]_migrationVars
<1> SUFFICES ASSUME [Next]_vars PROVE [MigrationNext]_migrationVars
  OBVIOUS
<1> USE DEF migrationVars, schemaVars, openerVars, rowVars
<1>1. CASE UNCHANGED vars
  BY <1>1 DEF vars
<1>2. ASSUME NEW o \in Openers, Migrate(o) \/ MigrationFails(o) \/ Stop(o)
      PROVE  MigrationNext
  BY <1>2 DEF Migrate, MigrationFails, Stop, MigrationNext
<1>3. ASSUME NEW o \in Openers, Attach(o) \/ Use(o)
      PROVE  UNCHANGED migrationVars
  <2>1. CASE Attach(o)
    BY <2>1 DEF Attach, B!Start, B!Begin, B!fileVars, restOfFile
  <2>2. CASE Use(o)
    BY <2>2, WorkKeepsRows DEF Use, restOfFile
  <2> QED
    BY <1>3, <2>1, <2>2
<1>4. ASSUME NEW o \in Openers, NEW s \in Streams, Write(o, s)
      PROVE  MigrationNext
  BY <1>4 DEF Write, MigrationNext
<1>5. ASSUME NEW o \in Openers, NEW s \in Streams, NEW k \in log[s], CompactStream(o, s, k)
      PROVE  MigrationNext
  BY <1>5 DEF CompactStream, MigrationNext
<1>6. ASSUME NEW s \in Streams, NEW n \in log[s], TamperRow(s, n)
      PROVE  MigrationNext
  BY <1>6 DEF TamperRow, MigrationNext
<1> QED
  BY <1>1, <1>2, <1>3, <1>4, <1>5, <1>6 DEF Next

\* Whatever stores do with a file, they do what Migration allows.
THEOREM ImplementsMigration == Spec => MigrationSpec
<1>1. Init => MigrationInit
  BY DEF Init
<1> QED
  BY <1>1, StepImplements, PTL DEF Spec, MigrationSpec

\* The version, the tables of an open store and the guarded rows are sound
\* while stores catch up, write and compact.
THEOREM FileSound == Spec => []VersionCovered /\ []OpenHasSchema /\ []HistoryKept
BY ImplementsMigration, NoStepSkipped, SchemaComplete, HistoryStays

-----------------------------------------------------------------------------
(* Nobody uses the file before it is migrated.                             *)

\* Who has a store, is building one or writes has the file open, and has it
\* until it stops.
UsersOpen ==
  /\ pc = [o \in Openers |-> pc[o]] /\ writing = [o \in Openers |-> writing[o]]
  /\ phase = [o \in Openers |-> phase[o]]
  /\ ready \subseteq Openers /\ \A o \in ready : pc[o] # "down"
  /\ \A o \in Openers : pc[o] # "down" \/ writing[o] # <<>> => phase[o] = "open"

LEMMA UsersInit == Init => UsersOpen
BY DEF Init, B!BackfillStart, MigrationInit, UsersOpen

\* What a store does by itself it does while it is there.
LEMMA WorkOfUser ==
  ASSUME UsersOpen, NEW o \in Openers, B!Work(o)
  PROVE  /\ pc' = [pc EXCEPT ![o] = pc'[o]] /\ writing' = [writing EXCEPT ![o] = writing'[o]]
         /\ phase[o] = "open"
         /\ ready' \subseteq ready \cup {o}
         /\ o \in ready' => pc'[o] # "down"
<1> USE DEF UsersOpen, B!storeVars, B!callVars, B!Goto
<1>1. CASE B!NextStream(o) \/ B!GetCheckpoint(o) \/ B!ReadBatch(o)
  BY <1>1 DEF B!NextStream, B!GetCheckpoint, B!ReadBatch, B!LeaveStream
<1>2. CASE B!TakeState(o)
  BY <1>2 DEF B!TakeState, B!Fold, B!Bootstrap, B!GiveUpStream
<1>3. CASE B!Apply(o)
  BY <1>3 DEF B!Apply, B!GoOn
<1>4. CASE B!Refuse(o)
  BY <1>4 DEF B!Refuse, B!GiveUpStream
<1>5. CASE B!CatchUp(o) \/ B!Return(o)
  BY <1>5 DEF B!CatchUp, B!Begin, B!Return
<1>6. CASE B!Done(o)
  BY <1>6 DEF B!Done
<1>7. CASE B!Dispatch(o) \/ \E s \in Streams : B!Prepare(o, s)
  BY <1>7 DEF B!Dispatch, B!Prepare
<1> QED
  BY <1>1, <1>2, <1>3, <1>4, <1>5, <1>6, <1>7 DEF B!Work

\* A step of one process leaves what the others have.
LEMMA OneUser ==
  ASSUME UsersOpen, NEW o \in Openers,
         pc' = [pc EXCEPT ![o] = pc'[o]],
         writing' = [writing EXCEPT ![o] = writing'[o]],
         phase' = [phase EXCEPT ![o] = phase'[o]],
         ready' \subseteq ready \cup {o},
         o \in ready' => pc'[o] # "down",
         pc'[o] # "down" \/ writing'[o] # <<>> => phase'[o] = "open"
  PROVE  UsersOpen'
<1>1. ASSUME NEW q \in Openers, q # o
      PROVE  pc'[q] = pc[q] /\ writing'[q] = writing[q] /\ phase'[q] = phase[q]
  BY <1>1 DEF UsersOpen
<1>2. /\ pc' = [q \in Openers |-> pc'[q]] /\ writing' = [q \in Openers |-> writing'[q]]
      /\ phase' = [q \in Openers |-> phase'[q]]
  BY DEF UsersOpen
<1>3. ready' \subseteq Openers /\ \A q \in ready' : pc'[q] # "down"
  BY <1>1 DEF UsersOpen
<1>4. \A q \in Openers : pc'[q] # "down" \/ writing'[q] # <<>> => phase'[q] = "open"
  BY <1>1 DEF UsersOpen
<1> QED
  BY <1>2, <1>3, <1>4 DEF UsersOpen

LEMMA UsersStep == UsersOpen /\ [Next]_vars => UsersOpen'
<1> SUFFICES ASSUME UsersOpen, [Next]_vars PROVE UsersOpen'
  OBVIOUS
<1>1. CASE UNCHANGED vars
  BY <1>1 DEF vars, migrationVars, openerVars, restOfStore, storeVars, callVars, UsersOpen
<1>2. ASSUME NEW o \in Openers, Migrate(o) PROVE UsersOpen'
  BY <1>2 DEF Migrate, Open, Step, restOfStore, storeVars, callVars, UsersOpen
<1>3. ASSUME NEW o \in Openers, MigrationFails(o) PROVE UsersOpen'
  BY <1>3 DEF MigrationFails, Close, restOfStore, storeVars, callVars, UsersOpen
<1>4. ASSUME NEW o \in Openers, Attach(o) PROVE UsersOpen'
  <2>1. /\ pc' = [pc EXCEPT ![o] = "next"] /\ UNCHANGED <<writing, ready, phase>>
        /\ phase[o] = "open" /\ pc[o] = "down"
    BY <1>4 DEF Attach, Migrated, B!Start, B!Begin, B!Goto, B!storeVars, restOfFile, openerVars
  <2>2. pc'[o] = "next" /\ o \notin ready
    BY <2>1 DEF UsersOpen
  <2> QED
    BY <2>1, <2>2, OneUser DEF UsersOpen
<1>5. ASSUME NEW o \in Openers, Use(o) PROVE UsersOpen'
  <2>1. B!Work(o) /\ phase' = phase
    BY <1>5 DEF Use, restOfFile, openerVars
  <2>2. phase' = [phase EXCEPT ![o] = phase'[o]]
    BY <2>1 DEF UsersOpen
  <2> QED
    BY <2>1, <2>2, WorkOfUser, OneUser
<1>6. ASSUME NEW o \in Openers, Stop(o) PROVE UsersOpen'
  <2>1. /\ pc' = [pc EXCEPT ![o] = "down"] /\ writing' = [writing EXCEPT ![o] = <<>>]
        /\ ready' = ready \ {o} /\ phase' = [phase EXCEPT ![o] = "closed"]
    BY <1>6 DEF Stop, B!Stop, B!Goto, Close
  <2>2. pc'[o] = "down" /\ writing'[o] = <<>> /\ phase'[o] = "closed"
    BY <2>1 DEF UsersOpen
  <2> QED
    BY <2>1, <2>2, OneUser DEF UsersOpen
<1>7. ASSUME NEW o \in Openers, NEW s \in Streams, Write(o, s) PROVE UsersOpen'
  BY <1>7 DEF Write, B!Commit, B!callVars, Append, openerVars, UsersOpen
<1>8. ASSUME NEW o \in Openers, NEW s \in Streams, NEW k \in log[s], CompactStream(o, s, k)
      PROVE  UsersOpen'
  BY <1>8 DEF CompactStream, B!Compact, B!storeVars, Compact, openerVars, UsersOpen
<1>9. ASSUME NEW s \in Streams, NEW n \in log[s], TamperRow(s, n) PROVE UsersOpen'
  BY <1>9 DEF TamperRow, Tamper, storeVars, openerVars, UsersOpen
<1> QED
  BY <1>1, <1>2, <1>3, <1>4, <1>5, <1>6, <1>7, <1>8, <1>9 DEF Next

\* Backfills, writes, dispatches and calls only happen where the schema is
\* complete for the build they are of.
THEOREM UsersSound == Spec => []UsersHaveSchema
<1>1. Spec => []UsersOpen
  BY UsersInit, UsersStep, PTL DEF Spec
<1>2. UsersOpen /\ OpenHasSchema => UsersHaveSchema
  BY DEF UsersOpen, OpenHasSchema, UsersHaveSchema
<1> QED
  BY <1>1, <1>2, FileSound, PTL

-----------------------------------------------------------------------------
(* What stores do with their checkpoints.                                  *)

Streaming == {"checkpoint", "read", "state", "sink"}
Calling == Streaming \cup {"next", "returned"}
Awaits == Calling \cup {"down", "idle", "failed"}

Writes == {<<>>} \cup (Streams \X Nat \X {"prepared", "committed"})

IsReport(r) ==
  r = [applied |-> r.applied, skipped |-> r.skipped, failed |-> r.failed, failures |-> r.failures]

IsGhost(g) == g = [due |-> g.due, steady |-> g.steady, over |-> g.over, owed |-> g.owed]

StoreTypes ==
  /\ saved \in [Streams -> Nat] /\ taken \in [Streams -> SUBSET Nat]
  /\ memory \in [Openers -> [Streams -> Nat \cup {Unknown}]]
  /\ writing \in [Openers -> Writes]
  /\ pc \in [Openers -> Awaits]
  /\ left \in [Openers -> SUBSET Streams]
  /\ on \in [Openers -> Streams \cup {B!NoStream}]
  /\ head \in [Openers -> Nat] /\ cursor \in [Openers -> Nat]
  /\ todo \in [Openers -> SUBSET Nat]
  /\ report = [p \in Openers |-> report[p]] /\ \A p \in Openers : IsReport(report[p])
  /\ ghost = [p \in Openers |-> ghost[p]] /\ \A p \in Openers : IsGhost(ghost[p])

\* Coordinates begin at 1.
FirstIsOne == \A s \in Streams : 0 \notin log[s]

\* The sink has taken what is up to the coordinate n.
Driven(s, n) == \A m \in log[s] : m <= n => m \in taken[s]

\* A checkpoint may be c.
Covered(s, c) == c <= LastOf(log[s]) /\ Driven(s, c)

\* The batch in hand has every event after the cursor, up to its last.
BatchSound(p) ==
  /\ todo[p] # {}
  /\ \A m \in todo[p] :
       /\ cursor[p] < m /\ m <= LastOf(log[on[p]])
       /\ \A n \in log[on[p]] : n <= m => n <= cursor[p] \/ n \in todo[p]

\* What a call knows of the stream it is at.
StreamSound(p) ==
  /\ pc[p] \in Streaming => on[p] \in Streams
  /\ pc[p] \in {"read", "state", "sink"} => Covered(on[p], cursor[p])
  /\ pc[p] \in {"state", "sink"} => BatchSound(p)

\* A stream is to come, is the one the call is at, has failed, or has been
\* driven up to where it ended when the call began.
Accounted(p, s) ==
  \/ s \in left[p]
  \/ s \in report[p].failures
  \/ Driven(s, ghost[p].owed[s])
  \/ pc[p] \in Streaming /\ s = on[p] /\ ghost[p].owed[s] <= head[p]

CallSound(p) ==
  /\ pc[p] \in Calling =>
       \A s \in Streams : /\ ghost[p].owed[s] \in Nat /\ ghost[p].owed[s] <= LastOf(log[s])
                          /\ Accounted(p, s)
  /\ pc[p] = "returned" => left[p] = {}

StoreSound(p) ==
  /\ \A s \in Streams : memory[p][s] # Unknown => Covered(s, memory[p][s])
  /\ writing[p] # <<>> /\ writing[p][3] = "committed" =>
       writing[p][2] <= LastOf(log[writing[p][1]])
  /\ StreamSound(p)
  /\ CallSound(p)

\* The inductive invariant, beside that of Migration.
StoreInv ==
  /\ StoreTypes /\ FirstIsOne
  /\ \A s \in Streams : Covered(s, saved[s])
  /\ \A p \in Openers : StoreSound(p)

\* What a step does to a stream: it gets longer at its end only, and what the
\* sink has taken it has taken.
Grows(s) ==
  /\ LastOf(log[s]) <= LastOf(log'[s])
  /\ \A n \in log'[s] : n \in log[s] \/ LastOf(log[s]) < n
  /\ taken[s] \subseteq taken'[s]

\* Covered, after a step.
CoveredNext(s, c) ==
  c <= LastOf(log'[s]) /\ \A m \in log'[s] : m <= c => m \in taken'[s]

Stepping == MigrationInv /\ MigrationInv' /\ StoreInv /\ \A s \in Streams : Grows(s)

\* The instance's copies of the two operators that both modules have.
LEMMA BLastIs == ASSUME NEW S PROVE B!LastOf(S) = LastOf(S)
BY DEF B!LastOf, LastOf

LEMMA BFewIs == ASSUME NEW S, NEW k PROVE B!FirstFew(S, k) = Few(S, k)
BY DEF B!FirstFew, Few, B!Cardinality, Cardinality

LEMMA RowsAre ==
  ASSUME MigrationInv, FirstIsOne, NEW s \in Streams
  PROVE  /\ log[s] \in SUBSET Nat /\ 0 \notin log[s]
         /\ LastOf(log[s]) \in Nat /\ \A n \in log[s] : n <= LastOf(log[s])
         /\ log[s] # {} => LastOf(log[s]) \in log[s]
<1>1. /\ log[s] \in SUBSET Nat /\ 0 \notin log[s]
      /\ LastOf(log[s]) \in Nat /\ \A n \in log[s] : n <= LastOf(log[s])
  BY DEF MigrationInv, MigrationTypeOK, RowsSound, FirstIsOne
<1>2. log[s] # {} => LastOf(log[s]) \in log[s]
  BY <1>1, LastOfIs
<1> QED
  BY <1>1, <1>2

LEMMA LastIs ==
  ASSUME NEW S \in SUBSET Nat, NEW n \in S, \A m \in S : m <= n
  PROVE  LastOf(S) = n
BY GreatestIs DEF LastOf

\* Reports and ghosts are records, of which a step changes some fields.
LEMMA GhostUpdates ==
  ASSUME NEW g, IsGhost(g), NEW x
  PROVE  /\ IsGhost([g EXCEPT !.due = x]) /\ [g EXCEPT !.due = x].owed = g.owed
         /\ IsGhost([g EXCEPT !.over = x]) /\ [g EXCEPT !.over = x].owed = g.owed
         /\ IsGhost([g EXCEPT !.steady = x]) /\ [g EXCEPT !.steady = x].owed = g.owed
         /\ IsGhost([g EXCEPT !.owed = x]) /\ [g EXCEPT !.owed = x].owed = x
BY DEF IsGhost

LEMMA ReportUpdates ==
  ASSUME NEW r, IsReport(r), NEW x
  PROVE  /\ IsReport([r EXCEPT !.applied = x]) /\ [r EXCEPT !.applied = x].failures = r.failures
         /\ IsReport([r EXCEPT !.failed = x]) /\ [r EXCEPT !.failed = x].failures = r.failures
         /\ IsReport([r EXCEPT !.skipped = x]) /\ [r EXCEPT !.skipped = x].failures = r.failures
         /\ IsReport([r EXCEPT !.failures = x]) /\ [r EXCEPT !.failures = x].failures = x
BY DEF IsReport

-----------------------------------------------------------------------------
(* The file, and what stays true of it.                                    *)

LEMMA DrivenStays ==
  ASSUME Stepping, NEW s \in Streams, NEW n \in Nat, n <= LastOf(log[s]), Driven(s, n)
  PROVE  Driven(s, n)'
<1>1. Grows(s) /\ LastOf(log[s]) \in Nat
  BY RowsAre DEF Stepping, StoreInv
<1>2. ASSUME NEW m \in log'[s], m <= n PROVE m \in taken'[s]
  <2>1. m \in Nat
    BY DEF Stepping, MigrationInv, MigrationTypeOK
  <2>2. ~ (LastOf(log[s]) < m)
    BY <1>1, <1>2, <2>1
  <2>3. m \in log[s]
    BY <1>1, <2>2 DEF Grows
  <2> QED
    BY <1>1, <1>2, <2>3 DEF Grows, Driven
<1> QED
  BY <1>2 DEF Driven

LEMMA CoveredStays ==
  ASSUME Stepping, NEW s \in Streams, NEW c \in Nat, Covered(s, c)
  PROVE  Covered(s, c)'
<1>1. Grows(s) /\ LastOf(log[s]) \in Nat /\ LastOf(log[s])' \in Nat
  BY RowsAre DEF Stepping, StoreInv, MigrationInv, RowsSound
<1>2. c <= LastOf(log[s])'
  BY <1>1 DEF Covered, Grows
<1>3. Driven(s, c)'
  BY DrivenStays DEF Covered
<1> QED
  BY <1>2, <1>3 DEF Covered

LEMMA CoveredAtZero ==
  ASSUME MigrationInv, FirstIsOne, NEW s \in Streams
  PROVE  Covered(s, 0)
<1>1. ASSUME NEW m \in log[s] PROVE ~ (m <= 0)
  <2>1. m \in Nat /\ m # 0
    BY RowsAre
  <2> QED
    BY <2>1
<1>2. 0 <= LastOf(log[s])
  BY RowsAre
<1> QED
  BY <1>1, <1>2 DEF Covered, Driven

LEMMA FirstStays ==
  ASSUME Stepping
  PROVE  FirstIsOne'
<1> SUFFICES ASSUME NEW s \in Streams, 0 \in log'[s] PROVE FALSE
  BY DEF FirstIsOne
<1>1. LastOf(log[s]) \in Nat /\ 0 \notin log[s] /\ Grows(s)
  BY RowsAre DEF Stepping, StoreInv
<1>2. LastOf(log[s]) < 0
  BY <1>1 DEF Grows
<1> QED
  BY <1>1, <1>2

\* The parts that a step of a call leaves alone.
LEMMA MemoryStays ==
  ASSUME Stepping, NEW o \in Openers, NEW s \in Streams, memory'[o][s] = memory[o][s],
         memory[o][s] # Unknown
  PROVE  CoveredNext(s, memory'[o][s])
<1>1. memory[o][s] \in Nat /\ Covered(s, memory[o][s])
  BY DEF Stepping, StoreInv, StoreSound, StoreTypes
<1>2. \A c \in Nat : Covered(s, c) => CoveredNext(s, c)
  BY CoveredStays DEF Covered, CoveredNext, Driven
<1> QED
  BY <1>1, <1>2

LEMMA WritingStays ==
  ASSUME Stepping, NEW o \in Openers, writing'[o] = writing[o]
  PROVE  writing'[o] # <<>> /\ writing'[o][3] = "committed" =>
           writing'[o][2] <= LastOf(log'[writing'[o][1]])
<1> SUFFICES ASSUME writing[o] # <<>>, writing[o][3] = "committed"
             PROVE  writing[o][2] <= LastOf(log'[writing[o][1]])
  OBVIOUS
<1>1. /\ writing[o][2] \in Nat /\ writing[o][1] \in Streams
      /\ writing[o][2] <= LastOf(log[writing[o][1]])
  BY DEF Stepping, StoreInv, StoreSound, StoreTypes, Writes
<1>2. /\ Grows(writing[o][1]) /\ LastOf(log[writing[o][1]]) \in Nat
      /\ LastOf(log'[writing[o][1]]) \in Nat
  BY <1>1, RowsAre DEF Stepping, StoreInv, MigrationInv, RowsSound
<1> QED
  BY <1>1, <1>2 DEF Grows

\* What a call knows stays true while others go on.
LEMMA CallKept ==
  ASSUME Stepping, NEW p \in Openers,
         pc'[p] = pc[p], left'[p] = left[p], on'[p] = on[p], head'[p] = head[p],
         cursor'[p] = cursor[p], todo'[p] = todo[p],
         report'[p].failures = report[p].failures, ghost'[p].owed = ghost[p].owed
  PROVE  StreamSound(p)' /\ CallSound(p)'
<1>1. StoreSound(p) /\ StoreTypes
  BY DEF Stepping, StoreInv
<1>2. StreamSound(p)'
  <2>1. ASSUME pc[p] \in Streaming PROVE on[p] \in Streams
    BY <1>1, <2>1 DEF StoreSound, StreamSound
  <2>2. ASSUME pc[p] \in {"read", "state", "sink"} PROVE Covered(on[p], cursor[p])'
    <3>1. on[p] \in Streams /\ Covered(on[p], cursor[p]) /\ cursor[p] \in Nat
      BY <1>1, <2>2 DEF StoreSound, StreamSound, StoreTypes, Streaming
    <3>2. \A s \in Streams, c \in Nat : Covered(s, c) => Covered(s, c)'
      BY CoveredStays
    <3> QED
      BY <3>1, <3>2 DEF Covered, Driven
  <2>3. ASSUME pc[p] \in {"state", "sink"} PROVE BatchSound(p)'
    <3>1. on[p] \in Streams /\ BatchSound(p) /\ todo[p] \in SUBSET Nat
      BY <1>1, <2>3 DEF StoreSound, StreamSound, StoreTypes, Streaming
    <3>2. /\ Grows(on[p]) /\ LastOf(log[on[p]]) \in Nat /\ LastOf(log'[on[p]]) \in Nat
          /\ log'[on[p]] \in SUBSET Nat
      BY <3>1, RowsAre DEF Stepping, StoreInv, MigrationInv, RowsSound, MigrationTypeOK
    <3>3. ASSUME NEW m \in todo[p]
          PROVE  /\ m <= LastOf(log'[on[p]])
                 /\ \A n \in log'[on[p]] : n <= m => n \in log[on[p]]
      <4>1. m \in Nat /\ m <= LastOf(log[on[p]])
        BY <3>1 DEF BatchSound
      <4> QED
        BY <3>2, <4>1 DEF Grows
    <3> QED
      BY <3>1, <3>3 DEF BatchSound
  <2> QED
    BY <2>1, <2>2, <2>3 DEF StreamSound
<1>3. CallSound(p)'
  <2>1. ASSUME pc[p] \in Calling, NEW s \in Streams
        PROVE  /\ ghost'[p].owed[s] \in Nat /\ ghost'[p].owed[s] <= LastOf(log'[s])
               /\ Accounted(p, s)'
    <3>1. /\ ghost[p].owed[s] \in Nat /\ ghost[p].owed[s] <= LastOf(log[s])
          /\ Accounted(p, s)
      BY <1>1, <2>1 DEF StoreSound, CallSound
    <3>2. Grows(s) /\ LastOf(log[s]) \in Nat /\ LastOf(log'[s]) \in Nat
      BY RowsAre DEF Stepping, StoreInv, MigrationInv, RowsSound
    <3>3. \A n \in Nat : n <= LastOf(log[s]) /\ Driven(s, n) => Driven(s, n)'
      BY DrivenStays
    <3>4. Driven(s, ghost[p].owed[s]) => Driven(s, ghost[p].owed[s])'
      BY <3>1, <3>3 DEF Driven
    <3> QED
      BY <3>1, <3>2, <3>4 DEF Grows, Accounted
  <2>2. pc[p] = "returned" => left[p] = {}
    BY <1>1 DEF StoreSound, CallSound
  <2> QED
    BY <2>1, <2>2 DEF CallSound
<1> QED
  BY <1>2, <1>3

LEMMA MemoryKept ==
  ASSUME Stepping, NEW p \in Openers, memory'[p] = memory[p]
  PROVE  \A s \in Streams : (memory[p][s] # Unknown => Covered(s, memory[p][s]))'
<1>1. ASSUME NEW s \in Streams, memory'[p][s] # Unknown PROVE CoveredNext(s, memory'[p][s])
  BY <1>1, MemoryStays
<1> QED
  BY <1>1 DEF CoveredNext, Covered, Driven

\* What a store has stays sound while others go on.
LEMMA BesideStores ==
  ASSUME Stepping, NEW p \in Openers,
         memory'[p] = memory[p], writing'[p] = writing[p], pc'[p] = pc[p], left'[p] = left[p],
         on'[p] = on[p], head'[p] = head[p], cursor'[p] = cursor[p], todo'[p] = todo[p],
         report'[p].failures = report[p].failures, ghost'[p].owed = ghost[p].owed
  PROVE  StoreSound(p)'
<1>1. StreamSound(p)' /\ CallSound(p)'
  BY CallKept
<1> QED
  BY <1>1, MemoryKept, WritingStays DEF StoreSound

\* A step of one store: it has to keep its own.
LEMMA OneStore ==
  ASSUME Stepping, NEW o \in Openers, StoreTypes', StoreSound(o)',
         \A s \in Streams : Covered(s, saved[s])',
         \A p \in Openers \ {o} :
           /\ memory'[p] = memory[p] /\ writing'[p] = writing[p] /\ pc'[p] = pc[p]
           /\ left'[p] = left[p] /\ on'[p] = on[p] /\ head'[p] = head[p]
           /\ cursor'[p] = cursor[p] /\ todo'[p] = todo[p]
           /\ report'[p].failures = report[p].failures /\ ghost'[p].owed = ghost[p].owed
  PROVE  StoreInv'
<1>1. FirstIsOne'
  BY FirstStays
<1>2. ASSUME NEW p \in Openers \ {o} PROVE StoreSound(p)'
  BY BesideStores
<1> QED
  BY <1>1, <1>2 DEF StoreInv

LEMMA SavedStays ==
  ASSUME Stepping, saved' = saved
  PROVE  \A s \in Streams : Covered(s, saved[s])'
<1> SUFFICES ASSUME NEW s \in Streams PROVE Covered(s, saved[s])'
  OBVIOUS
<1>1. saved[s] \in Nat /\ Covered(s, saved[s])
  BY DEF Stepping, StoreInv, StoreTypes
<1>2. \A c \in Nat : Covered(s, c) => Covered(s, c)'
  BY CoveredStays
<1> QED
  BY <1>1, <1>2 DEF Covered, Driven

-----------------------------------------------------------------------------
(* What a store does by itself.                                            *)

\* The four parts of what a store has.
LEMMA OwnSound ==
  ASSUME Stepping, NEW o \in Openers, writing' = writing,
         \A s \in Streams : memory'[o][s] # Unknown =>
           CoveredNext(s, memory'[o][s]) \/ memory'[o][s] = memory[o][s],
         StreamSound(o)', CallSound(o)'
  PROVE  StoreSound(o)'
<1>1. ASSUME NEW s \in Streams, memory'[o][s] # Unknown PROVE CoveredNext(s, memory'[o][s])
  BY <1>1, MemoryStays
<1>2. \A s \in Streams : (memory[o][s] # Unknown => Covered(s, memory[o][s]))'
  BY <1>1 DEF CoveredNext, Covered, Driven
<1>3. writing'[o] = writing[o]
  OBVIOUS
<1>4. writing'[o] # <<>> /\ writing'[o][3] = "committed" =>
        writing'[o][2] <= LastOf(log'[writing'[o][1]])
  BY <1>3, WritingStays
<1> QED
  BY <1>2, <1>4 DEF StoreSound

\* Each stream of a call, after a step that drops none of them.
LEMMA CallGoesOn ==
  ASSUME Stepping, NEW o \in Openers, pc[o] \in Calling, ghost'[o].owed = ghost[o].owed,
         \A s \in Streams : Accounted(o, s) =>
           \/ s \in left'[o]
           \/ s \in report'[o].failures
           \/ Driven(s, ghost[o].owed[s]) \/ Driven(s, ghost[o].owed[s])'
           \/ pc'[o] \in Streaming /\ s = on'[o] /\ ghost[o].owed[s] <= head'[o],
         pc'[o] = "returned" => left'[o] = {}
  PROVE  CallSound(o)'
<1>1. ASSUME NEW s \in Streams
      PROVE  /\ ghost'[o].owed[s] \in Nat /\ ghost'[o].owed[s] <= LastOf(log'[s])
             /\ Accounted(o, s)'
  <2>1. /\ ghost[o].owed[s] \in Nat /\ ghost[o].owed[s] <= LastOf(log[s])
        /\ Accounted(o, s)
    BY DEF Stepping, StoreInv, StoreSound, CallSound
  <2>2. Grows(s) /\ LastOf(log[s]) \in Nat /\ LastOf(log'[s]) \in Nat
    BY RowsAre DEF Stepping, StoreInv, MigrationInv, RowsSound
  <2>3. \A n \in Nat : n <= LastOf(log[s]) /\ Driven(s, n) => Driven(s, n)'
    BY DrivenStays
  <2>4. Driven(s, ghost[o].owed[s]) => Driven(s, ghost[o].owed[s])'
    BY <2>1, <2>3 DEF Driven
  <2>5. \/ s \in left'[o]
        \/ s \in report'[o].failures
        \/ Driven(s, ghost[o].owed[s])'
        \/ pc'[o] \in Streaming /\ s = on'[o] /\ ghost[o].owed[s] <= head'[o]
    BY <2>1, <2>4 DEF Driven
  <2> QED
    BY <2>1, <2>2, <2>5 DEF Grows, Accounted, Driven
<1> QED
  BY <1>1 DEF CallSound

\* checkpoint_get gives a checkpoint.
LEMMA CheckpointIs ==
  ASSUME Stepping, NEW o \in Openers, NEW s \in Streams, NEW c \in {0, B!Checkpoint(o, s)}
  PROVE  c \in Nat /\ Covered(s, c) /\ CoveredNext(s, c)
<1>1. /\ saved[s] \in Nat /\ Covered(s, saved[s])
      /\ memory[o][s] # Unknown => memory[o][s] \in Nat /\ Covered(s, memory[o][s])
  BY DEF Stepping, StoreInv, StoreSound, StoreTypes
<1>2. Covered(s, 0)
  BY CoveredAtZero DEF Stepping, StoreInv
<1>3. c \in Nat /\ Covered(s, c)
  BY <1>1, <1>2 DEF B!Checkpoint
<1> QED
  BY <1>3, CoveredStays DEF CoveredNext, Covered, Driven

LEMMA NextStreamKeeps ==
  ASSUME Stepping, NEW o \in Openers, B!NextStream(o)
  PROVE  StoreInv'
<1>1. PICK s \in left[o] :
        /\ left' = [left EXCEPT ![o] = left[o] \ {s}]
        /\ on' = [on EXCEPT ![o] = s]
        /\ head' = [head EXCEPT ![o] = LastOf(log[s])]
        /\ memory' = memory \/ memory' = [memory EXCEPT ![o][s] = Unknown]
        /\ saved' = saved \/ saved' = [saved EXCEPT ![s] = 0]
  BY BLastIs DEF B!NextStream
<1>2. /\ pc' = [pc EXCEPT ![o] = "checkpoint"] /\ pc[o] = "next"
      /\ UNCHANGED <<log, base, bad, taken, ready, writing, reset, cursor, todo, running, report, ghost>>
  BY DEF B!NextStream, B!Goto
<1>3. StoreTypes /\ StoreSound(o) /\ s \in Streams
  BY DEF Stepping, StoreInv, StoreTypes
<1>4. LastOf(log[s]) \in Nat
  BY <1>3, RowsAre DEF Stepping, StoreInv
<1>5. StoreTypes'
  <2>1. memory' \in [Openers -> [Streams -> Nat \cup {Unknown}]]
    <3>1. [memory[o] EXCEPT ![s] = Unknown] \in [Streams -> Nat \cup {Unknown}]
      BY <1>3 DEF StoreTypes
    <3>2. memory' \in {memory, [memory EXCEPT ![o] = [memory[o] EXCEPT ![s] = Unknown]]}
      BY <1>1
    <3> QED
      BY <1>3, <3>1, <3>2 DEF StoreTypes
  <2>2. saved' \in [Streams -> Nat]
    <3>1. CASE saved' = saved
      BY <1>3, <3>1 DEF StoreTypes
    <3>2. CASE saved' = [saved EXCEPT ![s] = 0]
      BY <1>3, <3>2 DEF StoreTypes
    <3> QED
      BY <1>1, <3>1, <3>2
  <2>3. pc' \in [Openers -> Awaits]
    BY <1>2, <1>3 DEF StoreTypes, IsReport, IsGhost, Awaits, Calling, Streaming
  <2>4. left' \in [Openers -> SUBSET Streams]
    BY <1>1, <1>3 DEF StoreTypes
  <2>5. on' \in [Openers -> Streams \cup {B!NoStream}] /\ head' \in [Openers -> Nat]
    BY <1>1, <1>3, <1>4 DEF StoreTypes
  <2> QED
    BY <1>2, <1>3, <2>1, <2>2, <2>3, <2>4, <2>5 DEF StoreTypes, IsReport, IsGhost
<1>6. \A t \in Streams : Covered(t, saved[t])'
  <2>1. ASSUME NEW t \in Streams PROVE CoveredNext(t, saved'[t])
    <3>1. Covered(t, 0) /\ saved[t] \in Nat /\ Covered(t, saved[t])
      BY <1>3, CoveredAtZero DEF Stepping, StoreInv, StoreTypes
    <3>2. \A c \in Nat : Covered(t, c) => CoveredNext(t, c)
      BY CoveredStays DEF CoveredNext, Covered, Driven
    <3>3. saved'[t] = saved[t] \/ saved'[t] = 0
      BY <1>1, <1>3 DEF StoreTypes
    <3> QED
      BY <3>1, <3>2, <3>3
  <2> QED
    BY <2>1 DEF CoveredNext, Covered, Driven
<1>7. StoreSound(o)'
  <2>1. /\ pc'[o] = "checkpoint" /\ on'[o] = s /\ head'[o] = LastOf(log[s])
        /\ left'[o] = left[o] \ {s} /\ writing'[o] = writing[o]
    BY <1>1, <1>2, <1>3 DEF StoreTypes
  <2>2. \A t \in Streams : memory'[o][t] # Unknown => memory'[o][t] = memory[o][t]
    BY <1>1, <1>3 DEF StoreTypes
  <2>3. StreamSound(o)'
    BY <1>3, <2>1 DEF StreamSound, Streaming
  <2>4. CallSound(o)'
    <3>1. ghost[o].owed[s] <= LastOf(log[s])
      BY <1>2, <1>3 DEF StoreSound, CallSound, Calling
    <3> QED
      BY <1>2, <2>1, <3>1, CallGoesOn DEF Accounted, Calling, Streaming
  <2> QED
    BY <1>2, <2>2, <2>3, <2>4, OwnSound
<1>8. \A p \in Openers \ {o} :
        /\ memory'[p] = memory[p] /\ pc'[p] = pc[p] /\ left'[p] = left[p] /\ on'[p] = on[p]
        /\ head'[p] = head[p]
  BY <1>1, <1>2, <1>3 DEF StoreTypes
<1> QED
  BY <1>2, <1>5, <1>6, <1>7, <1>8, OneStore

\* Nothing of a stream is left when the call leaves it.
LEMMA LeaveTypes ==
  ASSUME StoreTypes, NEW o \in Openers, B!LeaveStream(o)
  PROVE  /\ on' \in [Openers -> Streams \cup {B!NoStream}]
         /\ head' \in [Openers -> Nat] /\ cursor' \in [Openers -> Nat]
         /\ todo' \in [Openers -> SUBSET Nat]
         /\ \A p \in Openers \ {o} : /\ on'[p] = on[p] /\ head'[p] = head[p]
                                     /\ cursor'[p] = cursor[p] /\ todo'[p] = todo[p]
BY DEF StoreTypes, B!LeaveStream

LEMMA GetCheckpointKeeps ==
  ASSUME Stepping, NEW o \in Openers, B!GetCheckpoint(o)
  PROVE  StoreInv'
<1> DEFINE s == on[o]
<1>1. PICK c \in {0, B!Checkpoint(o, s)} :
        /\ memory' = [memory EXCEPT ![o][s] = c]
        /\ \/ /\ c < head[o]
              /\ cursor' = [cursor EXCEPT ![o] = c]
              /\ \E due : ghost' = [ghost EXCEPT ![o].due = due]
              /\ pc' = [pc EXCEPT ![o] = "read"]
              /\ UNCHANGED <<on, head, todo, running>>
           \/ /\ c >= head[o]
              /\ pc' = [pc EXCEPT ![o] = "next"]
              /\ B!LeaveStream(o)
              /\ UNCHANGED ghost
  BY DEF B!GetCheckpoint, B!Goto
<1>2. pc[o] = "checkpoint" /\ UNCHANGED <<log, saved, taken, ready, writing, reset, left, report>>
  BY DEF B!GetCheckpoint, B!fileVars
<1>3. StoreTypes /\ StoreSound(o) /\ s \in Streams
  BY <1>2 DEF Stepping, StoreInv, StoreSound, StreamSound, Streaming
<1>4. c \in Nat /\ Covered(s, c) /\ CoveredNext(s, c)
  BY <1>3, CheckpointIs
<1>5. memory' \in [Openers -> [Streams -> Nat \cup {Unknown}]] /\ memory'[o] = [memory[o] EXCEPT ![s] = c]
  BY <1>1, <1>3, <1>4 DEF StoreTypes
<1>6. \A t \in Streams : memory'[o][t] # Unknown =>
        CoveredNext(t, memory'[o][t]) \/ memory'[o][t] = memory[o][t]
  <2>1. \A t \in Streams : memory'[o][t] = IF t = s THEN c ELSE memory[o][t]
    BY <1>3, <1>5 DEF StoreTypes
  <2>2. CoveredNext(s, c)
    BY <1>4
  <2> QED
    BY <2>1, <2>2
<1>7. CASE c < head[o]
  <2>0. ~ (c >= head[o])
    BY <1>3, <1>4, <1>7 DEF StoreTypes
  <2>1. /\ cursor' = [cursor EXCEPT ![o] = c] /\ pc' = [pc EXCEPT ![o] = "read"]
        /\ UNCHANGED <<on, head, todo>>
    BY <1>1, <2>0
  <2>2. PICK due : ghost' = [ghost EXCEPT ![o].due = due]
    BY <1>1, <2>0
  <2>3. /\ ghost' = [p \in Openers |-> ghost'[p]]
        /\ \A p \in Openers : IsGhost(ghost'[p]) /\ ghost'[p].owed = ghost[p].owed
    <3>1. IsGhost([ghost[o] EXCEPT !.due = due]) /\ [ghost[o] EXCEPT !.due = due].owed = ghost[o].owed
      BY <1>3, GhostUpdates DEF StoreTypes
    <3>2. ghost' = [ghost EXCEPT ![o] = [ghost[o] EXCEPT !.due = due]]
      BY <2>2
    <3> QED
      BY <1>3, <3>1, <3>2 DEF StoreTypes
  <2>4. StoreTypes'
    BY <1>2, <1>3, <1>4, <1>5, <2>1, <2>3 DEF StoreTypes, IsReport, IsGhost, Awaits, Calling, Streaming
  <2>5. /\ pc'[o] = "read" /\ cursor'[o] = c
        /\ \A p \in Openers \ {o} : pc'[p] = pc[p] /\ cursor'[p] = cursor[p] /\ memory'[p] = memory[p]
    BY <1>1, <1>3, <2>1 DEF StoreTypes
  <2>6. StreamSound(o)'
    BY <1>3, <1>4, <2>1, <2>5 DEF StreamSound, Streaming, Covered, Driven, CoveredNext
  <2>7. CallSound(o)'
    BY <1>2, <2>1, <2>3, <2>5, CallGoesOn DEF Accounted, Calling, Streaming
  <2>8. StoreSound(o)'
    BY <1>2, <1>6, <2>6, <2>7, OwnSound
  <2> QED
    BY <1>2, <2>1, <2>3, <2>4, <2>5, <2>8, OneStore, SavedStays
<1>8. CASE ~ (c < head[o])
  <2>1. /\ pc' = [pc EXCEPT ![o] = "next"] /\ ghost' = ghost /\ B!LeaveStream(o)
    BY <1>1, <1>8
  <2>2. StoreTypes'
    BY <1>2, <1>3, <1>5, <2>1, LeaveTypes DEF StoreTypes, IsReport, IsGhost, Awaits, Calling, Streaming
  <2>3. pc'[o] = "next" /\ \A p \in Openers \ {o} : pc'[p] = pc[p] /\ memory'[p] = memory[p]
    BY <1>1, <1>3, <2>1 DEF StoreTypes
  <2>4. StreamSound(o)'
    BY <2>3 DEF StreamSound, Streaming
  <2>5. ASSUME ghost[o].owed[s] <= head[o] PROVE Driven(s, ghost[o].owed[s])
    <3>1. ghost[o].owed[s] \in Nat /\ head[o] \in Nat
      BY <1>2, <1>3 DEF StoreSound, CallSound, Calling, Streaming, StoreTypes
    <3>2. ghost[o].owed[s] <= c
      BY <1>4, <1>8, <2>5, <3>1
    <3>3. log[s] \in SUBSET Nat
      BY <1>3 DEF Stepping, MigrationInv, MigrationTypeOK
    <3>4. ASSUME NEW m \in log[s], m <= ghost[o].owed[s] PROVE m <= c
      <4>1. m \in Nat
        BY <3>3
      <4> QED
        BY <1>4, <3>1, <3>2, <3>4, <4>1
    <3> QED
      BY <1>4, <3>4 DEF Covered, Driven
  <2>6. CallSound(o)'
    BY <1>2, <2>1, <2>3, <2>5, CallGoesOn DEF Accounted, Calling, Streaming
  <2>7. StoreSound(o)'
    BY <1>2, <1>6, <2>4, <2>6, OwnSound
  <2> QED
    BY <1>2, <2>1, <2>2, <2>3, <2>7, LeaveTypes, <1>3, OneStore, SavedStays
<1> QED
  BY <1>7, <1>8

LEMMA ReadBatchKeeps ==
  ASSUME Stepping, NEW o \in Openers, B!ReadBatch(o)
  PROVE  StoreInv'
<1> DEFINE s == on[o]
           after == {n \in log[s] : n > cursor[o]}
           batch == Few(after, Batch)
<1>1. /\ pc[o] = "read"
      /\ UNCHANGED <<log, saved, taken, memory, ready, writing, reset, left, report, ghost>>
      /\ IF batch = {}
         THEN pc' = [pc EXCEPT ![o] = "next"] /\ B!LeaveStream(o)
         ELSE /\ todo' = [todo EXCEPT ![o] = batch]
              /\ pc' = [pc EXCEPT ![o] = "state"]
              /\ UNCHANGED <<on, head, cursor, running>>
  BY BFewIs DEF B!ReadBatch, B!Goto, B!FromNext, B!fileVars, B!storeVars
<1>2. StoreTypes /\ StoreSound(o) /\ s \in Streams /\ Covered(s, cursor[o])
  BY <1>1 DEF Stepping, StoreInv, StoreSound, StreamSound, Streaming
<1>3. /\ log[s] \in SUBSET Nat /\ cursor[o] \in Nat /\ LastOf(log[s]) \in Nat
      /\ \A n \in log[s] : n <= LastOf(log[s])
  BY <1>2, RowsAre DEF Stepping, StoreInv, StoreTypes
<1>4. Batch \in Nat \ {0}
  BY OpenStoreAssumption DEF B!BackfillConstants
<1>5. after \in SUBSET Nat /\ batch \subseteq after
  BY <1>3 DEF Few
<1>6. CASE batch = {}
  <2>1. /\ pc' = [pc EXCEPT ![o] = "next"] /\ B!LeaveStream(o)
    BY <1>1, <1>6
  <2>2. after = {}
    <3>1. SUFFICES ASSUME after # {} PROVE FALSE
      OBVIOUS
    <3>2. PICK l \in after : \A m \in after : l <= m
      <4> HIDE DEF after
      <4> QED
        BY <1>5, <3>1, LeastExists
    <3>3. l \in batch
      <4> HIDE DEF after
      <4> QED
        BY <1>4, <1>5, <3>2, FewOne
    <3> QED
      BY <1>6, <3>3
  <2>3. \A n : Driven(s, n)
    <3>1. ASSUME NEW m \in log[s] PROVE m \in taken[s]
      <4>1. m \in Nat /\ ~ (m > cursor[o])
        BY <1>3, <2>2
      <4>2. m <= cursor[o]
        BY <1>3, <4>1
      <4> QED
        BY <1>2, <4>2 DEF Covered, Driven
    <3> QED
      BY <3>1 DEF Driven
  <2>4. StoreTypes'
    BY <1>1, <1>2, <2>1, LeaveTypes DEF StoreTypes, IsReport, IsGhost, Awaits, Calling, Streaming
  <2>5. pc'[o] = "next" /\ \A p \in Openers \ {o} : pc'[p] = pc[p]
    BY <1>2, <2>1 DEF StoreTypes
  <2>6. StreamSound(o)'
    BY <2>5 DEF StreamSound, Streaming
  <2>7. CallSound(o)'
    BY <1>1, <2>3, <2>5, CallGoesOn DEF Accounted, Calling, Streaming
  <2>8. StoreSound(o)'
    BY <1>1, <2>6, <2>7, OwnSound
  <2> QED
    BY <1>1, <1>2, <2>1, <2>4, <2>5, <2>8, LeaveTypes, OneStore, SavedStays
<1>7. CASE batch # {}
  <2>1. /\ todo' = [todo EXCEPT ![o] = batch] /\ pc' = [pc EXCEPT ![o] = "state"]
        /\ UNCHANGED <<on, head, cursor>>
    BY <1>1, <1>7
  <2>2. batch \in SUBSET Nat
    BY <1>5
  <2>3. ASSUME NEW m \in batch
        PROVE  /\ cursor[o] < m /\ m <= LastOf(log[s])
               /\ \A n \in log[s] : n <= m => n <= cursor[o] \/ n \in batch
    <3>1. m \in after
      BY <1>5
    <3>2. ASSUME NEW n \in log[s], n <= m, ~ (n <= cursor[o]) PROVE n \in batch
      <4>1. n \in after
        BY <1>3, <3>2
      <4> HIDE DEF after
      <4> QED
        BY <1>4, <1>5, <3>2, <4>1, FewDown
    <3> QED
      BY <1>3, <3>1, <3>2
  <2> HIDE DEF batch
  <2>4. StoreTypes'
    BY <1>1, <1>2, <2>1, <2>2 DEF StoreTypes, IsReport, IsGhost, Awaits, Calling, Streaming
  <2>5. /\ pc'[o] = "state" /\ todo'[o] = batch
        /\ \A p \in Openers \ {o} : pc'[p] = pc[p] /\ todo'[p] = todo[p]
    BY <1>2, <2>1 DEF StoreTypes
  <2>6. StreamSound(o)'
    BY <1>1, <1>2, <1>7, <2>1, <2>3, <2>5
    DEF StreamSound, Streaming, BatchSound, Covered, Driven
  <2>7. CallSound(o)'
    BY <1>1, <2>1, <2>5, CallGoesOn DEF Accounted, Calling, Streaming
  <2>8. StoreSound(o)'
    BY <1>1, <2>6, <2>7, OwnSound
  <2> QED
    BY <1>1, <2>1, <2>4, <2>5, <2>8, OneStore, SavedStays
<1> QED
  BY <1>6, <1>7

\* A stream that is given up is named.
LEMMA GiveUpReport ==
  ASSUME StoreTypes, NEW o \in Openers, NEW n, B!GiveUpStream(o, n)
  PROVE  /\ report' = [p \in Openers |-> report'[p]]
         /\ \A p \in Openers : IsReport(report'[p])
         /\ \A p \in Openers \ {o} : report'[p] = report[p]
         /\ report'[o].failures = report[o].failures \cup {on[o]}
<1> DEFINE a == [report[o] EXCEPT !.failed = report[o].failed + 1]
           b == [a EXCEPT !.failures = report[o].failures \cup {on[o]}]
           c == [b EXCEPT !.skipped = (report[o].skipped + B!Rest(o, n)) % Wrap]
<1>1. IsReport(report[o]) /\ report = [p \in Openers |-> report[p]]
  BY DEF StoreTypes
<1>2. report' = [report EXCEPT ![o] = c]
  <2>1. report' = [report EXCEPT ![o].failed = report[o].failed + 1,
                                 ![o].failures = report[o].failures \cup {on[o]},
                                 ![o].skipped = (report[o].skipped + B!Rest(o, n)) % Wrap]
    BY DEF B!GiveUpStream
  <2> QED
    BY <1>1, <2>1
<1>3. IsReport(a)
  BY <1>1, ReportUpdates
<1>4. IsReport(b) /\ b.failures = report[o].failures \cup {on[o]}
  <2> HIDE DEF a
  <2> QED
    BY <1>3, ReportUpdates
<1>5. IsReport(c) /\ c.failures = report[o].failures \cup {on[o]}
  <2> HIDE DEF b
  <2> QED
    BY <1>4, ReportUpdates
<1> HIDE DEF c
<1>6. \A p \in Openers : report'[p] = IF p = o THEN c ELSE report[p]
  BY <1>1, <1>2
<1> QED
  BY <1>1, <1>2, <1>5, <1>6 DEF StoreTypes

\* A stream that is given up is named.
LEMMA GiveUpKeeps ==
  ASSUME Stepping, NEW o \in Openers, NEW n, B!GiveUpStream(o, n),
         pc[o] \in Streaming, UNCHANGED <<saved, writing, memory>>,
         taken' \in [Streams -> SUBSET Nat]
  PROVE  StoreInv'
<1> DEFINE g == [ghost[o] EXCEPT !.over = ghost[o].over \/ n > head[o]]
<1>1. /\ ghost' = [ghost EXCEPT ![o] = g]
      /\ pc' = [pc EXCEPT ![o] = "next"] /\ B!LeaveStream(o) /\ left' = left
  BY DEF B!GiveUpStream, B!Goto
<1>2. StoreTypes /\ StoreSound(o) /\ IsGhost(ghost[o])
  BY DEF Stepping, StoreInv, StoreTypes
<1>3. /\ report' = [p \in Openers |-> report'[p]]
      /\ \A p \in Openers : IsReport(report'[p])
      /\ \A p \in Openers \ {o} : report'[p] = report[p]
      /\ report'[o].failures = report[o].failures \cup {on[o]}
  BY <1>2, GiveUpReport
<1>4. IsGhost(g) /\ g.owed = ghost[o].owed
  BY <1>2, GhostUpdates
<1> HIDE DEF g
<1>5. /\ ghost' = [p \in Openers |-> ghost'[p]]
      /\ ghost'[o] = g /\ pc'[o] = "next"
      /\ \A p \in Openers \ {o} : ghost'[p] = ghost[p] /\ pc'[p] = pc[p]
      /\ pc' \in [Openers -> Awaits]
  BY <1>1, <1>2 DEF StoreTypes, Awaits, Calling
<1>6. \A p \in Openers : IsReport(report'[p]) /\ IsGhost(ghost'[p])
  BY <1>2, <1>3, <1>4, <1>5 DEF StoreTypes
<1>7. StoreTypes'
  BY <1>1, <1>2, <1>3, <1>5, <1>6, LeaveTypes DEF StoreTypes, IsReport, IsGhost
<1>8. StreamSound(o)'
  BY <1>5 DEF StreamSound, Streaming
<1>9. CallSound(o)'
  BY <1>1, <1>3, <1>4, <1>5, CallGoesOn DEF Accounted, Calling, Streaming
<1>10. StoreSound(o)'
  BY <1>8, <1>9, OwnSound
<1> QED
  BY <1>1, <1>2, <1>3, <1>5, <1>7, <1>10, LeaveTypes, OneStore, SavedStays

LEMMA TakeStateKeeps ==
  ASSUME Stepping, NEW o \in Openers, B!TakeState(o)
  PROVE  StoreInv'
<1> DEFINE n == B!Least(todo[o])
<1>1. /\ pc[o] = "state" /\ UNCHANGED <<log, saved, taken, memory, writing>>
      /\ B!Fold(o, n) \/ B!Bootstrap(o, n)
  BY DEF B!TakeState, B!fileVars, B!storeVars
<1>2. StoreTypes /\ StoreSound(o)
  BY DEF Stepping, StoreInv
<1>3. CASE B!Fold(o, n) /\ n \in bad[on[o]]
  <2>1. B!GiveUpStream(o, n)
    BY <1>3 DEF B!Fold
  <2> QED
    BY <1>1, <1>2, <2>1, GiveUpKeeps DEF Streaming, StoreTypes
<1>4. ASSUME pc' = [pc EXCEPT ![o] = "sink"], UNCHANGED <<on, head, cursor, todo, left, report, ghost>>
      PROVE  StoreInv'
  <2>1. StoreTypes'
    BY <1>1, <1>2, <1>4 DEF StoreTypes, IsReport, IsGhost, Awaits, Calling, Streaming
  <2>2. pc'[o] = "sink" /\ \A p \in Openers \ {o} : pc'[p] = pc[p]
    BY <1>2, <1>4 DEF StoreTypes
  <2>3. StreamSound(o)'
    BY <1>1, <1>2, <1>4, <2>2
    DEF StoreSound, StreamSound, Streaming, BatchSound, Covered, Driven
  <2>4. CallSound(o)'
    BY <1>1, <1>4, <2>2, CallGoesOn DEF Accounted, Calling, Streaming
  <2>5. StoreSound(o)'
    BY <1>1, <2>3, <2>4, OwnSound
  <2> QED
    BY <1>1, <1>4, <2>1, <2>2, <2>5, OneStore, SavedStays
<1>5. ASSUME pc' = [pc EXCEPT ![o] = "failed"], B!LeaveStream(o), UNCHANGED <<left, report, ghost>>
      PROVE  StoreInv'
  <2>1. StoreTypes'
    BY <1>1, <1>2, <1>5, LeaveTypes DEF StoreTypes, IsReport, IsGhost, Awaits
  <2>2. pc'[o] = "failed" /\ \A p \in Openers \ {o} : pc'[p] = pc[p]
    BY <1>2, <1>5 DEF StoreTypes
  <2>3. StreamSound(o)' /\ CallSound(o)'
    BY <2>2 DEF StreamSound, CallSound, Calling, Streaming
  <2>4. StoreSound(o)'
    BY <1>1, <2>3, OwnSound
  <2> QED
    BY <1>1, <1>2, <1>5, <2>1, <2>2, <2>4, LeaveTypes, OneStore, SavedStays
<1>6. CASE B!Fold(o, n) /\ n \notin bad[on[o]]
  BY <1>4, <1>6 DEF B!Fold, B!GiveUpStream, B!Goto, B!streamVars
<1>7. CASE B!Bootstrap(o, n)
  BY <1>4, <1>5, <1>7 DEF B!Bootstrap, B!Goto
<1> QED
  BY <1>1, <1>3, <1>6, <1>7

\* The least event of a batch, and what it covers once the sink has it.
LEMMA LeastIs ==
  ASSUME Stepping, NEW o \in Openers, pc[o] = "sink"
  PROVE  LET n == B!Least(todo[o]) IN
           /\ n \in todo[o] /\ n \in Nat /\ \A m \in todo[o] : n <= m
           /\ n <= LastOf(log[on[o]])
           /\ \A m \in log[on[o]] : m <= n => m = n \/ m \in taken[on[o]]
           /\ \A m \in todo[o] : m <= LastOf(log[on[o]]) /\
                \A k \in log[on[o]] : k <= m => k <= n \/ k \in todo[o]
<1> DEFINE n == B!Least(todo[o])
<1>1. /\ on[o] \in Streams /\ BatchSound(o) /\ Covered(on[o], cursor[o])
      /\ todo[o] \in SUBSET Nat /\ cursor[o] \in Nat /\ log[on[o]] \in SUBSET Nat
  BY DEF Stepping, StoreInv, StoreSound, StreamSound, StoreTypes, Streaming,
         MigrationInv, MigrationTypeOK
<1>2. n \in todo[o] /\ \A m \in todo[o] : n <= m
  <2>1. \E l \in todo[o] : \A m \in todo[o] : l <= m
    BY <1>1, LeastExists DEF BatchSound
  <2> QED
    BY <2>1, Zenon DEF B!Least
<1> HIDE DEF n
<1>3. n \in Nat /\ n <= LastOf(log[on[o]])
  BY <1>1, <1>2 DEF BatchSound
<1>4. ASSUME NEW m \in log[on[o]], m <= n, m # n PROVE m \in taken[on[o]]
  <2>1. m <= cursor[o] \/ m \in todo[o]
    BY <1>1, <1>2, <1>4 DEF BatchSound
  <2>2. m \notin todo[o]
    BY <1>1, <1>2, <1>3, <1>4
  <2> QED
    BY <1>1, <2>1, <2>2 DEF Covered, Driven
<1>5. ASSUME NEW m \in todo[o], NEW k \in log[on[o]], k <= m PROVE k <= n \/ k \in todo[o]
  <2>1. k <= cursor[o] \/ k \in todo[o]
    BY <1>1, <1>5 DEF BatchSound
  <2>2. CASE k <= cursor[o]
    <3>1. k \in Nat /\ cursor[o] < n
      BY <1>1, <1>2 DEF BatchSound
    <3> QED
      BY <1>1, <1>3, <2>2, <3>1
  <2> QED
    BY <2>1, <2>2
<1> QED
  BY <1>1, <1>2, <1>3, <1>4, <1>5 DEF n, BatchSound

\* The sink takes the event: it and all below it are covered.
LEMMA ApplyKeeps ==
  ASSUME Stepping, NEW o \in Openers, B!Apply(o)
  PROVE  StoreInv'
<1> DEFINE s == on[o]
           n == B!Least(todo[o])
<1>1. /\ pc[o] = "sink" /\ UNCHANGED <<log, writing, left>>
      /\ taken' = [taken EXCEPT ![s] = taken[s] \cup {n}]
      /\ saved' = [saved EXCEPT ![s] = n]
      /\ memory' = [memory EXCEPT ![o][s] = n]
      /\ report' = [report EXCEPT ![o].applied = report[o].applied + 1]
      /\ \E due : ghost' = [ghost EXCEPT ![o].due = due]
      /\ B!GoOn(o, n)
  BY DEF B!Apply
<1>2. StoreTypes /\ StoreSound(o) /\ s \in Streams
  BY <1>1 DEF Stepping, StoreInv, StoreSound, StreamSound, Streaming
<1>3. /\ n \in todo[o] /\ n \in Nat /\ \A m \in todo[o] : n <= m
      /\ n <= LastOf(log[s])
      /\ \A m \in log[s] : m <= n => m = n \/ m \in taken[s]
      /\ \A m \in todo[o] : m <= LastOf(log[s]) /\
           \A k \in log[s] : k <= m => k <= n \/ k \in todo[o]
  BY <1>1, LeastIs
<1> HIDE DEF n
<1>4. CoveredNext(s, n)
  BY <1>1, <1>2, <1>3 DEF CoveredNext, StoreTypes
<1>5. /\ taken' \in [Streams -> SUBSET Nat] /\ saved' \in [Streams -> Nat]
      /\ memory' \in [Openers -> [Streams -> Nat \cup {Unknown}]]
      /\ memory'[o] = [memory[o] EXCEPT ![s] = n]
      /\ \A p \in Openers \ {o} : memory'[p] = memory[p]
  BY <1>1, <1>2, <1>3 DEF StoreTypes
<1>6. \A t \in Streams : memory'[o][t] # Unknown =>
        CoveredNext(t, memory'[o][t]) \/ memory'[o][t] = memory[o][t]
  <2>1. \A t \in Streams : memory'[o][t] = IF t = s THEN n ELSE memory[o][t]
    BY <1>2, <1>5 DEF StoreTypes
  <2> QED
    BY <1>4, <2>1
<1>7. \A t \in Streams : Covered(t, saved[t])'
  <2>1. ASSUME NEW t \in Streams PROVE CoveredNext(t, saved'[t])
    <3>1. saved[t] \in Nat /\ Covered(t, saved[t])
      BY <1>2 DEF Stepping, StoreInv, StoreTypes
    <3>2. \A c \in Nat : Covered(t, c) => CoveredNext(t, c)
      BY CoveredStays DEF CoveredNext, Covered, Driven
    <3>3. saved'[t] = IF t = s THEN n ELSE saved[t]
      BY <1>1, <1>2 DEF StoreTypes
    <3> QED
      BY <1>4, <3>1, <3>2, <3>3
  <2> QED
    BY <2>1 DEF CoveredNext, Covered, Driven
<1>8. /\ report' = [p \in Openers |-> report'[p]]
      /\ \A p \in Openers : IsReport(report'[p]) /\ report'[p].failures = report[p].failures
  <2>1. /\ IsReport([report[o] EXCEPT !.applied = report[o].applied + 1])
        /\ [report[o] EXCEPT !.applied = report[o].applied + 1].failures = report[o].failures
    BY <1>2, ReportUpdates DEF StoreTypes
  <2>2. report' = [report EXCEPT ![o] = [report[o] EXCEPT !.applied = report[o].applied + 1]]
    BY <1>1
  <2> QED
    BY <1>2, <2>1, <2>2 DEF StoreTypes
<1>9. PICK due : ghost' = [ghost EXCEPT ![o].due = due]
  BY <1>1
<1>10. /\ ghost' = [p \in Openers |-> ghost'[p]]
       /\ \A p \in Openers : IsGhost(ghost'[p]) /\ ghost'[p].owed = ghost[p].owed
  <2>1. IsGhost([ghost[o] EXCEPT !.due = due]) /\ [ghost[o] EXCEPT !.due = due].owed = ghost[o].owed
    BY <1>2, GhostUpdates DEF StoreTypes
  <2>2. ghost' = [ghost EXCEPT ![o] = [ghost[o] EXCEPT !.due = due]]
    BY <1>9
  <2> QED
    BY <1>2, <2>1, <2>2 DEF StoreTypes
<1>11. CASE B!GoOn(o, n) /\ pc' = [pc EXCEPT ![o] = "next"]
  <2>1. B!LeaveStream(o) /\ n >= head[o]
    <3>1. pc'[o] = "next"
      BY <1>2, <1>11 DEF StoreTypes
    <3>2. ~ (pc' = [pc EXCEPT ![o] = IF todo[o] # {n} THEN "state" ELSE "read"])
      <4>1. SUFFICES ASSUME pc' = [pc EXCEPT ![o] = IF todo[o] # {n} THEN "state" ELSE "read"]
                     PROVE  FALSE
        OBVIOUS
      <4>2. pc'[o] \in {"state", "read"}
        BY <1>2, <4>1 DEF StoreTypes
      <4> QED
        BY <3>1, <4>2
    <3> QED
      BY <1>11, <3>2 DEF B!GoOn, B!Goto
  <2>2. StoreTypes'
    BY <1>1, <1>2, <1>5, <1>8, <1>10, <1>11, <2>1, LeaveTypes
    DEF StoreTypes, IsReport, IsGhost, Awaits, Calling
  <2>3. pc'[o] = "next" /\ \A p \in Openers \ {o} : pc'[p] = pc[p]
    BY <1>2, <1>11 DEF StoreTypes
  <2>4. StreamSound(o)'
    BY <2>3 DEF StreamSound, Streaming
  <2>5. ASSUME ghost[o].owed[s] <= head[o]
        PROVE  \A m \in log'[s] : m <= ghost[o].owed[s] => m \in taken'[s]
    <3>1. ghost[o].owed[s] \in Nat /\ head[o] \in Nat /\ log[s] \in SUBSET Nat
      BY <1>1, <1>2 DEF StoreSound, CallSound, Calling, Streaming, StoreTypes,
                        Stepping, MigrationInv, MigrationTypeOK
    <3>2. ghost[o].owed[s] <= n
      BY <1>3, <2>1, <2>5, <3>1
    <3>3. ASSUME NEW m \in log[s], m <= ghost[o].owed[s] PROVE m \in taken'[s]
      <4>1. m \in Nat /\ m <= n
        BY <1>3, <3>1, <3>2, <3>3
      <4> QED
        BY <1>1, <1>4, <4>1 DEF CoveredNext
    <3> QED
      BY <1>1, <3>3
  <2>6. CallSound(o)'
    <3>1. \A t \in Streams : Accounted(o, t) =>
            t \in left[o] \/ t \in report[o].failures \/ Driven(t, ghost[o].owed[t])
            \/ (t = s /\ ghost[o].owed[s] <= head[o])
      BY DEF Accounted
    <3>2. ghost[o].owed[s] <= head[o] =>
            \A m \in log'[s] : m <= ghost[o].owed[s] => m \in taken'[s]
      BY <2>5
    <3>3. ASSUME NEW t \in Streams, Accounted(o, t)
          PROVE  \/ t \in left'[o] \/ t \in report'[o].failures
                 \/ Driven(t, ghost[o].owed[t]) \/ Driven(t, ghost[o].owed[t])'
      BY <1>1, <1>8, <1>10, <3>1, <3>2, <3>3 DEF Driven
    <3> QED
      BY <1>1, <1>10, <2>3, <3>3, CallGoesOn DEF Calling, Streaming
  <2>7. StoreSound(o)'
    BY <1>1, <1>6, <2>4, <2>6, OwnSound
  <2> QED
    BY <1>1, <1>2, <1>5, <1>7, <1>8, <1>10, <2>1, <2>2, <2>3, <2>7, LeaveTypes, OneStore
<1>12. CASE /\ todo' = [todo EXCEPT ![o] = todo[o] \ {n}]
            /\ cursor' = [cursor EXCEPT ![o] = n]
            /\ pc' = [pc EXCEPT ![o] = IF todo[o] # {n} THEN "state" ELSE "read"]
            /\ UNCHANGED <<on, head, running>>
  <2>1. StoreTypes'
    <3>1. /\ todo' \in [Openers -> SUBSET Nat] /\ cursor' \in [Openers -> Nat]
          /\ pc' \in [Openers -> Awaits]
      BY <1>2, <1>3, <1>12 DEF StoreTypes, Awaits, Calling, Streaming
    <3> QED
      BY <1>1, <1>2, <1>5, <1>8, <1>10, <1>12, <3>1 DEF StoreTypes, IsReport, IsGhost
  <2>2. /\ pc'[o] = IF todo[o] # {n} THEN "state" ELSE "read"
        /\ todo'[o] = todo[o] \ {n} /\ cursor'[o] = n
        /\ \A p \in Openers \ {o} : pc'[p] = pc[p] /\ todo'[p] = todo[p] /\ cursor'[p] = cursor[p]
    BY <1>2, <1>12 DEF StoreTypes
  <2>3. StreamSound(o)'
    <3>1. (pc[o] \in {"read", "state", "sink"} => Covered(on[o], cursor[o]))'
      BY <1>4, <1>12, <2>2 DEF CoveredNext, Covered, Driven
    <3>2. (pc[o] \in {"state", "sink"} => BatchSound(o))'
      <4>1. ASSUME todo[o] # {n} PROVE BatchSound(o)'
        <5>1. ASSUME NEW m \in todo[o] \ {n}
              PROVE  /\ n < m /\ m <= LastOf(log[s])
                     /\ \A k \in log[s] : k <= m => k <= n \/ k \in todo[o] \ {n}
          <6>1. m \in Nat /\ n <= m /\ n # m
            BY <1>2, <1>3 DEF StoreTypes
          <6>2. n < m
            BY <1>3, <6>1
          <6>3. \A k \in log[s] : k = n => k <= n
            BY <1>3
          <6> QED
            BY <1>3, <6>2, <6>3
        <5>2. todo[o] \ {n} # {}
          BY <1>3, <4>1
        <5> QED
          BY <1>1, <1>12, <2>2, <5>1, <5>2 DEF BatchSound
      <4> QED
        BY <2>2, <4>1
    <3> QED
      BY <1>2, <1>12, <3>1, <3>2 DEF StreamSound
  <2>4. CallSound(o)'
    BY <1>1, <1>8, <1>10, <1>12, <2>2, CallGoesOn DEF Accounted, Calling, Streaming
  <2>5. StoreSound(o)'
    BY <1>1, <1>6, <2>3, <2>4, OwnSound
  <2> QED
    BY <1>1, <1>5, <1>7, <1>8, <1>10, <1>12, <2>1, <2>2, <2>5, OneStore
<1> QED
  BY <1>1, <1>11, <1>12 DEF B!GoOn, B!Goto

LEMMA RefuseKeeps ==
  ASSUME Stepping, NEW o \in Openers, B!Refuse(o)
  PROVE  StoreInv'
<1> DEFINE n == B!Least(todo[o])
<1>1. /\ pc[o] = "sink" /\ UNCHANGED <<saved, memory, writing>>
      /\ taken' \in {taken, [taken EXCEPT ![on[o]] = taken[on[o]] \cup {n}]}
      /\ B!GiveUpStream(o, n)
  BY DEF B!Refuse, B!storeVars
<1>2. StoreTypes /\ on[o] \in Streams
  BY <1>1 DEF Stepping, StoreInv, StoreSound, StreamSound, Streaming
<1>3. n \in Nat
  BY <1>1, LeastIs
<1>4. taken' \in [Streams -> SUBSET Nat]
  <2> HIDE DEF n
  <2>1. [taken EXCEPT ![on[o]] = taken[on[o]] \cup {n}] \in [Streams -> SUBSET Nat]
    BY <1>2, <1>3 DEF StoreTypes
  <2> QED
    BY <1>1, <1>2, <2>1 DEF StoreTypes
<1> QED
  BY <1>1, <1>4, GiveUpKeeps DEF Streaming

\* The streams a call owes are the ones it is given.
LEMMA BeginKeeps ==
  ASSUME Stepping, NEW o \in Openers, NEW rebuild, B!Begin(o, rebuild)
  PROVE  StoreInv'
<1> DEFINE owed == [s \in Streams |-> LastOf(log[s])]
           g == [ghost[o] EXCEPT !.owed = owed]
<1>1. /\ left' = [left EXCEPT ![o] = {s \in Streams : log[s] # {}}]
      /\ ghost' = [ghost EXCEPT ![o] = g]
      /\ pc' = [pc EXCEPT ![o] = "next"]
      /\ UNCHANGED <<log, saved, taken, memory, writing, on, head, cursor, todo, report>>
  <2>1. [s \in Streams |-> B!LastOf(log[s])] = owed
    BY BLastIs
  <2>2. ghost' = [ghost EXCEPT ![o] = g]
    BY <2>1 DEF B!Begin
  <2> QED
    BY <2>2 DEF B!Begin, B!Goto, B!fileVars, B!storeVars, B!streamVars
<1>2. StoreTypes /\ IsGhost(ghost[o])
  BY DEF Stepping, StoreInv, StoreTypes
<1>3. IsGhost(g) /\ g.owed = owed
  BY <1>2, GhostUpdates
<1>4. ASSUME NEW s \in Streams
      PROVE  /\ owed[s] = LastOf(log[s]) /\ owed[s] \in Nat
             /\ log[s] = {} => Driven(s, owed[s])
  BY RowsAre DEF Stepping, StoreInv, Driven
<1> HIDE DEF g, owed
<1>5. /\ ghost' = [p \in Openers |-> ghost'[p]]
      /\ ghost'[o] = g /\ pc'[o] = "next" /\ left'[o] = {s \in Streams : log[s] # {}}
      /\ \A p \in Openers \ {o} : ghost'[p] = ghost[p] /\ pc'[p] = pc[p] /\ left'[p] = left[p]
      /\ pc' \in [Openers -> Awaits] /\ left' \in [Openers -> SUBSET Streams]
  BY <1>1, <1>2 DEF StoreTypes, Awaits, Calling
<1>6. \A p \in Openers : IsGhost(ghost'[p])
  BY <1>2, <1>3, <1>5 DEF StoreTypes
<1>7. StoreTypes'
  BY <1>1, <1>2, <1>5, <1>6 DEF StoreTypes, IsReport, IsGhost
<1>8. StreamSound(o)'
  BY <1>5 DEF StreamSound, Streaming
<1>9. CallSound(o)'
  <2>1. \A s \in Streams : ghost'[o].owed[s] = LastOf(log'[s]) /\ ghost'[o].owed[s] \in Nat
    BY <1>1, <1>3, <1>4, <1>5
  <2>2. \A s \in Streams : s \in left'[o] \/ Driven(s, ghost[o].owed[s])'
    BY <1>1, <1>3, <1>4, <1>5 DEF Driven
  <2> QED
    BY <1>5, <2>1, <2>2 DEF CallSound, Accounted
<1>10. StoreSound(o)'
  BY <1>1, <1>8, <1>9, OwnSound
<1> QED
  BY <1>1, <1>5, <1>7, <1>10, OneStore, SavedStays

LEMMA ReturnKeeps ==
  ASSUME Stepping, NEW o \in Openers, B!Return(o)
  PROVE  StoreInv'
<1>1. /\ pc[o] = "next" /\ left[o] = {} /\ pc' = [pc EXCEPT ![o] = "returned"]
      /\ UNCHANGED <<log, saved, taken, memory, writing, left, on, head, cursor, todo, report, ghost>>
  BY DEF B!Return, B!Goto, B!fileVars, B!storeVars, B!streamVars
<1>2. StoreTypes
  BY DEF Stepping, StoreInv
<1>3. StoreTypes'
  BY <1>1, <1>2 DEF StoreTypes, IsReport, IsGhost, Awaits, Calling
<1>4. pc'[o] = "returned" /\ \A p \in Openers \ {o} : pc'[p] = pc[p]
  BY <1>1, <1>2 DEF StoreTypes
<1>5. StreamSound(o)'
  BY <1>4 DEF StreamSound, Streaming
<1>6. CallSound(o)'
  BY <1>1, <1>4, CallGoesOn DEF Accounted, Calling, Streaming
<1>7. StoreSound(o)'
  BY <1>1, <1>5, <1>6, OwnSound
<1> QED
  BY <1>1, <1>3, <1>4, <1>7, OneStore, SavedStays

\* A call that is over leaves nothing behind.
LEMMA ForgetTypes ==
  ASSUME StoreTypes, NEW o \in Openers, B!Forget(o)
  PROVE  /\ on' \in [Openers -> Streams \cup {B!NoStream}]
         /\ head' \in [Openers -> Nat] /\ cursor' \in [Openers -> Nat]
         /\ todo' \in [Openers -> SUBSET Nat] /\ left' \in [Openers -> SUBSET Streams]
         /\ report' = [p \in Openers |-> report'[p]] /\ \A p \in Openers : IsReport(report'[p])
         /\ ghost' = [p \in Openers |-> ghost'[p]] /\ \A p \in Openers : IsGhost(ghost'[p])
         /\ \A p \in Openers \ {o} :
              /\ on'[p] = on[p] /\ head'[p] = head[p] /\ cursor'[p] = cursor[p]
              /\ todo'[p] = todo[p] /\ left'[p] = left[p] /\ report'[p] = report[p]
              /\ ghost'[p] = ghost[p]
<1>1. B!LeaveStream(o)
  BY DEF B!Forget
<1>2. left' \in [Openers -> SUBSET Streams] /\ \A p \in Openers \ {o} : left'[p] = left[p]
  BY DEF B!Forget, StoreTypes
<1>3. IsReport(B!EmptyReport) /\ IsGhost(B!NoGhost)
  BY DEF IsReport, IsGhost, B!EmptyReport, B!NoGhost
<1>4. report' = [report EXCEPT ![o] = B!EmptyReport] /\ ghost' = [ghost EXCEPT ![o] = B!NoGhost]
  BY DEF B!Forget
<1>5. /\ report' = [p \in Openers |-> report'[p]] /\ \A p \in Openers : IsReport(report'[p])
      /\ ghost' = [p \in Openers |-> ghost'[p]] /\ \A p \in Openers : IsGhost(ghost'[p])
      /\ \A p \in Openers \ {o} : report'[p] = report[p] /\ ghost'[p] = ghost[p]
  BY <1>3, <1>4 DEF StoreTypes
<1> QED
  BY <1>1, <1>2, <1>5, LeaveTypes

LEMMA DoneKeeps ==
  ASSUME Stepping, NEW o \in Openers, B!Done(o)
  PROVE  StoreInv'
<1>1. /\ pc' = [pc EXCEPT ![o] = "idle"] /\ B!Forget(o)
      /\ UNCHANGED <<log, saved, taken, memory, writing>>
  BY DEF B!Done, B!Goto, B!fileVars
<1>2. StoreTypes
  BY DEF Stepping, StoreInv
<1>3. /\ pc'[o] = "idle" /\ \A p \in Openers \ {o} : pc'[p] = pc[p]
      /\ pc' \in [Openers -> Awaits]
  BY <1>1, <1>2 DEF StoreTypes, Awaits
<1>4. StoreTypes'
  BY <1>1, <1>2, <1>3, ForgetTypes DEF StoreTypes, IsReport, IsGhost
<1>5. StreamSound(o)' /\ CallSound(o)'
  BY <1>3 DEF StreamSound, CallSound, Calling, Streaming
<1>6. StoreSound(o)'
  BY <1>1, <1>5, OwnSound
<1> QED
  BY <1>1, <1>2, <1>3, <1>4, <1>6, ForgetTypes, OneStore, SavedStays

LEMMA StopKeeps ==
  ASSUME Stepping, NEW o \in Openers, B!Stop(o)
  PROVE  StoreInv'
<1>1. /\ pc' = [pc EXCEPT ![o] = "down"] /\ B!Forget(o)
      /\ memory' = [memory EXCEPT ![o] = [s \in Streams |-> Unknown]]
      /\ writing' = [writing EXCEPT ![o] = <<>>]
      /\ UNCHANGED <<log, saved, taken>>
  BY DEF B!Stop, B!Goto, B!fileVars
<1>2. StoreTypes
  BY DEF Stepping, StoreInv
<1>3. /\ pc'[o] = "down" /\ writing'[o] = <<>> /\ \A s \in Streams : memory'[o][s] = Unknown
      /\ \A p \in Openers \ {o} : pc'[p] = pc[p] /\ memory'[p] = memory[p] /\ writing'[p] = writing[p]
      /\ pc' \in [Openers -> Awaits] /\ writing' \in [Openers -> Writes]
      /\ memory' \in [Openers -> [Streams -> Nat \cup {Unknown}]]
  BY <1>1, <1>2 DEF StoreTypes, Awaits, Writes
<1>4. StoreTypes'
  BY <1>1, <1>2, <1>3, ForgetTypes DEF StoreTypes, IsReport, IsGhost
<1>5. StreamSound(o)' /\ CallSound(o)'
  BY <1>3 DEF StreamSound, CallSound, Calling, Streaming
<1>6. StoreSound(o)'
  BY <1>3, <1>5 DEF StoreSound
<1>7. \A p \in Openers \ {o} :
        /\ left'[p] = left[p] /\ on'[p] = on[p] /\ head'[p] = head[p] /\ cursor'[p] = cursor[p]
        /\ todo'[p] = todo[p] /\ report'[p].failures = report[p].failures
        /\ ghost'[p].owed = ghost[p].owed
  BY <1>1, <1>2, ForgetTypes
<1>8. \A s \in Streams : Covered(s, saved[s])'
  BY <1>1, SavedStays
<1> QED
  BY <1>3, <1>4, <1>6, <1>7, <1>8, OneStore

\* A dispatch that advances the checkpoint covers what the checkpoint covered,
\* and the event.
LEMMA DispatchKeeps ==
  ASSUME Stepping, NEW o \in Openers, B!Dispatch(o)
  PROVE  StoreInv'
<1> DEFINE s == writing[o][1]
           n == writing[o][2]
<1>1. /\ writing[o] # <<>> /\ writing[o][3] = "committed"
      /\ writing' = [writing EXCEPT ![o] = <<>>]
      /\ UNCHANGED <<log, pc, left, on, head, cursor, todo, report, ghost>>
  BY DEF B!Dispatch, B!callVars, B!streamVars
<1>2. StoreTypes /\ StoreSound(o) /\ s \in Streams /\ n \in Nat /\ n <= LastOf(log[s])
  BY <1>1 DEF Stepping, StoreInv, StoreSound, StoreTypes, Writes
<1>3. PICK c \in {0, B!Checkpoint(o, s)} :
        /\ taken' \in {taken, [taken EXCEPT ![s] = taken[s] \cup {n}]}
        /\ \/ memory' = [memory EXCEPT ![o][s] = c] /\ saved' = saved
           \/ /\ n = c + 1 /\ taken' = [taken EXCEPT ![s] = taken[s] \cup {n}]
              /\ memory' = [memory EXCEPT ![o][s] = n]
              /\ saved' = [saved EXCEPT ![s] = n]
  <2>1. PICK c \in {0, B!Checkpoint(o, s)} :
         \/ /\ taken' = [taken EXCEPT ![s] = taken[s] \cup {n}]
            /\ memory' = [memory EXCEPT ![o][s] = IF B!Contiguous(n, c) THEN n ELSE c]
            /\ saved' = [saved EXCEPT ![s] = IF B!Contiguous(n, c) THEN n ELSE saved[s]]
         \/ /\ taken' \in {taken, [taken EXCEPT ![s] = taken[s] \cup {n}]}
            /\ memory' = [memory EXCEPT ![o][s] = c]
            /\ UNCHANGED saved
         \/ /\ memory' = [memory EXCEPT ![o][s] = c]
            /\ UNCHANGED <<taken, saved>>
    BY DEF B!Dispatch
  <2>2. [saved EXCEPT ![s] = saved[s]] = saved
    BY <1>2 DEF StoreTypes
  <2> HIDE DEF s, n
  <2> QED
    BY <2>1, <2>2 DEF B!Contiguous
<1>4. c \in Nat /\ Covered(s, c) /\ CoveredNext(s, c)
  BY <1>2, CheckpointIs
<1> HIDE DEF s, n
<1>5. ASSUME n = c + 1, taken' = [taken EXCEPT ![s] = taken[s] \cup {n}] PROVE CoveredNext(s, n)
  <2>1. log[s] \in SUBSET Nat /\ taken'[s] = taken[s] \cup {n}
    BY <1>2, <1>5 DEF Stepping, MigrationInv, MigrationTypeOK, StoreTypes
  <2>2. ASSUME NEW m \in log[s], m <= n PROVE m \in taken'[s]
    <3>1. m \in Nat
      BY <2>1
    <3>2. m = n \/ m <= c
      BY <1>2, <1>4, <1>5, <2>2, <3>1
    <3> QED
      BY <1>4, <2>1, <3>2 DEF Covered, Driven
  <2> QED
    BY <1>1, <1>2, <2>2 DEF CoveredNext
<1>6. PICK k \in Nat :
        /\ CoveredNext(s, k) /\ memory' = [memory EXCEPT ![o][s] = k]
        /\ saved' = saved \/ saved' = [saved EXCEPT ![s] = k]
  BY <1>2, <1>3, <1>4, <1>5
<1>7. /\ taken' \in [Streams -> SUBSET Nat] /\ saved' \in [Streams -> Nat]
      /\ memory' \in [Openers -> [Streams -> Nat \cup {Unknown}]]
      /\ memory'[o] = [memory[o] EXCEPT ![s] = k]
      /\ \A p \in Openers \ {o} : memory'[p] = memory[p] /\ writing'[p] = writing[p]
      /\ writing' \in [Openers -> Writes] /\ writing'[o] = <<>>
  <2>1. [taken EXCEPT ![s] = taken[s] \cup {n}] \in [Streams -> SUBSET Nat]
    BY <1>2 DEF StoreTypes
  <2>2. taken' \in [Streams -> SUBSET Nat]
    BY <1>2, <1>3, <2>1 DEF StoreTypes
  <2>3. [saved EXCEPT ![s] = k] \in [Streams -> Nat]
    BY <1>2 DEF StoreTypes
  <2>4. saved' \in [Streams -> Nat]
    BY <1>2, <1>6, <2>3 DEF StoreTypes
  <2> QED
    BY <1>1, <1>2, <1>6, <2>2, <2>4 DEF StoreTypes, Writes
<1>8. \A t \in Streams : (memory[o][t] # Unknown => Covered(t, memory[o][t]))'
  <2>1. \A t \in Streams : memory'[o][t] = IF t = s THEN k ELSE memory[o][t]
    BY <1>2, <1>7 DEF StoreTypes
  <2>2. ASSUME NEW t \in Streams, memory'[o][t] # Unknown PROVE CoveredNext(t, memory'[o][t])
    BY <1>6, <2>1, <2>2, MemoryStays
  <2> QED
    BY <2>2 DEF CoveredNext, Covered, Driven
<1>9. \A t \in Streams : Covered(t, saved[t])'
  <2>1. ASSUME NEW t \in Streams PROVE CoveredNext(t, saved'[t])
    <3>1. saved[t] \in Nat /\ Covered(t, saved[t])
      BY <1>2 DEF Stepping, StoreInv, StoreTypes
    <3>2. \A d \in Nat : Covered(t, d) => CoveredNext(t, d)
      BY CoveredStays DEF CoveredNext, Covered, Driven
    <3>3. saved'[t] = saved[t] \/ (t = s /\ saved'[t] = k)
      BY <1>2, <1>6 DEF StoreTypes
    <3> QED
      BY <1>6, <3>1, <3>2, <3>3
  <2> QED
    BY <2>1 DEF CoveredNext, Covered, Driven
<1>10. StoreTypes'
  BY <1>1, <1>2, <1>7 DEF StoreTypes, IsReport, IsGhost
<1>11. StreamSound(o)' /\ CallSound(o)'
  BY <1>1, CallKept
<1>12. StoreSound(o)'
  BY <1>7, <1>8, <1>11 DEF StoreSound
<1> QED
  BY <1>1, <1>7, <1>9, <1>10, <1>12, OneStore

\* A write in hand is prepared only: it has no event yet.
LEMMA PrepareKeeps ==
  ASSUME Stepping, NEW o \in Openers, NEW s \in Streams, B!Prepare(o, s)
  PROVE  StoreInv'
<1> DEFINE w == <<s, LastOf(log[s]), "prepared">>
<1>1. /\ writing' = [writing EXCEPT ![o] = w]
      /\ UNCHANGED <<log, saved, taken, memory, pc, left, on, head, cursor, todo, report, ghost>>
  BY BLastIs DEF B!Prepare, B!fileVars, B!callVars, B!streamVars
<1>2. StoreTypes /\ w \in Writes /\ w[3] # "committed"
  BY RowsAre DEF Stepping, StoreInv, Writes
<1> HIDE DEF w
<1>3. /\ writing' \in [Openers -> Writes] /\ writing'[o] = w
      /\ \A p \in Openers \ {o} : writing'[p] = writing[p]
  BY <1>1, <1>2 DEF StoreTypes
<1>4. StoreTypes'
  BY <1>1, <1>2, <1>3 DEF StoreTypes, IsReport, IsGhost
<1>5. StoreSound(o)'
  BY <1>1, <1>2, <1>3, CallKept, MemoryKept DEF StoreSound
<1> QED
  BY <1>1, <1>3, <1>4, <1>5, OneStore, SavedStays

LEMMA WorkKeeps ==
  ASSUME Stepping, NEW o \in Openers, B!Work(o)
  PROVE  StoreInv'
<1>1. CASE B!NextStream(o) \/ B!GetCheckpoint(o) \/ B!ReadBatch(o)
  BY <1>1, NextStreamKeeps, GetCheckpointKeeps, ReadBatchKeeps
<1>2. CASE B!TakeState(o) \/ B!Apply(o) \/ B!Refuse(o)
  BY <1>2, TakeStateKeeps, ApplyKeeps, RefuseKeeps
<1>3. CASE B!CatchUp(o) \/ B!Return(o) \/ B!Done(o)
  BY <1>3, BeginKeeps, ReturnKeeps, DoneKeeps DEF B!CatchUp
<1>4. CASE B!Dispatch(o) \/ \E s \in Streams : B!Prepare(o, s)
  BY <1>4, DispatchKeeps, PrepareKeeps
<1> QED
  BY <1>1, <1>2, <1>3, <1>4 DEF B!Work

-----------------------------------------------------------------------------
(* What is done to the table of events.                                    *)

\* A committed event is the last of its stream.
LEMMA WriteKeeps ==
  ASSUME Stepping, NEW o \in Openers, NEW s \in Streams, Write(o, s)
  PROVE  StoreInv'
<1> DEFINE n == LastOf(log[s]) + 1
<1>1. /\ writing' \in {[writing EXCEPT ![o] = <<>>], [writing EXCEPT ![o] = <<s, n, "committed">>]}
      /\ log' = [log EXCEPT ![s] = log[s] \cup {n}]
      /\ UNCHANGED <<saved, taken, memory, pc, left, on, head, cursor, todo, report, ghost>>
  <2>1. B!LastOf(log[s]) = LastOf(log[s])
    BY BLastIs
  <2> QED
    BY <2>1 DEF Write, B!Commit, B!callVars, B!streamVars
<1>2. StoreTypes /\ LastOf(log[s]) \in Nat
  BY RowsAre DEF Stepping, StoreInv
<1>3. n <= LastOf(log'[s])
  <2>1. n \in log'[s]
    BY <1>1 DEF Stepping, MigrationInv, MigrationTypeOK
  <2> QED
    BY <2>1 DEF Stepping, MigrationInv, RowsSound
<1>4. writing' = [writing EXCEPT ![o] = <<>>] \/ writing' = [writing EXCEPT ![o] = <<s, n, "committed">>]
  BY <1>1
<1>5. <<s, n, "committed">> \in Writes /\ <<>> \in Writes
  BY <1>2 DEF Writes
<1> HIDE DEF n
<1>6. /\ writing' \in [Openers -> Writes] /\ writing'[o] \in {<<>>, <<s, n, "committed">>}
      /\ \A p \in Openers \ {o} : writing'[p] = writing[p]
  <2>1. PICK w \in Writes : w \in {<<>>, <<s, n, "committed">>} /\ writing' = [writing EXCEPT ![o] = w]
    BY <1>4, <1>5
  <2> QED
    BY <1>2, <2>1 DEF StoreTypes
<1>7. StoreTypes'
  BY <1>1, <1>2, <1>6 DEF StoreTypes, IsReport, IsGhost
<1>8. writing'[o] # <<>> /\ writing'[o][3] = "committed" =>
        writing'[o][2] <= LastOf(log'[writing'[o][1]])
  BY <1>3, <1>6
<1>9. StoreSound(o)'
  BY <1>1, <1>8, CallKept, MemoryKept DEF StoreSound
<1> QED
  BY <1>1, <1>6, <1>7, <1>9, OneStore, SavedStays

\* Rows that go, of a compaction or another client's, are nobody's in
\* particular.
LEMMA RowsGo ==
  ASSUME Stepping,
         ghost' = [q \in Openers |-> [ghost[q] EXCEPT !.steady = pc[q] \in {"down", "idle"}]],
         UNCHANGED <<saved, taken, memory, writing, pc, left, on, head, cursor, todo, report>>
  PROVE  StoreInv'
<1>1. StoreTypes
  BY DEF Stepping, StoreInv
<1>2. ASSUME NEW p \in Openers
      PROVE  IsGhost(ghost'[p]) /\ ghost'[p].owed = ghost[p].owed
  <2>1. ghost'[p] = [ghost[p] EXCEPT !.steady = pc[p] \in {"down", "idle"}]
    OBVIOUS
  <2> QED
    BY <1>1, <2>1, GhostUpdates DEF StoreTypes
<1>3. StoreTypes'
  BY <1>1, <1>2 DEF StoreTypes, IsReport
<1>4. ASSUME NEW p \in Openers PROVE StoreSound(p)'
  BY <1>2, BesideStores
<1> QED
  BY <1>3, <1>4, FirstStays, SavedStays DEF StoreInv

LEMMA CompactKeeps ==
  ASSUME Stepping, NEW o \in Openers, NEW s \in Streams, NEW k \in log[s],
         CompactStream(o, s, k)
  PROVE  StoreInv'
BY RowsGo DEF CompactStream, B!Compact, B!storeVars, B!streamVars

LEMMA TamperKeeps ==
  ASSUME Stepping, NEW s \in Streams, NEW n \in log[s], TamperRow(s, n)
  PROVE  StoreInv'
BY RowsGo DEF TamperRow, storeVars, streamVars

\* What the sink has taken stays taken.
LEMMA TakenGrows ==
  ASSUME taken \in [Streams -> SUBSET Nat], NEW t \in Streams, NEW n,
         taken' \in {taken, [taken EXCEPT ![t] = taken[t] \cup {n}]}
  PROVE  \A s \in Streams : taken[s] \subseteq taken'[s]
<1>1. CASE taken' = taken
  BY <1>1
<1>2. CASE taken' = [taken EXCEPT ![t] = taken[t] \cup {n}]
  BY <1>2
<1> QED
  BY <1>1, <1>2

LEMMA WorkTakes ==
  ASSUME MigrationInv, StoreInv, NEW o \in Openers, B!Work(o)
  PROVE  \A s \in Streams : taken[s] \subseteq taken'[s]
<1>1. CASE B!NextStream(o) \/ B!GetCheckpoint(o) \/ B!ReadBatch(o) \/ B!TakeState(o)
  BY <1>1 DEF B!NextStream, B!GetCheckpoint, B!ReadBatch, B!TakeState, B!fileVars
<1>2. CASE B!CatchUp(o) \/ B!Return(o) \/ B!Done(o) \/ \E s \in Streams : B!Prepare(o, s)
  BY <1>2 DEF B!CatchUp, B!Begin, B!Return, B!Done, B!Prepare, B!fileVars
<1>3. taken \in [Streams -> SUBSET Nat]
  BY DEF StoreInv, StoreTypes
<1>4. CASE B!Apply(o) \/ B!Refuse(o)
  <2>1. on[o] \in Streams
    BY <1>4 DEF StoreInv, StoreSound, StreamSound, Streaming, B!Apply, B!Refuse
  <2>2. \E n : taken' \in {taken, [taken EXCEPT ![on[o]] = taken[on[o]] \cup {n}]}
    BY <1>4 DEF B!Apply, B!Refuse
  <2> QED
    BY <1>3, <2>1, <2>2, TakenGrows
<1>5. CASE B!Dispatch(o)
  <2>1. writing[o][1] \in Streams
    BY <1>5 DEF StoreInv, StoreTypes, Writes, B!Dispatch
  <2>2. \E n : taken' \in {taken, [taken EXCEPT ![writing[o][1]] = taken[writing[o][1]] \cup {n}]}
    BY <1>5 DEF B!Dispatch
  <2> QED
    BY <1>3, <2>1, <2>2, TakenGrows
<1> QED
  BY <1>1, <1>2, <1>4, <1>5 DEF B!Work

\* Rows are only added at the end, and the last one stays.
LEMMA StreamsGrow ==
  ASSUME MigrationInv, StoreInv, Next
  PROVE  \A s \in Streams : Grows(s)
<1>1. taken \in [Streams -> SUBSET Nat] /\ log \in [Streams -> SUBSET Nat]
  BY DEF StoreInv, StoreTypes, MigrationInv, MigrationTypeOK
<1>2. ASSUME log' = log, \A s \in Streams : taken[s] \subseteq taken'[s]
      PROVE  \A s \in Streams : Grows(s)
  BY <1>2, RowsAre DEF Grows, StoreInv
<1>3. ASSUME NEW t \in Streams, NEW rows \in SUBSET Nat, log' = [log EXCEPT ![t] = rows],
             taken' = taken, LastOf(log[t]) <= LastOf(rows),
             \A n \in rows : n \in log[t] \/ LastOf(log[t]) < n
      PROVE  \A s \in Streams : Grows(s)
  <2> SUFFICES ASSUME NEW s \in Streams PROVE Grows(s)
    OBVIOUS
  <2>1. CASE s = t
    BY <1>1, <1>3, <2>1 DEF Grows
  <2>2. CASE s # t
    <3>1. log'[s] = log[s] /\ LastOf(log[s]) \in Nat
      BY <1>1, <1>3, <2>2, RowsAre DEF StoreInv
    <3> QED
      BY <1>3, <3>1 DEF Grows
  <2> QED
    BY <2>1, <2>2
<1>4. ASSUME NEW o \in Openers, Migrate(o) \/ MigrationFails(o) PROVE log' = log /\ taken' = taken
  BY <1>4 DEF Migrate, MigrationFails, Open, Step, Close, rowVars, restOfStore, sinkVars
<1>5. ASSUME NEW o \in Openers, Attach(o) \/ Stop(o) PROVE log' = log /\ taken' = taken
  BY <1>5 DEF Attach, Stop, B!Start, B!Begin, B!Stop, B!fileVars
<1>6. ASSUME NEW o \in Openers, Use(o)
      PROVE  log' = log /\ \A s \in Streams : taken[s] \subseteq taken'[s]
  BY <1>6, WorkKeepsRows, WorkTakes DEF Use
<1>7. ASSUME NEW o \in Openers, NEW s \in Streams, Write(o, s)
      PROVE  \A t \in Streams : Grows(t)
  <2> DEFINE n == LastOf(log[s]) + 1
  <2>1. log' = [log EXCEPT ![s] = log[s] \cup {n}] /\ taken' = taken
    BY <1>7 DEF Write, Append, B!Commit
  <2>2. LastOf(log[s]) \in Nat /\ log[s] \in SUBSET Nat /\ \A m \in log[s] : m <= LastOf(log[s])
    BY RowsAre DEF StoreInv
  <2>3. log[s] \cup {n} \in SUBSET Nat /\ n \in log[s] \cup {n} /\ \A m \in log[s] \cup {n} : m <= n
    BY <2>2
  <2>4. LastOf(log[s] \cup {n}) = n
    BY <2>3, LastIs
  <2>5. \A m \in log[s] \cup {n} : m \in log[s] \/ LastOf(log[s]) < m
    BY <2>2
  <2>6. LastOf(log[s]) <= LastOf(log[s] \cup {n})
    BY <2>2, <2>4
  <2> QED
    BY <1>3, <2>1, <2>3, <2>5, <2>6
<1>8. ASSUME NEW s \in Streams, NEW rows \in SUBSET log[s], LastOf(log[s]) \in rows,
             log' = [log EXCEPT ![s] = rows], taken' = taken
      PROVE  \A t \in Streams : Grows(t)
  <2>1. LastOf(log[s]) \in Nat /\ log[s] \in SUBSET Nat /\ \A m \in log[s] : m <= LastOf(log[s])
    BY RowsAre DEF StoreInv
  <2>2. LastOf(rows) = LastOf(log[s])
    BY <1>8, <2>1, LastIs
  <2> QED
    BY <1>3, <1>8, <2>1, <2>2
<1>9. ASSUME NEW o \in Openers, NEW s \in Streams, NEW k \in log[s], CompactStream(o, s, k)
      PROVE  \A t \in Streams : Grows(t)
  <2>1. log' = [log EXCEPT ![s] = {n \in log[s] : n >= k}] /\ taken' = taken
    BY <1>9 DEF CompactStream, Compact, B!Compact
  <2>2. LastOf(log[s]) \in {n \in log[s] : n >= k}
    BY RowsAre DEF StoreInv
  <2> QED
    BY <1>8, <2>1, <2>2
<1>10. ASSUME NEW s \in Streams, NEW n \in log[s], TamperRow(s, n)
       PROVE  \A t \in Streams : Grows(t)
  <2>1. log' = [log EXCEPT ![s] = log[s] \ {n}] /\ taken' = taken /\ n # LastOf(log[s])
    BY <1>10 DEF TamperRow, Tamper
  <2>2. LastOf(log[s]) \in log[s] \ {n}
    BY <2>1, RowsAre DEF StoreInv
  <2> QED
    BY <1>8, <2>1, <2>2
<1> QED
  BY <1>2, <1>4, <1>5, <1>6, <1>7, <1>9, <1>10 DEF Next

-----------------------------------------------------------------------------
(* The inductive invariant holds.                                          *)

LEMMA StoreInit == Init => StoreInv
<1> SUFFICES ASSUME Init PROVE StoreInv
  OBVIOUS
<1>1. MigrationInv
  BY InitSound DEF Init
<1>2. FirstIsOne
  BY DEF Init, MigrationInit, FirstIsOne
<1>3. StoreTypes
  <2>1. IsReport(B!EmptyReport) /\ IsGhost(B!NoGhost)
    BY DEF IsReport, IsGhost, B!EmptyReport, B!NoGhost
  <2> QED
    BY <2>1 DEF Init, B!BackfillStart, StoreTypes, Writes, Awaits, Calling
<1>4. ASSUME NEW s \in Streams PROVE Covered(s, saved[s])
  BY <1>1, <1>2, CoveredAtZero DEF Init, B!BackfillStart
<1>5. ASSUME NEW p \in Openers PROVE StoreSound(p)
  BY DEF Init, B!BackfillStart, StoreSound, StreamSound, CallSound, Streaming, Calling
<1> QED
  BY <1>2, <1>3, <1>4, <1>5 DEF StoreInv

LEMMA StoreStep == MigrationInv /\ MigrationInv' /\ StoreInv /\ [Next]_vars => StoreInv'
<1> SUFFICES ASSUME MigrationInv, MigrationInv', StoreInv, [Next]_vars PROVE StoreInv'
  OBVIOUS
<1>1. ASSUME UNCHANGED <<log, restOfStore>> PROVE StoreInv'
  BY <1>1 DEF restOfStore, sinkVars, storeVars, callVars, streamVars, StoreInv, StoreTypes, FirstIsOne,
     Covered, Driven, StoreSound, StreamSound, BatchSound, CallSound, Accounted
<1>2. CASE UNCHANGED vars
  BY <1>1, <1>2 DEF vars, migrationVars, rowVars
<1>3. CASE Next
  <2>1. Stepping
    BY <1>3, StreamsGrow DEF Stepping
  <2>2. ASSUME NEW o \in Openers, Migrate(o) \/ MigrationFails(o) PROVE StoreInv'
    BY <1>1, <2>2 DEF Migrate, MigrationFails, Open, Step, Close, rowVars
  <2>3. ASSUME NEW o \in Openers, Attach(o) \/ Use(o) \/ Stop(o) PROVE StoreInv'
    BY <2>1, <2>3, BeginKeeps, WorkKeeps, StopKeeps DEF Attach, B!Start, Use, Stop
  <2> QED
    BY <1>3, <2>1, <2>2, <2>3, WriteKeeps, CompactKeeps, TamperKeeps DEF Next
<1> QED
  BY <1>2, <1>3

\* The inductive invariant holds, for any openers, builds, streams, menus, batches
\* and numbers of events and faults.
THEOREM StoresSound == Spec => []StoreInv
<1>1. Spec => []MigrationInv
  BY ImplementsMigration, MigrationSound
<1> QED
  BY <1>1, StoreInit, StoreStep, PTL DEF Spec

\* Two stores on one file that dispatch, catch up, rebuild, compact and stop as
\* they like leave no checkpoint, saved or remembered, past an event that the
\* sink has not taken.
THEOREM CheckpointsAreCovered == Spec => []CheckpointsCover
<1>1. StoreInv => CheckpointsCover
  <2> SUFFICES ASSUME StoreInv, NEW s \in Streams,
                      NEW c \in {saved[s]} \cup ({memory[p][s] : p \in Openers} \ {Unknown})
               PROVE  c <= B!LastOf(log[s]) /\ \A n \in log[s] : n <= c => n \in taken[s]
    BY DEF CheckpointsCover, B!CheckpointsCover
  <2>1. Covered(s, c)
    BY DEF StoreInv, StoreSound
  <2> QED
    BY <2>1, BLastIs DEF Covered, Driven
<1> QED
  BY <1>1, StoresSound, PTL

\* A call that returns Ok has driven every stream it does not report, up to
\* where the stream was when the call began.
THEOREM OkIsDriven == Spec => []OkMeansDriven
<1>1. StoreInv => OkMeansDriven
  <2> SUFFICES ASSUME StoreInv, NEW p \in Openers, pc[p] = "returned",
                      NEW s \in Streams \ report[p].failures
               PROVE  Driven(s, ghost[p].owed[s])
    BY DEF OkMeansDriven, B!OkMeansDriven, Driven
  <2> QED
    BY DEF StoreInv, StoreSound, CallSound, Accounted, Calling, Streaming
<1> QED
  BY <1>1, StoresSound, PTL

-----------------------------------------------------------------------------
(* What the report of a call counts.                                       *)

\* The coordinates of some streams, those of compacted events included.
Pairs(rows, T) == UNION {{s} \X (1 .. LastOf(rows[s])) : s \in T}

\* The events of its stream that a call still has to account for.
Due(p) == {n \in log[on[p]] : cursor[p] < n /\ n <= head[p]}
Pending(p) == IF pc[p] \in {"read", "state", "sink"} THEN Cardinality(Due(p)) ELSE 0

\* The streams whose turn is over.
Seen(p) == {s \in Streams : s \notin left[p] /\ ~ (pc[p] \in Streaming /\ s = on[p])}

AllGapless == \A s \in Streams : Gapless(s)

Counters(p) ==
  /\ report[p].applied \in Nat /\ report[p].failed \in Nat /\ report[p].skipped \in Nat
  /\ ghost[p].due \in Nat

\* A call begins with nothing counted.
Fresh(p) ==
  pc[p] \in {"down", "idle"} =>
    report[p].applied = 0 /\ report[p].failed = 0 /\ report[p].skipped = 0 /\ ghost[p].due = 0

AtStream(p) == pc[p] \in Streaming => head[p] <= LastOf(log[on[p]]) /\ on[p] \notin left[p]

\* The batch in hand has rows, unless some were taken away.
Present(p) == pc[p] \in {"state", "sink"} /\ ghost[p].steady => todo[p] \subseteq log[on[p]]

\* What was due is counted, or still to come.
Balanced(p) ==
  pc[p] \in Calling /\ ghost[p].steady /\ ~ghost[p].over /\ AllGapless =>
    report[p].applied + report[p].failed + report[p].skipped + Pending(p) = ghost[p].due

\* Too few are skipped for the counter to wrap.
FewSkipped(p) ==
  pc[p] \in Calling /\ ~ghost[p].over => report[p].skipped <= Cardinality(Pairs(log, Seen(p)))

CountSound(p) ==
  Counters(p) /\ Fresh(p) /\ AtStream(p) /\ Present(p) /\ Balanced(p) /\ FewSkipped(p)

\* The inductive invariant, beside StoreInv.
CountInv ==
  /\ IsFiniteSet(Pairs(log, Streams)) /\ Cardinality(Pairs(log, Streams)) <= MaxEvents
  /\ \A p \in Openers : CountSound(p)

Counting == Stepping /\ CountInv

LEMMA BCardinalityIs == ASSUME NEW S PROVE B!Cardinality(S) = Cardinality(S)
BY DEF B!Cardinality, Cardinality

LEMMA WrapIs ==
  Wrap \in Nat /\ MaxEvents \in Nat /\ Wrap > 2 * MaxEvents
BY OpenStoreAssumption DEF B!BackfillConstants

\* One more stream has as many coordinates more.
LEMMA PairsOfOneMore ==
  ASSUME NEW rows, NEW T, NEW s, s \notin T, LastOf(rows[s]) \in Nat, IsFiniteSet(Pairs(rows, T))
  PROVE  /\ IsFiniteSet(Pairs(rows, T \cup {s}))
         /\ Cardinality(Pairs(rows, T)) \in Nat
         /\ Cardinality(Pairs(rows, T \cup {s})) = Cardinality(Pairs(rows, T)) + LastOf(rows[s])
<1> DEFINE L == LastOf(rows[s])
           R == {s} \X (1 .. L)
           f == [k \in 1 .. L |-> <<s, k>>]
<1>1. IsFiniteSet(R) /\ Cardinality(R) = L
  <2>1. IsFiniteSet(1 .. L) /\ Cardinality(1 .. L) = L
    BY FS_Interval
  <2>2. f \in Bijection(1 .. L, R)
    <3>1. f \in [1 .. L -> R] /\ \A j, k \in 1 .. L : f[j] = f[k] => j = k
      OBVIOUS
    <3>2. \A r \in R : \E k \in 1 .. L : f[k] = r
      OBVIOUS
    <3> QED
      BY <3>1, <3>2, Fun_IsBij
  <2>3. ExistsBijection(1 .. L, R)
    BY <2>2 DEF ExistsBijection
  <2> QED
    BY <2>1, <2>3, FS_Bijection
<1>2. Pairs(rows, T \cup {s}) = Pairs(rows, T) \cup R
  BY DEF Pairs
<1>3. Pairs(rows, T) \cap R = {}
  BY DEF Pairs
<1>4. Cardinality({}) = 0 /\ Cardinality(Pairs(rows, T)) \in Nat
  BY FS_EmptySet, FS_CardinalityType
<1> HIDE DEF R
<1>5. /\ IsFiniteSet(Pairs(rows, T) \cup R)
      /\ Cardinality(Pairs(rows, T) \cup R)
           = Cardinality(Pairs(rows, T)) + Cardinality(R) - Cardinality(Pairs(rows, T) \cap R)
  BY <1>1, FS_Union
<1>6. Cardinality(Pairs(rows, T) \cap R) = 0
  BY <1>3, <1>4
<1>7. Cardinality(Pairs(rows, T) \cup R) = Cardinality(Pairs(rows, T)) + LastOf(rows[s])
  BY <1>1, <1>4, <1>5, <1>6
<1> QED
  BY <1>2, <1>4, <1>5, <1>7

\* Some of the streams, before they grew, have no more coordinates.
LEMMA PairsGrow ==
  ASSUME NEW rows, NEW later, NEW T, NEW U, T \subseteq U, IsFiniteSet(Pairs(later, U)),
         \A s \in T : LastOf(rows[s]) \in Nat /\ LastOf(later[s]) \in Nat /\
                      LastOf(rows[s]) <= LastOf(later[s])
  PROVE  /\ IsFiniteSet(Pairs(rows, T)) /\ Cardinality(Pairs(rows, T)) \in Nat
         /\ Cardinality(Pairs(later, U)) \in Nat
         /\ Cardinality(Pairs(rows, T)) <= Cardinality(Pairs(later, U))
<1>1. Pairs(rows, T) \subseteq Pairs(later, U)
  <2> SUFFICES ASSUME NEW s \in T, NEW k \in 1 .. LastOf(rows[s])
               PROVE  <<s, k>> \in Pairs(later, U)
    BY DEF Pairs
  <2>1. k \in 1 .. LastOf(later[s]) /\ s \in U
    OBVIOUS
  <2> QED
    BY <2>1 DEF Pairs
<1> QED
  BY <1>1, FS_Subset, FS_CardinalityType

\* What a stream counts for is what it counted for, if nothing of it changed.
LEMMA CountsBeside ==
  ASSUME NEW p \in Openers, CountSound(p), log' = log, pc'[p] = pc[p], left'[p] = left[p],
         on'[p] = on[p], head'[p] = head[p], cursor'[p] = cursor[p], todo'[p] = todo[p],
         report'[p] = report[p], ghost'[p] = ghost[p]
  PROVE  CountSound(p)'
<1>1. Seen(p)' = Seen(p) /\ Pending(p)' = Pending(p) /\ AllGapless' = AllGapless
  BY DEF Seen, Pending, Due, AllGapless, Gapless
<1> QED
  BY <1>1 DEF CountSound, Counters, Fresh, AtStream, Present, Balanced, FewSkipped

\* A step of one store that leaves the rows alone: it has to keep its own.
LEMMA OneCounts ==
  ASSUME Counting, NEW o \in Openers, log' = log, CountSound(o)',
         \A p \in Openers \ {o} :
           /\ pc'[p] = pc[p] /\ left'[p] = left[p] /\ on'[p] = on[p] /\ head'[p] = head[p]
           /\ cursor'[p] = cursor[p] /\ todo'[p] = todo[p]
           /\ report'[p] = report[p] /\ ghost'[p] = ghost[p]
  PROVE  CountInv'
<1>1. ASSUME NEW p \in Openers \ {o} PROVE CountSound(p)'
  BY CountsBeside DEF Counting, CountInv
<1> QED
  BY <1>1 DEF Counting, CountInv

\* The call is at the same stream as before.
LEMMA SameStream ==
  ASSUME Counting, NEW o \in Openers, log' = log, pc[o] \in Streaming, pc'[o] \in Streaming,
         left'[o] = left[o], on'[o] = on[o], head'[o] = head[o], Counters(o)', Present(o)',
         ghost'[o].over = ghost[o].over, ghost'[o].steady = ghost[o].steady,
         report'[o].skipped = report[o].skipped,
         ghost[o].steady /\ ~ghost[o].over /\ AllGapless =>
           report'[o].applied + report'[o].failed + report'[o].skipped + Pending(o)' = ghost'[o].due
  PROVE  CountSound(o)'
<1>1. AtStream(o) /\ FewSkipped(o)
  BY DEF Counting, CountInv, CountSound
<1>2. Seen(o)' = Seen(o) /\ AllGapless' = AllGapless
  BY DEF Seen, AllGapless, Gapless
<1>3. AtStream(o)' /\ FewSkipped(o)' /\ Fresh(o)'
  BY <1>1, <1>2 DEF AtStream, FewSkipped, Fresh, Calling, Streaming
<1>4. Balanced(o)'
  BY <1>2 DEF Balanced
<1> QED
  BY <1>3, <1>4 DEF CountSound

\* The turn of a stream is over: what is skipped of it is no more than it has.
LEMMA StreamOver ==
  ASSUME Counting, NEW o \in Openers, log' = log, pc[o] \in Streaming, pc'[o] = "next",
         left'[o] = left[o], Counters(o)', ghost'[o].steady = ghost[o].steady,
         ~ghost'[o].over => ~ghost[o].over /\ report'[o].skipped <= report[o].skipped + head[o],
         ghost[o].steady /\ ~ghost'[o].over /\ AllGapless =>
           report'[o].applied + report'[o].failed + report'[o].skipped = ghost'[o].due
  PROVE  CountSound(o)'
<1>1. /\ AtStream(o) /\ FewSkipped(o) /\ Counters(o) /\ IsFiniteSet(Pairs(log, Streams))
      /\ on[o] \in Streams /\ head[o] \in Nat
  BY DEF Counting, CountInv, CountSound, Stepping, StoreInv, StoreTypes, StoreSound, StreamSound
<1>2. Seen(o)' = Seen(o) \cup {on[o]} /\ on[o] \notin Seen(o) /\ Seen(o) \subseteq Streams
  BY <1>1 DEF Seen, AtStream, Streaming
<1>3. \A s \in Streams : LastOf(log[s]) \in Nat
  BY RowsAre DEF Counting, Stepping, StoreInv
<1>4. /\ Cardinality(Pairs(log, Seen(o))) \in Nat
      /\ Cardinality(Pairs(log, Seen(o)'))
           = Cardinality(Pairs(log, Seen(o))) + LastOf(log[on[o]])
  <2>1. IsFiniteSet(Pairs(log, Seen(o)))
    BY <1>1, <1>2, <1>3, PairsGrow
  <2> QED
    BY <1>1, <1>2, <1>3, <2>1, PairsOfOneMore
<1>5. FewSkipped(o)'
  <2> SUFFICES ASSUME ~ghost'[o].over
               PROVE  report'[o].skipped <= Cardinality(Pairs(log, Seen(o)'))
    BY DEF FewSkipped
  <2>1. report[o].skipped <= Cardinality(Pairs(log, Seen(o)))
    BY DEF Counting, CountInv, CountSound, FewSkipped, Calling
  <2>2. head[o] <= LastOf(log[on[o]])
    BY <1>1 DEF AtStream
  <2> QED
    BY <1>1, <1>3, <1>4, <2>1, <2>2 DEF Counters
<1>6. Balanced(o)'
  <2>1. Pending(o)' = 0 /\ AllGapless' = AllGapless
    BY DEF Pending, AllGapless, Gapless
  <2> QED
    BY <2>1 DEF Balanced, Counters
<1> QED
  BY <1>5, <1>6 DEF CountSound, AtStream, Present, Fresh, Streaming

\* Records of reports and ghosts, of which a step changes a count.
LEMMA CountOf ==
  ASSUME NEW r, IsReport(r), NEW x
  PROVE  /\ [r EXCEPT !.applied = x].applied = x /\ [r EXCEPT !.applied = x].failed = r.failed
         /\ [r EXCEPT !.applied = x].skipped = r.skipped
         /\ [r EXCEPT !.failed = x].failed = x /\ [r EXCEPT !.failed = x].applied = r.applied
         /\ [r EXCEPT !.failed = x].skipped = r.skipped
         /\ [r EXCEPT !.skipped = x].skipped = x /\ [r EXCEPT !.skipped = x].applied = r.applied
         /\ [r EXCEPT !.skipped = x].failed = r.failed
         /\ [r EXCEPT !.failures = x].applied = r.applied
         /\ [r EXCEPT !.failures = x].failed = r.failed
         /\ [r EXCEPT !.failures = x].skipped = r.skipped
BY DEF IsReport

LEMMA GhostOf ==
  ASSUME NEW g, IsGhost(g), NEW x
  PROVE  /\ [g EXCEPT !.due = x].due = x /\ [g EXCEPT !.due = x].steady = g.steady
         /\ [g EXCEPT !.due = x].over = g.over
         /\ [g EXCEPT !.over = x].over = x /\ [g EXCEPT !.over = x].steady = g.steady
         /\ [g EXCEPT !.over = x].due = g.due
         /\ [g EXCEPT !.steady = x].steady = x /\ [g EXCEPT !.steady = x].due = g.due
         /\ [g EXCEPT !.steady = x].over = g.over
         /\ [g EXCEPT !.owed = x].due = g.due /\ [g EXCEPT !.owed = x].steady = g.steady
         /\ [g EXCEPT !.owed = x].over = g.over
BY DEF IsGhost

\* What is due of a stream is finite, and a prefix of it is its least event.
LEMMA DueFinite ==
  ASSUME Counting, NEW s \in Streams, NEW c \in Nat, NEW h \in Nat
  PROVE  LET D == {n \in log[s] : c < n /\ n <= h} IN
           IsFiniteSet(D) /\ Cardinality(D) \in Nat /\ B!Cardinality(D) = Cardinality(D)
<1> DEFINE D == {n \in log[s] : c < n /\ n <= h}
<1>1. D \in SUBSET Nat /\ \A n \in D : n <= h
  BY DEF Counting, Stepping, MigrationInv, MigrationTypeOK
<1>2. IsFiniteSet(D)
  BY <1>1, FS_BoundedSetOfNaturals
<1> QED
  BY <1>2, FS_CardinalityType, BCardinalityIs

\* The event that a call is about to fold or to commit is its next one.
LEMMA NextEvent ==
  ASSUME Counting, NEW o \in Openers, pc[o] \in {"state", "sink"}
  PROVE  LET n == B!Least(todo[o]) IN
           /\ n \in todo[o] /\ n \in Nat /\ cursor[o] < n
           /\ \A m \in log[on[o]] : cursor[o] < m => n <= m
           /\ ghost[o].steady => n \in log[on[o]]
<1> DEFINE n == B!Least(todo[o])
<1>1. /\ BatchSound(o) /\ todo[o] \in SUBSET Nat /\ on[o] \in Streams /\ cursor[o] \in Nat
      /\ Present(o) /\ log[on[o]] \in SUBSET Nat
  BY RowsAre DEF Counting, CountInv, CountSound, Stepping, StoreInv, StoreTypes, StoreSound,
     StreamSound, Streaming
<1>2. \E m \in todo[o] : \A k \in todo[o] : m <= k
  BY <1>1, LeastExists DEF BatchSound
<1>3. n \in todo[o] /\ \A k \in todo[o] : n <= k
  BY <1>2 DEF B!Least
<1>4. n \in Nat /\ cursor[o] < n
  BY <1>1, <1>3 DEF BatchSound
<1> HIDE DEF n
<1>5. ASSUME NEW m \in log[on[o]], cursor[o] < m PROVE n <= m
  <2> SUFFICES ASSUME m < n PROVE FALSE
    BY <1>1, <1>4
  <2>1. m \in Nat /\ m <= n
    BY <1>1, <1>4
  <2>2. m <= cursor[o] \/ m \in todo[o]
    BY <1>1, <1>3, <2>1 DEF BatchSound
  <2> QED
    BY <1>1, <1>3, <1>4, <1>5, <2>1, <2>2
<1>6. ghost[o].steady => n \in log[on[o]]
  BY <1>1, <1>3 DEF Present
<1> QED
  BY <1>3, <1>4, <1>5, <1>6 DEF n

\* In a stream without gaps, everything from that event on to the head is due.
LEMMA DueIs ==
  ASSUME Counting, NEW o \in Openers, pc[o] \in {"state", "sink"}, ghost[o].steady, AllGapless,
         NEW n \in Nat, n = B!Least(todo[o])
  PROVE  Cardinality(Due(o)) = IF n <= head[o] THEN head[o] - n + 1 ELSE 0
<1>1. /\ on[o] \in Streams /\ head[o] \in Nat /\ head[o] <= LastOf(log[on[o]])
      /\ log[on[o]] \in SUBSET Nat /\ LastOf(log[on[o]]) \in Nat /\ Gapless(on[o])
      /\ cursor[o] \in Nat
  BY RowsAre DEF Counting, CountInv, CountSound, AtStream, Stepping, StoreInv, StoreTypes, StoreSound,
     StreamSound, Streaming, AllGapless
<1>2. n \in log[on[o]] /\ cursor[o] < n /\ \A m \in log[on[o]] : cursor[o] < m => n <= m
  BY NextEvent
<1>3. \A m \in n .. head[o] : m \in log[on[o]]
  <2> TAKE m \in n .. head[o]
  <2>1. m \in 1 .. LastOf(log[on[o]]) /\ \E k \in log[on[o]] : k <= m
    BY <1>1, <1>2
  <2> QED
    BY <1>1, <2>1 DEF Gapless
<1>4. Due(o) = n .. head[o]
  <2>1. \A m \in Due(o) : m \in n .. head[o]
    BY <1>1, <1>2 DEF Due
  <2>2. \A m \in n .. head[o] : m \in Due(o)
    BY <1>1, <1>2, <1>3 DEF Due
  <2> QED
    BY <2>1, <2>2
<1>5. Cardinality(n .. head[o]) = IF n > head[o] THEN 0 ELSE head[o] - n + 1
  BY <1>1, FS_Interval
<1> QED
  BY <1>1, <1>4, <1>5

-----------------------------------------------------------------------------
(* What a step of a call counts.                                           *)

LEMMA CountGetCheckpoint ==
  ASSUME Counting, NEW o \in Openers, B!GetCheckpoint(o)
  PROVE  CountInv'
<1> DEFINE s == on[o]
<1>1. /\ pc[o] = "checkpoint" /\ log' = log /\ left' = left /\ report' = report
  BY DEF B!GetCheckpoint, B!fileVars
<1>2. /\ StoreTypes /\ s \in Streams /\ Counters(o) /\ Balanced(o) /\ IsGhost(ghost[o])
      /\ head[o] \in Nat /\ StreamSound(o)
  BY <1>1 DEF Counting, CountInv, CountSound, Stepping, StoreInv, StoreTypes, StoreSound, StreamSound,
     Streaming
<1>3. ASSUME NEW c \in {0, B!Checkpoint(o, s)}, c < head[o], cursor' = [cursor EXCEPT ![o] = c],
             ghost' = [ghost EXCEPT ![o].due = ghost[o].due +
                         B!Cardinality({n \in log[s] : c < n /\ n <= head[o]})],
             pc' = [pc EXCEPT ![o] = "read"], UNCHANGED <<on, head, todo>>
      PROVE  CountInv'
  <2> DEFINE D == {n \in log[s] : c < n /\ n <= head[o]}
             g == [ghost[o] EXCEPT !.due = ghost[o].due + B!Cardinality(D)]
  <2>1. c \in Nat
    BY <1>2, CheckpointIs DEF Counting
  <2>2. Cardinality(D) \in Nat /\ B!Cardinality(D) = Cardinality(D)
    BY <1>2, <2>1, DueFinite
  <2>3. /\ g.due = ghost[o].due + Cardinality(D)
        /\ g.steady = ghost[o].steady /\ g.over = ghost[o].over
    BY <1>2, <2>2, GhostOf
  <2>4. ghost' = [ghost EXCEPT ![o] = g]
    BY <1>3
  <2> HIDE DEF g
  <2>5. /\ ghost'[o] = g /\ pc'[o] = "read" /\ cursor'[o] = c
        /\ \A p \in Openers \ {o} :
             ghost'[p] = ghost[p] /\ pc'[p] = pc[p] /\ cursor'[p] = cursor[p]
    BY <1>2, <1>3, <2>4 DEF StoreTypes
  <2>6. Pending(o) = 0 /\ Pending(o)' = Cardinality(D)
    BY <1>1, <1>3, <2>5 DEF Pending, Due
  <2>7. Counters(o)'
    BY <1>1, <1>2, <2>2, <2>3, <2>5 DEF Counters
  <2>8. ghost[o].steady /\ ~ghost[o].over /\ AllGapless =>
          report[o].applied + report[o].failed + report[o].skipped + Pending(o)' = ghost'[o].due
    <3> HIDE DEF D
    <3> QED
      BY <1>1, <1>2, <2>2, <2>3, <2>5, <2>6 DEF Balanced, Counters, Calling, Streaming
  <2>9. CountSound(o)'
    BY <1>1, <1>3, <2>3, <2>5, <2>7, <2>8, SameStream DEF Streaming, Present
  <2> QED
    BY <1>1, <1>3, <2>5, <2>9, OneCounts
<1>4. ASSUME pc' = [pc EXCEPT ![o] = "next"], B!LeaveStream(o), ghost' = ghost
      PROVE  CountInv'
  <2>1. pc'[o] = "next" /\ \A p \in Openers \ {o} : pc'[p] = pc[p]
    BY <1>2, <1>4 DEF StoreTypes
  <2>2. Counters(o)'
    BY <1>1, <1>2, <1>4 DEF Counters
  <2>3. ghost[o].steady /\ ~ghost[o].over /\ AllGapless =>
          report[o].applied + report[o].failed + report[o].skipped = ghost[o].due
    BY <1>1, <1>2 DEF Balanced, Pending, Counters, Calling, Streaming
  <2>4. report[o].skipped <= report[o].skipped + head[o]
    BY <1>2 DEF Counters
  <2>5. CountSound(o)'
    BY <1>1, <1>4, <2>1, <2>2, <2>3, <2>4, StreamOver DEF Streaming
  <2> QED
    BY <1>1, <1>2, <1>4, <2>1, <2>5, LeaveTypes, OneCounts
<1> QED
  BY <1>3, <1>4 DEF B!GetCheckpoint, B!Goto

\* The call is between two streams, or ends: nothing is pending.
LEMMA BetweenStreams ==
  ASSUME Counting, NEW o \in Openers, log' = log, pc[o] = "next",
         pc'[o] \in {"checkpoint", "returned"},
         report'[o] = report[o], ghost'[o] = ghost[o], Seen(o)' = Seen(o), AtStream(o)'
  PROVE  CountSound(o)'
<1>1. CountSound(o)
  BY DEF Counting, CountInv
<1>2. Pending(o)' = 0 /\ Pending(o) = 0 /\ AllGapless' = AllGapless
  BY DEF Pending, AllGapless, Gapless
<1> QED
  BY <1>1, <1>2
  DEF CountSound, Counters, Fresh, Present, Balanced, FewSkipped, Calling, Streaming

LEMMA CountNextStream ==
  ASSUME Counting, NEW o \in Openers, B!NextStream(o)
  PROVE  CountInv'
<1>1. PICK s \in left[o] :
        /\ left' = [left EXCEPT ![o] = left[o] \ {s}]
        /\ on' = [on EXCEPT ![o] = s]
        /\ head' = [head EXCEPT ![o] = LastOf(log[s])]
  BY BLastIs DEF B!NextStream
<1>2. /\ pc' = [pc EXCEPT ![o] = "checkpoint"] /\ pc[o] = "next"
      /\ UNCHANGED <<log, cursor, todo, report, ghost>>
  BY DEF B!NextStream, B!Goto
<1>3. StoreTypes /\ s \in Streams
  BY DEF Counting, Stepping, StoreInv, StoreTypes
<1>4. LastOf(log[s]) \in Nat
  BY <1>3, RowsAre DEF Counting, Stepping, StoreInv
<1>5. /\ pc'[o] = "checkpoint" /\ left'[o] = left[o] \ {s} /\ on'[o] = s
      /\ head'[o] = LastOf(log[s])
      /\ \A p \in Openers \ {o} :
           /\ pc'[p] = pc[p] /\ left'[p] = left[p] /\ on'[p] = on[p] /\ head'[p] = head[p]
  BY <1>1, <1>2, <1>3 DEF StoreTypes
<1>6. AtStream(o)'
  BY <1>2, <1>4, <1>5 DEF AtStream
<1>7. Seen(o)' = Seen(o)
  BY <1>2, <1>5 DEF Seen, Streaming
<1>8. CountSound(o)'
  BY <1>2, <1>5, <1>6, <1>7, BetweenStreams
<1> QED
  BY <1>2, <1>5, <1>8, OneCounts

LEMMA CountReadBatch ==
  ASSUME Counting, NEW o \in Openers, B!ReadBatch(o)
  PROVE  CountInv'
<1> DEFINE after == {n \in log[on[o]] : n > cursor[o]}
           batch == Few(after, Batch)
<1>1. /\ pc[o] = "read" /\ UNCHANGED <<log, left, report, ghost>>
      /\ IF batch = {}
         THEN pc' = [pc EXCEPT ![o] = "next"] /\ B!LeaveStream(o)
         ELSE /\ todo' = [todo EXCEPT ![o] = batch]
              /\ pc' = [pc EXCEPT ![o] = "state"]
              /\ UNCHANGED <<on, head, cursor>>
  BY BFewIs DEF B!ReadBatch, B!Goto, B!FromNext, B!fileVars, B!storeVars
<1>2. /\ StoreTypes /\ on[o] \in Streams /\ Counters(o) /\ Balanced(o)
      /\ head[o] \in Nat /\ cursor[o] \in Nat /\ log[on[o]] \in SUBSET Nat
  BY <1>1, RowsAre DEF Counting, CountInv, CountSound, Stepping, StoreInv, StoreTypes, StoreSound,
     StreamSound, Streaming
<1>3. Batch \in Nat \ {0}
  BY OpenStoreAssumption DEF B!BackfillConstants
<1>4. after \in SUBSET Nat /\ batch \subseteq after /\ after \subseteq log[on[o]]
  BY <1>2 DEF Few
<1>5. CASE batch = {}
  <2>1. pc' = [pc EXCEPT ![o] = "next"] /\ B!LeaveStream(o)
    BY <1>1, <1>5
  <2>2. after = {}
    <3>1. SUFFICES ASSUME after # {} PROVE FALSE
      OBVIOUS
    <3> HIDE DEF after
    <3>2. PICK l \in after : \A m \in after : l <= m
      BY <1>4, <3>1, LeastExists
    <3> QED
      BY <1>3, <1>4, <1>5, <3>2, FewOne
  <2>3. Due(o) = {}
    <3> SUFFICES ASSUME NEW n \in Due(o) PROVE FALSE
      OBVIOUS
    <3>1. n \in log[on[o]] /\ cursor[o] < n /\ n \in Nat
      BY <1>2 DEF Due
    <3> QED
      BY <1>2, <2>2, <3>1
  <2>4. Pending(o) = 0
    BY <1>1, <2>3, FS_EmptySet DEF Pending
  <2>5. pc'[o] = "next" /\ \A p \in Openers \ {o} : pc'[p] = pc[p]
    BY <1>2, <2>1 DEF StoreTypes
  <2>6. ghost[o].steady /\ ~ghost[o].over /\ AllGapless =>
          report[o].applied + report[o].failed + report[o].skipped = ghost[o].due
    BY <1>1, <1>2, <2>4 DEF Balanced, Counters, Calling, Streaming
  <2>7. Counters(o)' /\ report[o].skipped <= report[o].skipped + head[o]
    BY <1>1, <1>2 DEF Counters
  <2>8. CountSound(o)'
    BY <1>1, <2>5, <2>6, <2>7, StreamOver DEF Streaming
  <2> QED
    BY <1>1, <1>2, <2>1, <2>5, <2>8, LeaveTypes, OneCounts
<1>6. CASE batch # {}
  <2>1. /\ todo' = [todo EXCEPT ![o] = batch] /\ pc' = [pc EXCEPT ![o] = "state"]
        /\ UNCHANGED <<on, head, cursor>>
    BY <1>1, <1>6
  <2>2. batch \subseteq log[on[o]]
    BY <1>4
  <2> HIDE DEF batch
  <2>3. /\ pc'[o] = "state" /\ todo'[o] = batch
        /\ \A p \in Openers \ {o} : pc'[p] = pc[p] /\ todo'[p] = todo[p]
    BY <1>2, <2>1 DEF StoreTypes
  <2>4. Pending(o)' = Pending(o)
    BY <1>1, <2>1, <2>3 DEF Pending, Due
  <2>5. Counters(o)' /\ Present(o)'
    BY <1>1, <1>2, <2>1, <2>2, <2>3 DEF Counters, Present
  <2>6. ghost[o].steady /\ ~ghost[o].over /\ AllGapless =>
          report[o].applied + report[o].failed + report[o].skipped + Pending(o)' = ghost[o].due
    BY <1>1, <1>2, <2>4 DEF Balanced, Calling, Streaming
  <2>7. CountSound(o)'
    BY <1>1, <2>1, <2>3, <2>5, <2>6, SameStream DEF Streaming
  <2> QED
    BY <1>1, <2>1, <2>3, <2>7, OneCounts
<1> QED
  BY <1>5, <1>6

\* Remainders, of which the counters are made.
LEMMA ModuloIs ==
  /\ \A a \in 0 .. (Wrap - 1) : a % Wrap = a /\ (a + Wrap) % Wrap = a
  /\ \A a \in Int : a % Wrap \in Nat
BY WrapIs, SMT

\* What is skipped, and what of this stream may be, is no more than there is.
LEMMA SkippedBounded ==
  ASSUME Counting, NEW o \in Openers, pc[o] \in Streaming
  PROVE  /\ head[o] <= MaxEvents
         /\ ~ghost[o].over => report[o].skipped + head[o] <= MaxEvents
<1>1. /\ AtStream(o) /\ FewSkipped(o) /\ Counters(o)
      /\ IsFiniteSet(Pairs(log, Streams)) /\ Cardinality(Pairs(log, Streams)) <= MaxEvents
      /\ on[o] \in Streams /\ head[o] \in Nat
      /\ \A s \in Streams : LastOf(log[s]) \in Nat
  BY RowsAre DEF Counting, CountInv, CountSound, Stepping, StoreInv, StoreTypes, StoreSound, StreamSound
<1> DEFINE T == Seen(o) \cup {on[o]}
<1>2. on[o] \notin Seen(o) /\ Seen(o) \subseteq Streams /\ T \subseteq Streams
  BY <1>1 DEF Seen
<1>3. IsFiniteSet(Pairs(log, Seen(o)))
  BY <1>1, <1>2, PairsGrow
<1>4. /\ Cardinality(Pairs(log, Seen(o))) \in Nat
      /\ Cardinality(Pairs(log, T)) = Cardinality(Pairs(log, Seen(o))) + LastOf(log[on[o]])
  BY <1>1, <1>2, <1>3, PairsOfOneMore
<1>5. /\ Cardinality(Pairs(log, T)) <= Cardinality(Pairs(log, Streams))
      /\ Cardinality(Pairs(log, Streams)) \in Nat
  BY <1>1, <1>2, PairsGrow
<1> HIDE DEF T
<1>6. head[o] <= LastOf(log[on[o]]) /\ LastOf(log[on[o]]) \in Nat
  BY <1>1 DEF AtStream
<1>7. head[o] <= MaxEvents
  BY <1>1, <1>4, <1>5, <1>6, WrapIs
<1>8. ASSUME ~ghost[o].over PROVE report[o].skipped + head[o] <= MaxEvents
  <2>1. report[o].skipped <= Cardinality(Pairs(log, Seen(o))) /\ report[o].skipped \in Nat
    BY <1>1, <1>8 DEF FewSkipped, Counters, Calling
  <2> QED
    BY <1>1, <1>4, <1>5, <1>6, <2>1, WrapIs
<1> QED
  BY <1>7, <1>8

\* head.0 - ev.seq.0, added to what is skipped already, does not wrap.
LEMMA SkippedIs ==
  ASSUME Counting, NEW o \in Openers, pc[o] \in Streaming, NEW n \in Nat
  PROVE  LET k == (report[o].skipped + B!Rest(o, n)) % Wrap IN
           /\ k \in Nat
           /\ ~ghost[o].over /\ n <= head[o] => k = report[o].skipped + (head[o] - n)
<1>1. head[o] \in Nat /\ report[o].skipped \in Nat
  BY DEF Counting, CountInv, CountSound, Counters, Stepping, StoreInv, StoreTypes
<1>2. B!Rest(o, n) \in Nat
  <2>1. head[o] + Wrap - n \in Int
    BY <1>1, WrapIs
  <2> QED
    BY <2>1, ModuloIs DEF B!Rest
<1>3. report[o].skipped + B!Rest(o, n) \in Int
  BY <1>1, <1>2
<1>4. ASSUME ~ghost[o].over, n <= head[o]
      PROVE  (report[o].skipped + B!Rest(o, n)) % Wrap = report[o].skipped + (head[o] - n)
  <2>1. head[o] <= MaxEvents /\ report[o].skipped + head[o] <= MaxEvents
    BY <1>4, SkippedBounded
  <2>2. /\ head[o] - n \in 0 .. (Wrap - 1) /\ head[o] + Wrap - n = (head[o] - n) + Wrap
        /\ report[o].skipped + (head[o] - n) \in 0 .. (Wrap - 1)
    BY <1>1, <1>4, <2>1, WrapIs
  <2>3. B!Rest(o, n) = head[o] - n
    BY <2>2, ModuloIs DEF B!Rest
  <2> QED
    BY <2>2, <2>3, ModuloIs
<1> QED
  BY <1>3, <1>4, ModuloIs

\* The counts of a report of a stream that is given up.
LEMMA GiveUpCounts ==
  ASSUME StoreTypes, NEW o \in Openers, NEW n, B!GiveUpStream(o, n)
  PROVE  /\ \A p \in Openers \ {o} : report'[p] = report[p] /\ ghost'[p] = ghost[p]
         /\ report'[o].applied = report[o].applied /\ report'[o].failed = report[o].failed + 1
         /\ report'[o].skipped = (report[o].skipped + B!Rest(o, n)) % Wrap
         /\ ghost'[o].due = ghost[o].due /\ ghost'[o].steady = ghost[o].steady
         /\ ghost'[o].over = (ghost[o].over \/ n > head[o])
<1> DEFINE a == [report[o] EXCEPT !.failed = report[o].failed + 1]
           b == [a EXCEPT !.failures = report[o].failures \cup {on[o]}]
           c == [b EXCEPT !.skipped = (report[o].skipped + B!Rest(o, n)) % Wrap]
           g == [ghost[o] EXCEPT !.over = ghost[o].over \/ n > head[o]]
<1>1. /\ IsReport(report[o]) /\ report = [p \in Openers |-> report[p]]
      /\ IsGhost(ghost[o]) /\ ghost = [p \in Openers |-> ghost[p]]
  BY DEF StoreTypes
<1>2. report' = [report EXCEPT ![o] = c]
  <2>1. report' = [report EXCEPT ![o].failed = report[o].failed + 1,
                                 ![o].failures = report[o].failures \cup {on[o]},
                                 ![o].skipped = (report[o].skipped + B!Rest(o, n)) % Wrap]
    BY DEF B!GiveUpStream
  <2> QED
    BY <1>1, <2>1
<1>3. ghost' = [ghost EXCEPT ![o] = g]
  BY DEF B!GiveUpStream
<1>4. /\ IsReport(a) /\ a.failed = report[o].failed + 1 /\ a.applied = report[o].applied
      /\ a.skipped = report[o].skipped
  <2>1. IsReport(a)
    BY <1>1, ReportUpdates
  <2> QED
    BY <1>1, <2>1, CountOf
<1>5. /\ IsReport(b) /\ b.failed = report[o].failed + 1 /\ b.applied = report[o].applied
  <2> HIDE DEF a
  <2>1. IsReport(b)
    BY <1>4, ReportUpdates
  <2>2. b.failed = a.failed /\ b.applied = a.applied
    BY <1>4, CountOf
  <2> QED
    BY <1>4, <2>1, <2>2
<1>6. /\ c.failed = report[o].failed + 1 /\ c.applied = report[o].applied
      /\ c.skipped = (report[o].skipped + B!Rest(o, n)) % Wrap
  <2> HIDE DEF b
  <2> QED
    BY <1>5, CountOf
<1>7. g.due = ghost[o].due /\ g.steady = ghost[o].steady /\ g.over = (ghost[o].over \/ n > head[o])
  BY <1>1, GhostOf
<1> HIDE DEF c, g
<1>8. report'[o] = c /\ ghost'[o] = g
  BY <1>1, <1>2, <1>3
<1>9. \A p \in Openers \ {o} : report'[p] = report[p] /\ ghost'[p] = ghost[p]
  BY <1>1, <1>2, <1>3
<1> QED
  BY <1>6, <1>7, <1>8, <1>9

\* One event fails, and those after it up to the head are skipped.
LEMMA CountGiveUp ==
  ASSUME Counting, NEW o \in Openers, pc[o] \in {"state", "sink"}, log' = log,
         NEW n \in Nat, n = B!Least(todo[o]), B!GiveUpStream(o, n)
  PROVE  CountInv'
<1>1. StoreTypes /\ Counters(o) /\ Balanced(o) /\ head[o] \in Nat
  BY DEF Counting, CountInv, CountSound, Stepping, StoreInv, StoreTypes
<1>2. pc' = [pc EXCEPT ![o] = "next"] /\ B!LeaveStream(o) /\ left' = left
  BY DEF B!GiveUpStream, B!Goto
<1>3. pc'[o] = "next" /\ \A p \in Openers \ {o} : pc'[p] = pc[p]
  BY <1>1, <1>2 DEF StoreTypes
<1> DEFINE k == (report[o].skipped + B!Rest(o, n)) % Wrap
<1>4. /\ \A p \in Openers \ {o} : report'[p] = report[p] /\ ghost'[p] = ghost[p]
      /\ report'[o].applied = report[o].applied /\ report'[o].failed = report[o].failed + 1
      /\ report'[o].skipped = k
      /\ ghost'[o].due = ghost[o].due /\ ghost'[o].steady = ghost[o].steady
      /\ ghost'[o].over = (ghost[o].over \/ n > head[o])
  BY <1>1, GiveUpCounts
<1>5. /\ k \in Nat
      /\ ~ghost[o].over /\ n <= head[o] => k = report[o].skipped + (head[o] - n)
  BY SkippedIs DEF Streaming
<1> HIDE DEF k
<1>6. Counters(o)'
  BY <1>1, <1>4, <1>5 DEF Counters
<1>7. ~ghost'[o].over => ~ghost[o].over /\ n <= head[o]
  <2>1. ~ghost'[o].over => ~ghost[o].over /\ ~ (n > head[o])
    BY <1>4, Zenon
  <2> QED
    BY <1>1, <2>1
<1>8. ~ghost'[o].over => ~ghost[o].over /\ report'[o].skipped <= report[o].skipped + head[o]
  BY <1>1, <1>4, <1>5, <1>7 DEF Counters
<1>9. ASSUME ghost[o].steady, ~ghost'[o].over, AllGapless
      PROVE  report'[o].applied + report'[o].failed + report'[o].skipped = ghost'[o].due
  <2>1. Pending(o) = head[o] - n + 1
    BY <1>7, <1>9, DueIs DEF Pending
  <2>2. report[o].applied + report[o].failed + report[o].skipped + Pending(o) = ghost[o].due
    BY <1>7, <1>9, <1>1 DEF Balanced, Calling, Streaming
  <2> QED
    BY <1>1, <1>4, <1>5, <1>7, <1>9, <2>1, <2>2 DEF Counters
<1>10. CountSound(o)'
  BY <1>2, <1>3, <1>4, <1>6, <1>8, <1>9, StreamOver DEF Streaming
<1> QED
  BY <1>1, <1>2, <1>3, <1>4, <1>10, LeaveTypes, OneCounts

LEMMA CountTakeState ==
  ASSUME Counting, NEW o \in Openers, B!TakeState(o)
  PROVE  CountInv'
<1> DEFINE n == B!Least(todo[o])
<1>1. pc[o] = "state" /\ log' = log /\ (B!Fold(o, n) \/ B!Bootstrap(o, n))
  BY DEF B!TakeState, B!fileVars
<1>2. StoreTypes /\ Counters(o) /\ Balanced(o) /\ Present(o) /\ n \in Nat
  BY <1>1, NextEvent DEF Counting, CountInv, CountSound, Stepping, StoreInv
<1> HIDE DEF n
<1>3. CASE B!Fold(o, n) /\ n \in bad[on[o]]
  <2>1. B!GiveUpStream(o, n)
    BY <1>3 DEF B!Fold
  <2> QED
    BY <1>1, <1>2, <2>1, CountGiveUp DEF n
<1>4. ASSUME pc' = [pc EXCEPT ![o] = "sink"], UNCHANGED <<on, head, cursor, todo, left, report, ghost>>
      PROVE  CountInv'
  <2>1. pc'[o] = "sink" /\ \A p \in Openers \ {o} : pc'[p] = pc[p]
    BY <1>2, <1>4 DEF StoreTypes
  <2>2. Pending(o)' = Pending(o)
    BY <1>1, <1>4, <2>1 DEF Pending, Due
  <2>3. Counters(o)' /\ Present(o)'
    BY <1>1, <1>2, <1>4, <2>1 DEF Counters, Present
  <2>4. ghost[o].steady /\ ~ghost[o].over /\ AllGapless =>
          report[o].applied + report[o].failed + report[o].skipped + Pending(o)' = ghost[o].due
    BY <1>1, <1>2, <2>2 DEF Balanced, Calling, Streaming
  <2>5. CountSound(o)'
    BY <1>1, <1>4, <2>1, <2>3, <2>4, SameStream DEF Streaming
  <2> QED
    BY <1>1, <1>4, <2>1, <2>5, OneCounts
<1>5. ASSUME pc' = [pc EXCEPT ![o] = "failed"], B!LeaveStream(o), UNCHANGED <<left, report, ghost>>
      PROVE  CountInv'
  <2>1. pc'[o] = "failed" /\ \A p \in Openers \ {o} : pc'[p] = pc[p]
    BY <1>2, <1>5 DEF StoreTypes
  <2>2. CountSound(o)'
    BY <1>2, <1>5, <2>1
    DEF CountSound, Counters, Fresh, AtStream, Present, Balanced, FewSkipped, Calling, Streaming
  <2> QED
    BY <1>1, <1>2, <1>5, <2>1, <2>2, LeaveTypes, OneCounts
<1>6. CASE B!Fold(o, n) /\ n \notin bad[on[o]]
  BY <1>4, <1>6 DEF B!Fold, B!GiveUpStream, B!Goto, B!streamVars
<1>7. CASE B!Bootstrap(o, n)
  BY <1>4, <1>5, <1>7 DEF B!Bootstrap, B!Goto
<1> QED
  BY <1>1, <1>3, <1>6, <1>7

LEMMA CountRefuse ==
  ASSUME Counting, NEW o \in Openers, B!Refuse(o)
  PROVE  CountInv'
<1>1. pc[o] = "sink" /\ log' = log /\ B!GiveUpStream(o, B!Least(todo[o]))
  BY DEF B!Refuse
<1> QED
  BY <1>1, NextEvent, CountGiveUp

\* What is due behind the event that was taken.
LEMMA DueBehind ==
  ASSUME Counting, NEW o \in Openers, pc[o] \in {"state", "sink"}, ghost[o].steady,
         NEW n \in Nat, n = B!Least(todo[o])
  PROVE  LET D == {m \in log[on[o]] : n < m /\ m <= head[o]} IN
           /\ Cardinality(D) \in Nat
           /\ Cardinality(Due(o)) = Cardinality(D) + IF n > head[o] THEN 0 ELSE 1
           /\ n >= head[o] => Cardinality(D) = 0
<1> DEFINE D == {m \in log[on[o]] : n < m /\ m <= head[o]}
<1>1. on[o] \in Streams /\ head[o] \in Nat /\ cursor[o] \in Nat /\ log[on[o]] \in SUBSET Nat
  BY RowsAre DEF Counting, Stepping, StoreInv, StoreTypes, StoreSound, StreamSound, Streaming
<1>2. n \in log[on[o]] /\ cursor[o] < n /\ \A m \in log[on[o]] : cursor[o] < m => n <= m
  BY NextEvent
<1>3. IsFiniteSet(D) /\ Cardinality(D) \in Nat
  BY <1>1, DueFinite
<1>4. n > head[o] => Due(o) = {} /\ D = {}
  BY <1>1, <1>2 DEF Due
<1>5. n <= head[o] => Due(o) = D \cup {n} /\ n \notin D
  <2>1. \A m \in log[on[o]] : m \in Nat /\ (cursor[o] < m <=> (m = n \/ n < m))
    BY <1>1, <1>2
  <2> QED
    BY <1>1, <1>2, <2>1 DEF Due
<1>6. n >= head[o] => D = {}
  BY <1>1
<1> HIDE DEF D
<1>7. n <= head[o] => Cardinality(Due(o)) = Cardinality(D) + 1
  <2>1. Cardinality(D \cup {n}) = IF n \in D THEN Cardinality(D) ELSE Cardinality(D) + 1
    BY <1>3, FS_AddElement
  <2> QED
    BY <1>5, <2>1
<1>8. Cardinality({}) = 0
  BY FS_EmptySet
<1>9. Cardinality(Due(o)) = Cardinality(D) + IF n > head[o] THEN 0 ELSE 1
  BY <1>1, <1>4, <1>7, <1>8
<1> QED
  BY <1>3, <1>6, <1>8, <1>9 DEF D

\* One event is applied.
LEMMA CountApply ==
  ASSUME Counting, NEW o \in Openers, B!Apply(o)
  PROVE  CountInv'
<1> DEFINE n == B!Least(todo[o])
           r == [report[o] EXCEPT !.applied = report[o].applied + 1]
           x == IF n > head[o] THEN 1 ELSE 0
           g == [ghost[o] EXCEPT !.due = ghost[o].due + x]
           D == {m \in log[on[o]] : n < m /\ m <= head[o]}
<1>1. /\ pc[o] = "sink" /\ log' = log /\ left' = left
      /\ report' = [report EXCEPT ![o] = r] /\ ghost' = [ghost EXCEPT ![o] = g]
      /\ B!GoOn(o, n)
  BY DEF B!Apply
<1>2. /\ StoreTypes /\ Counters(o) /\ Balanced(o) /\ Present(o) /\ n \in Nat
      /\ IsReport(report[o]) /\ IsGhost(ghost[o]) /\ head[o] \in Nat
  BY <1>1, NextEvent DEF Counting, CountInv, CountSound, Stepping, StoreInv, StoreTypes
<1>3. ghost[o].steady =>
        /\ Cardinality(D) \in Nat
        /\ Cardinality(Due(o)) = Cardinality(D) + IF n > head[o] THEN 0 ELSE 1
        /\ n >= head[o] => Cardinality(D) = 0
  BY <1>1, <1>2, DueBehind
<1>4. r.applied = report[o].applied + 1 /\ r.failed = report[o].failed /\ r.skipped = report[o].skipped
  BY <1>2, CountOf
<1>5. g.due = ghost[o].due + x /\ g.steady = ghost[o].steady /\ g.over = ghost[o].over
  BY <1>2, GhostOf
<1> HIDE DEF n, r, g
<1>6. /\ report'[o] = r /\ ghost'[o] = g
      /\ \A p \in Openers \ {o} : report'[p] = report[p] /\ ghost'[p] = ghost[p]
  BY <1>1, <1>2 DEF StoreTypes
<1>7. Counters(o)'
  BY <1>2, <1>4, <1>5, <1>6 DEF Counters
<1>8. ASSUME ghost[o].steady, ~ghost[o].over, AllGapless
      PROVE  report'[o].applied + report'[o].failed + report'[o].skipped + Cardinality(D)
               = ghost'[o].due
  <2>1. Pending(o) = Cardinality(Due(o))
    BY <1>1 DEF Pending
  <2>2. report[o].applied + report[o].failed + report[o].skipped + Cardinality(Due(o)) = ghost[o].due
    BY <1>1, <1>2, <1>8, <2>1 DEF Balanced, Calling, Streaming
  <2> HIDE DEF D
  <2> QED
    BY <1>2, <1>3, <1>4, <1>5, <1>6, <1>8, <2>2 DEF Counters
<1>9. ASSUME todo' = [todo EXCEPT ![o] = todo[o] \ {n}], cursor' = [cursor EXCEPT ![o] = n],
             pc' = [pc EXCEPT ![o] = IF todo[o] # {n} THEN "state" ELSE "read"],
             UNCHANGED <<on, head>>
      PROVE  CountInv'
  <2>1. /\ pc'[o] \in {"state", "read"} /\ todo'[o] = todo[o] \ {n} /\ cursor'[o] = n
        /\ \A p \in Openers \ {o} : pc'[p] = pc[p] /\ todo'[p] = todo[p] /\ cursor'[p] = cursor[p]
    BY <1>2, <1>9 DEF StoreTypes
  <2>2. Pending(o)' = Cardinality(D)
    BY <1>1, <1>9, <2>1 DEF Pending, Due
  <2>3. Present(o)'
    BY <1>1, <1>2, <1>5, <1>6, <1>9, <2>1 DEF Present
  <2>4. CountSound(o)'
    <3> HIDE DEF D
    <3> QED
      BY <1>1, <1>4, <1>5, <1>6, <1>7, <1>8, <1>9, <2>1, <2>2, <2>3, SameStream DEF Streaming
  <2> QED
    BY <1>1, <1>6, <1>9, <2>1, <2>4, OneCounts
<1>10. ASSUME n >= head[o], pc' = [pc EXCEPT ![o] = "next"], B!LeaveStream(o)
       PROVE  CountInv'
  <2>1. pc'[o] = "next" /\ \A p \in Openers \ {o} : pc'[p] = pc[p]
    BY <1>2, <1>10 DEF StoreTypes
  <2>2. ASSUME ghost[o].steady, ~ghost'[o].over, AllGapless
        PROVE  report'[o].applied + report'[o].failed + report'[o].skipped = ghost'[o].due
    <3>1. Cardinality(D) = 0 /\ ~ghost[o].over
      BY <1>3, <1>5, <1>6, <1>10, <2>2
    <3>2. report'[o].applied + report'[o].failed + report'[o].skipped + Cardinality(D) = ghost'[o].due
      BY <1>8, <2>2, <3>1
    <3> HIDE DEF D
    <3> QED
      BY <1>7, <3>1, <3>2 DEF Counters
  <2>3. ~ghost'[o].over => ~ghost[o].over /\ report'[o].skipped <= report[o].skipped + head[o]
    BY <1>2, <1>4, <1>5, <1>6 DEF Counters
  <2>4. CountSound(o)'
    BY <1>1, <1>5, <1>6, <1>7, <2>1, <2>2, <2>3, StreamOver DEF Streaming
  <2> QED
    BY <1>1, <1>2, <1>6, <1>10, <2>1, <2>4, LeaveTypes, OneCounts
<1> QED
  BY <1>1, <1>9, <1>10 DEF B!GoOn, B!Goto

\* A call begins with what it had: nothing.
LEMMA CountBegin ==
  ASSUME Counting, NEW o \in Openers, pc[o] \in {"down", "idle"}, NEW rebuild, B!Begin(o, rebuild)
  PROVE  CountInv'
<1> DEFINE owed == [s \in Streams |-> B!LastOf(log[s])]
           g == [ghost[o] EXCEPT !.owed = owed]
<1>1. /\ left' = [left EXCEPT ![o] = {s \in Streams : log[s] # {}}]
      /\ ghost' = [ghost EXCEPT ![o] = g]
      /\ pc' = [pc EXCEPT ![o] = "next"]
      /\ UNCHANGED <<log, on, head, cursor, todo, report>>
  BY DEF B!Begin, B!Goto, B!fileVars, B!streamVars
<1>2. /\ StoreTypes /\ IsGhost(ghost[o]) /\ Counters(o)
      /\ report[o].applied = 0 /\ report[o].failed = 0 /\ report[o].skipped = 0 /\ ghost[o].due = 0
  BY DEF Counting, CountInv, CountSound, Fresh, Stepping, StoreInv, StoreTypes
<1>3. g.due = ghost[o].due
  BY <1>2, GhostOf
<1> HIDE DEF g, owed
<1>4. /\ pc'[o] = "next" /\ ghost'[o] = g
      /\ \A p \in Openers \ {o} : pc'[p] = pc[p] /\ left'[p] = left[p] /\ ghost'[p] = ghost[p]
  BY <1>1, <1>2 DEF StoreTypes
<1>5. Pending(o)' = 0
  BY <1>4 DEF Pending
<1>6. 0 <= Cardinality(Pairs(log, Seen(o)'))
  <2>1. /\ IsFiniteSet(Pairs(log, Streams)) /\ Seen(o)' \subseteq Streams
        /\ \A s \in Streams : LastOf(log[s]) \in Nat
    BY RowsAre DEF Counting, CountInv, Stepping, StoreInv, Seen
  <2>2. Cardinality(Pairs(log, Seen(o)')) \in Nat
    BY <2>1, PairsGrow
  <2> QED
    BY <2>2
<1>7. Counters(o)' /\ Fresh(o)' /\ AtStream(o)' /\ Present(o)'
  BY <1>1, <1>2, <1>3, <1>4 DEF Counters, Fresh, AtStream, Present, Streaming
<1>8. Balanced(o)' /\ FewSkipped(o)'
  BY <1>1, <1>2, <1>3, <1>4, <1>5, <1>6 DEF Balanced, FewSkipped
<1>9. CountSound(o)'
  BY <1>7, <1>8 DEF CountSound
<1> QED
  BY <1>1, <1>4, <1>9, OneCounts

LEMMA CountReturn ==
  ASSUME Counting, NEW o \in Openers, B!Return(o)
  PROVE  CountInv'
<1>1. /\ pc[o] = "next" /\ left[o] = {} /\ pc' = [pc EXCEPT ![o] = "returned"]
      /\ UNCHANGED <<log, left, on, head, cursor, todo, report, ghost>>
  BY DEF B!Return, B!Goto, B!fileVars, B!streamVars
<1>2. StoreTypes
  BY DEF Counting, Stepping, StoreInv
<1>3. pc'[o] = "returned" /\ \A p \in Openers \ {o} : pc'[p] = pc[p]
  BY <1>1, <1>2 DEF StoreTypes
<1>4. Seen(o)' = Seen(o) /\ AtStream(o)'
  BY <1>1, <1>3 DEF Seen, AtStream, Streaming
<1>5. CountSound(o)'
  BY <1>1, <1>3, <1>4, BetweenStreams
<1> QED
  BY <1>1, <1>3, <1>5, OneCounts

\* A call that is over leaves nothing behind, and nothing counted.
LEMMA CountForget ==
  ASSUME Counting, NEW o \in Openers, log' = log, B!Forget(o),
         pc' = [pc EXCEPT ![o] = "idle"] \/ pc' = [pc EXCEPT ![o] = "down"]
  PROVE  CountInv'
<1>1. StoreTypes
  BY DEF Counting, Stepping, StoreInv
<1>2. pc'[o] \in {"idle", "down"} /\ \A p \in Openers \ {o} : pc'[p] = pc[p]
  BY <1>1 DEF StoreTypes
<1>3. report'[o] = B!EmptyReport /\ ghost'[o] = B!NoGhost
  BY <1>1 DEF StoreTypes, B!Forget
<1>4. /\ B!EmptyReport.applied = 0 /\ B!EmptyReport.failed = 0 /\ B!EmptyReport.skipped = 0
      /\ B!NoGhost.due = 0
  BY DEF B!EmptyReport, B!NoGhost
<1>5. CountSound(o)'
  BY <1>2, <1>3, <1>4
  DEF CountSound, Counters, Fresh, AtStream, Present, Balanced, FewSkipped, Calling, Streaming
<1> QED
  BY <1>1, <1>2, <1>5, ForgetTypes, OneCounts

LEMMA CountWork ==
  ASSUME Counting, NEW o \in Openers, B!Work(o)
  PROVE  CountInv'
<1>1. CASE B!NextStream(o) \/ B!GetCheckpoint(o) \/ B!ReadBatch(o)
  BY <1>1, CountNextStream, CountGetCheckpoint, CountReadBatch
<1>2. CASE B!TakeState(o) \/ B!Apply(o) \/ B!Refuse(o)
  BY <1>2, CountTakeState, CountApply, CountRefuse
<1>3. CASE B!CatchUp(o) \/ B!Return(o)
  BY <1>3, CountBegin, CountReturn DEF B!CatchUp
<1>4. CASE B!Done(o)
  BY <1>4, CountForget DEF B!Done, B!Goto, B!fileVars
<1>5. CASE B!Dispatch(o) \/ \E s \in Streams : B!Prepare(o, s)
  <2>1. UNCHANGED <<log, pc, left, on, head, cursor, todo, report, ghost>>
    BY <1>5 DEF B!Dispatch, B!Prepare, B!fileVars, B!callVars, B!streamVars
  <2>2. CountSound(o)'
    BY <2>1, CountsBeside DEF Counting, CountInv
  <2> QED
    BY <2>1, <2>2, OneCounts
<1> QED
  BY <1>1, <1>2, <1>3, <1>4, <1>5 DEF B!Work

-----------------------------------------------------------------------------
(* What the rows do to the counts.                                         *)

\* An event more at the end is due to no call that has seen the head.
LEMMA CountsGrow ==
  ASSUME Counting, NEW p \in Openers, IsFiniteSet(Pairs(log', Streams)),
         pc'[p] = pc[p], left'[p] = left[p], on'[p] = on[p], head'[p] = head[p],
         cursor'[p] = cursor[p], todo'[p] = todo[p], report'[p] = report[p],
         ghost'[p].due = ghost[p].due, ghost'[p].over = ghost[p].over,
         pc[p] \in Calling /\ ghost'[p].steady =>
           /\ ghost[p].steady
           /\ AllGapless' => AllGapless
           /\ \A s \in Streams : log[s] \subseteq log'[s]
  PROVE  CountSound(p)'
<1>1. /\ CountSound(p) /\ StreamSound(p) /\ head[p] \in Nat /\ Seen(p) \subseteq Streams
      /\ \A s \in Streams : Grows(s)
  BY DEF Counting, CountInv, Stepping, StoreInv, StoreTypes, StoreSound, Seen
<1>2. \A s \in Streams : /\ LastOf(log[s]) \in Nat /\ LastOf(log'[s]) \in Nat
                         /\ LastOf(log[s]) <= LastOf(log'[s])
                         /\ log'[s] \in SUBSET Nat
  BY <1>1, RowsAre DEF Counting, Stepping, StoreInv, MigrationInv, MigrationTypeOK, RowsSound, Grows
<1>3. Counters(p)' /\ Fresh(p)'
  BY <1>1 DEF CountSound, Counters, Fresh
<1>4. AtStream(p)'
  <2> SUFFICES ASSUME pc[p] \in Streaming PROVE head[p] <= LastOf(log'[on[p]])
    BY <1>1 DEF CountSound, AtStream
  <2> QED
    BY <1>1, <1>2 DEF CountSound, AtStream, StreamSound
<1>5. Present(p)'
  <2> SUFFICES ASSUME pc[p] \in {"state", "sink"}, ghost'[p].steady
               PROVE  todo[p] \subseteq log'[on[p]]
    BY DEF Present
  <2>1. on[p] \in Streams /\ ghost[p].steady /\ log[on[p]] \subseteq log'[on[p]]
    BY <1>1 DEF StreamSound, Calling, Streaming
  <2> QED
    BY <1>1, <2>1 DEF CountSound, Present
<1>6. Balanced(p)'
  <2> SUFFICES ASSUME pc[p] \in Calling, ghost'[p].steady, ~ghost'[p].over, AllGapless'
               PROVE  report[p].applied + report[p].failed + report[p].skipped + Pending(p)'
                        = ghost[p].due
    BY DEF Balanced
  <2>1. report[p].applied + report[p].failed + report[p].skipped + Pending(p) = ghost[p].due
    BY <1>1 DEF CountSound, Balanced
  <2>2. Pending(p)' = Pending(p)
    <3>1. CASE pc[p] \in {"read", "state", "sink"}
      <4>1. /\ on[p] \in Streams /\ log[on[p]] \subseteq log'[on[p]]
            /\ head[p] <= LastOf(log[on[p]])
        BY <1>1, <3>1 DEF CountSound, AtStream, StreamSound, Streaming
      <4>2. \A n \in log'[on[p]] : n <= head[p] => n \in log[on[p]]
        BY <1>1, <1>2, <4>1 DEF Grows
      <4>3. Due(p)' = Due(p)
        BY <4>1, <4>2 DEF Due
      <4> QED
        BY <4>3 DEF Pending
    <3> QED
      BY <3>1 DEF Pending
  <2> QED
    BY <2>1, <2>2
<1>7. FewSkipped(p)'
  <2> SUFFICES ASSUME pc[p] \in Calling, ~ghost[p].over
               PROVE  report[p].skipped <= Cardinality(Pairs(log', Seen(p)))
    BY DEF FewSkipped, Seen
  <2>1. report[p].skipped <= Cardinality(Pairs(log, Seen(p))) /\ report[p].skipped \in Nat
    BY <1>1 DEF CountSound, FewSkipped, Counters
  <2>2. IsFiniteSet(Pairs(log', Seen(p)))
    BY <1>1, <1>2, PairsGrow
  <2>3. /\ Cardinality(Pairs(log, Seen(p))) \in Nat /\ Cardinality(Pairs(log', Seen(p))) \in Nat
        /\ Cardinality(Pairs(log, Seen(p))) <= Cardinality(Pairs(log', Seen(p)))
    BY <1>1, <1>2, <2>2, PairsGrow
  <2> QED
    BY <2>1, <2>3
<1> QED
  BY <1>3, <1>4, <1>5, <1>6, <1>7 DEF CountSound

\* An event is one coordinate more, and makes no gap.
LEMMA CountWrite ==
  ASSUME Counting, NEW o \in Openers, NEW s \in Streams, Write(o, s)
  PROVE  CountInv'
<1> DEFINE n == LastOf(log[s]) + 1
<1>1. /\ log' = [log EXCEPT ![s] = log[s] \cup {n}] /\ Written < MaxEvents
      /\ UNCHANGED <<pc, left, on, head, cursor, todo, report, ghost>>
  BY DEF Write, Append, B!Commit, B!callVars, B!streamVars
<1>2. /\ log \in [Streams -> SUBSET Nat] /\ LastOf(log[s]) \in Nat
      /\ \A t \in Streams : /\ LastOf(log[t]) \in Nat /\ 0 \notin log[t] /\ log[t] \in SUBSET Nat
                            /\ \A m \in log[t] : m <= LastOf(log[t])
      /\ IsFiniteSet(Pairs(log, Streams))
  BY RowsAre DEF Counting, CountInv, Stepping, StoreInv, MigrationInv, MigrationTypeOK
<1>3. LastOf(log'[s]) = n
  <2>1. /\ log[s] \cup {n} \in SUBSET Nat /\ n \in log[s] \cup {n}
        /\ \A m \in log[s] \cup {n} : m <= n
    BY <1>2
  <2> QED
    BY <1>1, <1>2, <2>1, LastIs
<1>4. Pairs(log', Streams) = Pairs(log, Streams) \cup {<<s, n>>}
  <2>1. \A t \in Streams : LastOf(log'[t]) = IF t = s THEN n ELSE LastOf(log[t])
    BY <1>1, <1>2, <1>3
  <2>2. \A t \in Streams : \A k : k \in 1 .. LastOf(log'[t]) <=>
                                    k \in 1 .. LastOf(log[t]) \/ (t = s /\ k = n)
    BY <1>2, <2>1
  <2> HIDE DEF n
  <2> QED
    BY <2>2 DEF Pairs
<1>5. /\ IsFiniteSet(Pairs(log', Streams))
      /\ Cardinality(Pairs(log', Streams)) <= MaxEvents
  <2>1. Cardinality(Pairs(log, Streams)) < MaxEvents /\ Cardinality(Pairs(log, Streams)) \in Nat
    BY <1>1, <1>2, FS_CardinalityType DEF Written, Pairs
  <2>2. /\ IsFiniteSet(Pairs(log, Streams) \cup {<<s, n>>})
        /\ Cardinality(Pairs(log, Streams) \cup {<<s, n>>}) \in Nat
        /\ Cardinality(Pairs(log, Streams) \cup {<<s, n>>}) <= Cardinality(Pairs(log, Streams)) + 1
    <3> DEFINE x == <<s, n>>
               P == Pairs(log, Streams)
    <3>1. /\ IsFiniteSet(P \cup {x})
          /\ Cardinality(P \cup {x}) = IF x \in P THEN Cardinality(P) ELSE Cardinality(P) + 1
      <4> HIDE DEF x, P
      <4>1. IsFiniteSet(P)
        BY <1>2 DEF P
      <4> QED
        BY <4>1, FS_AddElement
    <3> QED
      BY <2>1, <3>1
  <2> QED
    BY <1>4, <2>1, <2>2, WrapIs
<1>6. AllGapless' => AllGapless
  <2> SUFFICES ASSUME AllGapless', NEW t \in Streams PROVE Gapless(t)
    BY DEF AllGapless
  <2>1. /\ log'[t] = log[t] \cup (IF t = s THEN {n} ELSE {})
        /\ LastOf(log'[t]) = IF t = s THEN n ELSE LastOf(log[t])
    BY <1>1, <1>2, <1>3
  <2>2. log'[t] = {k \in 1 .. LastOf(log'[t]) : \E m \in log'[t] : m <= k}
    BY DEF AllGapless, Gapless
  <2>3. \A k \in log[t] : k \in 1 .. LastOf(log[t]) /\ \E m \in log[t] : m <= k
    BY <1>2
  <2>4. ASSUME NEW k \in 1 .. LastOf(log[t]), NEW m \in log[t], m <= k PROVE k \in log[t]
    <3>1. k \in 1 .. LastOf(log'[t]) /\ m \in log'[t]
      BY <1>2, <2>1, <2>4
    <3>2. k \in log'[t]
      BY <2>2, <2>4, <3>1
    <3> QED
      BY <1>2, <2>1, <2>4, <3>2
  <2> QED
    BY <2>3, <2>4 DEF Gapless
<1>7. \A t \in Streams : log[t] \subseteq log'[t]
  BY <1>1, <1>2
<1> HIDE DEF n
<1>8. ASSUME NEW p \in Openers PROVE CountSound(p)'
  BY <1>1, <1>5, <1>6, <1>7, CountsGrow
<1> QED
  BY <1>5, <1>8 DEF CountInv

\* Rows that go leave their coordinates, and a call that misses them is excused.
LEMMA CountRowsGo ==
  ASSUME Counting, NEW s \in Streams, NEW rows \in SUBSET log[s], LastOf(log[s]) \in rows,
         log' = [log EXCEPT ![s] = rows],
         ghost' = [q \in Openers |-> [ghost[q] EXCEPT !.steady = pc[q] \in {"down", "idle"}]],
         UNCHANGED <<pc, left, on, head, cursor, todo, report>>
  PROVE  CountInv'
<1>1. /\ log \in [Streams -> SUBSET Nat]
      /\ log[s] \in SUBSET Nat /\ \A m \in log[s] : m <= LastOf(log[s])
      /\ StoreTypes
  BY RowsAre DEF Counting, Stepping, StoreInv, MigrationInv, MigrationTypeOK
<1>2. \A t \in Streams : LastOf(log'[t]) = LastOf(log[t])
  <2>1. LastOf(rows) = LastOf(log[s])
    BY <1>1, LastIs
  <2> QED
    BY <1>1, <2>1
<1>3. Pairs(log', Streams) = Pairs(log, Streams)
  BY <1>2 DEF Pairs
<1>4. ASSUME NEW p \in Openers PROVE CountSound(p)'
  <2>1. IsGhost(ghost[p]) /\ ghost'[p] = [ghost[p] EXCEPT !.steady = pc[p] \in {"down", "idle"}]
    BY <1>1 DEF StoreTypes
  <2>2. /\ ghost'[p].due = ghost[p].due /\ ghost'[p].over = ghost[p].over
        /\ ghost'[p].steady = (pc[p] \in {"down", "idle"})
    <3> DEFINE x == pc[p] \in {"down", "idle"}
    <3>1. ghost'[p] = [ghost[p] EXCEPT !.steady = x]
      BY <2>1
    <3> HIDE DEF x
    <3>2. ghost'[p].due = ghost[p].due /\ ghost'[p].over = ghost[p].over /\ ghost'[p].steady = x
      <4> DEFINE g == ghost[p]
      <4>1. IsGhost(g)
        BY <2>1
      <4> HIDE DEF g
      <4>2. /\ [g EXCEPT !.steady = x].due = g.due /\ [g EXCEPT !.steady = x].over = g.over
            /\ [g EXCEPT !.steady = x].steady = x
        BY <4>1, GhostOf
      <4> QED
        BY <3>1, <4>2 DEF g
    <3> QED
      BY <3>2 DEF x
  <2>3. ~ (pc[p] \in Calling /\ ghost'[p].steady)
    BY <2>2 DEF Calling, Streaming
  <2>4. IsFiniteSet(Pairs(log', Streams))
    BY <1>3 DEF Counting, CountInv
  <2> QED
    BY <2>2, <2>3, <2>4, CountsGrow
<1> QED
  BY <1>3, <1>4 DEF Counting, CountInv

LEMMA CountCompact ==
  ASSUME Counting, NEW o \in Openers, NEW s \in Streams, NEW k \in log[s], CompactStream(o, s, k)
  PROVE  CountInv'
<1>1. /\ log' = [log EXCEPT ![s] = {n \in log[s] : n >= k}]
      /\ ghost' = [q \in Openers |-> [ghost[q] EXCEPT !.steady = pc[q] \in {"down", "idle"}]]
      /\ UNCHANGED <<pc, left, on, head, cursor, todo, report>>
  BY DEF CompactStream, B!Compact, B!streamVars
<1>2. LastOf(log[s]) \in {n \in log[s] : n >= k}
  BY RowsAre DEF Counting, Stepping, StoreInv
<1> QED
  BY <1>1, <1>2, CountRowsGo

LEMMA CountTamper ==
  ASSUME Counting, NEW s \in Streams, NEW n \in log[s], TamperRow(s, n)
  PROVE  CountInv'
<1>1. /\ log' = [log EXCEPT ![s] = log[s] \ {n}] /\ n # LastOf(log[s])
      /\ ghost' = [q \in Openers |-> [ghost[q] EXCEPT !.steady = pc[q] \in {"down", "idle"}]]
      /\ UNCHANGED <<pc, left, on, head, cursor, todo, report>>
  BY DEF TamperRow, Tamper, streamVars
<1>2. LastOf(log[s]) \in log[s] \ {n}
  BY <1>1, RowsAre DEF Counting, Stepping, StoreInv
<1> QED
  BY <1>1, <1>2, CountRowsGo

\* A file that is found has at most an event in each stream.
LEMMA CountInit == Init => CountInv
<1> SUFFICES ASSUME Init PROVE CountInv
  OBVIOUS
<1>1. MaxEvents \in Nat /\ IsFiniteSet(Streams) /\ Cardinality(Streams) <= MaxEvents
  BY MigrationAssumption
<1>2. PICK n \in {0, 1} : log = [s \in Streams |-> 1 .. n]
  BY DEF Init, MigrationInit
<1>3. IsFiniteSet(Pairs(log, Streams)) /\ Cardinality(Pairs(log, Streams)) <= MaxEvents
  <2>1. CASE n = 0
    <3>1. \A s \in Streams : LastOf(log[s]) = 0
      BY <1>2, <2>1 DEF LastOf
    <3>2. Pairs(log, Streams) = {}
      BY <3>1 DEF Pairs
    <3> QED
      BY <1>1, <3>2, FS_EmptySet
  <2>2. CASE n = 1
    <3> DEFINE P == Pairs(log, Streams)
               f == [s \in Streams |-> <<s, 1>>]
    <3>1. \A s \in Streams : log[s] = {1} /\ LastOf(log[s]) = 1
      <4>1. \A s \in Streams : log[s] = {1}
        BY <1>2, <2>2
      <4>2. LastOf({1}) = 1
        BY LastIs
      <4> QED
        BY <4>1, <4>2
    <3>2. P = {<<s, 1>> : s \in Streams}
      BY <3>1 DEF Pairs
    <3>3. f \in Surjection(Streams, P)
      <4>1. f \in [Streams -> P] /\ \A x \in P : \E s \in Streams : f[s] = x
        BY <3>2
      <4> QED
        BY <4>1 DEF Surjection
    <3> HIDE DEF f, P
    <3>4. IsFiniteSet(P) /\ Cardinality(P) <= Cardinality(Streams)
      BY <1>1, <3>3, FS_Surjection
    <3>5. Cardinality(P) \in Nat /\ Cardinality(Streams) \in Nat
      BY <1>1, <3>4, FS_CardinalityType
    <3> QED
      BY <1>1, <3>4, <3>5 DEF P
  <2> QED
    BY <2>1, <2>2
<1>4. ASSUME NEW p \in Openers PROVE CountSound(p)
  <2>1. pc[p] = "down" /\ report[p] = B!EmptyReport /\ ghost[p] = B!NoGhost
    BY DEF Init, B!BackfillStart
  <2>2. /\ B!EmptyReport.applied = 0 /\ B!EmptyReport.failed = 0 /\ B!EmptyReport.skipped = 0
        /\ B!NoGhost.due = 0
    BY DEF B!EmptyReport, B!NoGhost
  <2> QED
    BY <2>1, <2>2
    DEF CountSound, Counters, Fresh, AtStream, Present, Balanced, FewSkipped, Calling, Streaming
<1> QED
  BY <1>3, <1>4 DEF CountInv

LEMMA CountStep ==
  MigrationInv /\ MigrationInv' /\ StoreInv /\ CountInv /\ [Next]_vars => CountInv'
<1> SUFFICES ASSUME MigrationInv, MigrationInv', StoreInv, CountInv, [Next]_vars PROVE CountInv'
  OBVIOUS
<1>1. ASSUME UNCHANGED <<log, pc, left, on, head, cursor, todo, report, ghost>> PROVE CountInv'
  <2>1. ASSUME NEW p \in Openers PROVE CountSound(p)'
    BY <1>1, CountsBeside DEF CountInv
  <2> QED
    BY <1>1, <2>1 DEF CountInv
<1>2. CASE UNCHANGED vars
  BY <1>1, <1>2 DEF vars, migrationVars, rowVars, restOfStore, callVars, streamVars
<1>3. CASE Next
  <2>1. Counting
    BY <1>3, StreamsGrow DEF Counting, Stepping
  <2>2. ASSUME NEW o \in Openers, Migrate(o) \/ MigrationFails(o) PROVE CountInv'
    BY <1>1, <2>2
    DEF Migrate, MigrationFails, Open, Step, Close, rowVars, restOfStore, callVars, streamVars
  <2>3. ASSUME NEW o \in Openers, Attach(o) \/ Use(o) PROVE CountInv'
    BY <2>1, <2>3, CountBegin, CountWork DEF Attach, B!Start, Use
  <2>4. ASSUME NEW o \in Openers, Stop(o) PROVE CountInv'
    BY <2>1, <2>4, CountForget DEF Stop, B!Stop, B!Goto, B!fileVars
  <2> QED
    BY <1>3, <2>1, <2>2, <2>3, <2>4, CountWrite, CountCompact, CountTamper DEF Next
<1> QED
  BY <1>2, <1>3

\* The inductive invariant holds.
THEOREM CountsSound == Spec => []CountInv
<1>1. Spec => []MigrationInv
  BY ImplementsMigration, MigrationSound
<1>2. Spec => []StoreInv
  BY StoresSound
<1> QED
  BY <1>1, <1>2, CountInit, CountStep, PTL DEF Spec

\* The report of a call that returns Ok accounts for every event that was due,
\* as applied, failed or skipped: none twice, none not at all, and the count of
\* the skipped ones, a difference of unsigned integers, does not wrap.
THEOREM ReportIsExact == Spec => []ReportAccounts
<1>1. CountInv => ReportAccounts
  <2> SUFFICES ASSUME CountInv, AllGapless, NEW p \in Openers, pc[p] = "returned",
                      ghost[p].steady, ~ghost[p].over
               PROVE  report[p].applied + report[p].failed + report[p].skipped = ghost[p].due
    BY DEF ReportAccounts, B!ReportAccounts, AllGapless
  <2>1. Counters(p) /\ Balanced(p) /\ Pending(p) = 0
    BY DEF CountInv, CountSound, Pending
  <2> QED
    BY <2>1 DEF Balanced, Counters, Calling
<1> QED
  BY <1>1, CountsSound, PTL
=============================================================================
