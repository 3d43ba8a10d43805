---------------------------- MODULE SinkDispatch ----------------------------
(***************************************************************************)
(* How one registered sink follows one stream: the live dispatch after each*)
(* append, catch_up, rebuild, attach_sink and materialize_to_sink by       *)
(* concurrent callers, and the checkpoint between them, kept in memory and,*)
(* if a CheckpointBackend is configured, on disk (dispatcher.rs,           *)
(* facade/lifecycle.rs).                                                   *)
(*                                                                         *)
(* The log is the set of coordinates that hold an event, and a state is    *)
(* named by the coordinate it is the state of.  An append and its dispatch *)
(* hold the stream's lock, so the appends of all callers are the steps of  *)
(* one process; catch_up takes no lock at all.  An action is one await.    *)
(***************************************************************************)
EXTENDS Naturals, FiniteSets

CONSTANTS
  Callers,     \* concurrent calls of the sink's lifecycle
  Writer,      \* the process that appends
  None,        \* no entry in memory; no running state
  Ops,         \* the calls a run makes
  Batch,       \* events per read of catch_up (32 in the code)
  Persistent,  \* a CheckpointBackend is configured
  Ephemeral,   \* requires_rebuild_on_attach: the output is lost in a crash
  Guarded,     \* the output ignores older seqs (SqliteReadModel), or not
  Static,      \* the sink is registered by the builder
  Failures,    \* sinks and backends may fail, futures may be dropped
  Compacting,  \* compactions happen
  MaxSeq, MaxCrashes  \* bounds: appends, restarts of the process

ASSUME SinkAssumption ==
  /\ Writer \notin Callers
  /\ None \notin Nat
  /\ Ops \subseteq {"catch_up", "rebuild", "attach", "materialize"}
  /\ Batch \in Nat \ {0} /\ MaxSeq \in Nat /\ MaxCrashes \in Nat
  /\ {Persistent, Ephemeral, Guarded, Static, Failures, Compacting} \subseteq BOOLEAN

VARIABLES
  log, base,   \* coordinates in the log; the one of its snapshot, 0 for none
  live,        \* the sink is in the registry
  memory,      \* SinkDispatcher::checkpoints, the L1 entry of (sink, stream)
  saved,       \* the persisted checkpoint, 0 for none
  rebuilt,     \* rebuilt_this_process
  delivered,   \* <<event, state>> pairs the sink has taken
  shown,       \* the event the sink's output reflects
  crashes,
  pc,
  op,          \* the call a caller makes
  head,        \* the head a catch_up saw
  cursor,      \* catch_up's cursor; in a dispatch, the checkpoint it got
  ev,          \* the event in hand
  state,       \* the state in hand (running_state)
  todo, snap   \* the rest of the batch; which of its events is a snapshot

sinkVars == <<delivered, shown>>
logVars == <<log, base>>
othersOfCall == <<op, head, ev, state, todo, snap>>
localVars == <<op, head, cursor, ev, state, todo, snap>>
vars == <<logVars, live, memory, saved, rebuilt, sinkVars, crashes, pc, localVars>>

Procs == Callers \cup {Writer}
Idle == "idle"

HeadOf(S) == IF S = {} THEN 0 ELSE CHOOSE n \in S : \A m \in S : m <= n
Least(S) == CHOOSE n \in S : \A m \in S : n <= m

\* The k smallest members of S: EventBackend::read with a limit.
FirstFew(S, k) == {n \in S : Cardinality({m \in S : m < n}) < k}

\* The outcomes of a call that may fail, or never does.
May(fail) == IF fail THEN BOOLEAN ELSE {TRUE}

-----------------------------------------------------------------------------
(* Leaving a call.                                                         *)

\* A caller's local variables end with its future; only their next use
\* matters, so they are reset to keep the states few.
Forget(p) ==
  /\ op' = [op EXCEPT ![p] = "none"]
  /\ head' = [head EXCEPT ![p] = 0]
  /\ cursor' = [cursor EXCEPT ![p] = 0]
  /\ ev' = [ev EXCEPT ![p] = 0]
  /\ state' = [state EXCEPT ![p] = None]
  /\ todo' = [todo EXCEPT ![p] = {}]
  /\ snap' = [snap EXCEPT ![p] = 0]

Return(p) == pc' = [pc EXCEPT ![p] = Idle] /\ Forget(p)

\* catch_up_inner returned Ok, whatever its report says; a dispatch and
\* materialize_to_sink leave the flag alone.
Complete(p) ==
  /\ Return(p)
  /\ rebuilt' = (rebuilt \/ (p # Writer /\ op[p] # "materialize"))

Goto(p, label) == pc' = [pc EXCEPT ![p] = label]

-----------------------------------------------------------------------------
(* The checkpoint: checkpoint_get, checkpoint_advance, checkpoint_reset.   *)

\* What a dispatch does with the checkpoint it got, and what a catch_up does.
Got(p, c) ==
  \/ /\ p = Writer /\ ev[p] > c
     /\ cursor' = [cursor EXCEPT ![p] = c]
     /\ Goto(p, "sink")
     /\ UNCHANGED <<rebuilt, othersOfCall>>
  \/ /\ p # Writer /\ c < head[p]
     /\ cursor' = [cursor EXCEPT ![p] = c]
     /\ Goto(p, "read")
     /\ UNCHANGED <<rebuilt, othersOfCall>>
  \/ /\ IF p = Writer THEN ev[p] <= c ELSE c >= head[p]
     /\ Complete(p)

GetHit(p) ==
  /\ pc[p] = "get" /\ memory # None
  /\ Got(p, memory)
  /\ UNCHANGED <<logVars, live, memory, saved, sinkVars, crashes>>

\* A failing read counts as no checkpoint.
GetSaved(p) ==
  /\ pc[p] = "get" /\ memory = None
  /\ \E ok \in May(Failures) :
       cursor' = [cursor EXCEPT ![p] = IF Persistent /\ ok THEN saved ELSE 0]
  /\ Goto(p, "insert")
  /\ UNCHANGED <<logVars, live, memory, saved, rebuilt, sinkVars, crashes,
                 othersOfCall>>

\* entry(key).or_insert(restored), and the restored value is returned.
Insert(p) ==
  /\ pc[p] = "insert"
  /\ memory' = IF memory = None THEN cursor[p] ELSE memory
  /\ Got(p, cursor[p])
  /\ UNCHANGED <<logVars, live, saved, sinkVars, crashes>>

\* The backend first; without one there is nothing to wait for.
Put(p) ==
  /\ pc[p] = "put"
  /\ \/ /\ saved' = IF Persistent THEN ev[p] ELSE saved
        /\ Goto(p, "advance")
        /\ UNCHANGED <<rebuilt, localVars>>
     \/ /\ Persistent /\ Failures
        /\ Complete(p)
        /\ UNCHANGED saved
  /\ UNCHANGED <<logVars, live, memory, sinkVars, crashes>>

\* Slip: the cursor stays where it was.
CursorStays(p) == UNCHANGED cursor

CursorFollows(p) == cursor' = [cursor EXCEPT ![p] = ev[p]]

Advance(p) ==
  /\ pc[p] = "advance"
  /\ memory' = ev[p]
  /\ \/ /\ p # Writer /\ (todo[p] # {} \/ ev[p] < head[p])
        /\ CursorFollows(p)
        /\ Goto(p, IF todo[p] # {} THEN "state" ELSE "read")
        /\ UNCHANGED <<rebuilt, othersOfCall>>
     \/ /\ p = Writer \/ (todo[p] = {} /\ ev[p] >= head[p])
        /\ Complete(p)
  /\ UNCHANGED <<logVars, live, saved, sinkVars, crashes>>

\* The entry in memory goes first; a failing put is ignored.
Reset(p) ==
  /\ pc[p] = "reset"
  /\ memory' = None
  /\ Goto(p, IF Persistent THEN "zero" ELSE "head")
  /\ UNCHANGED <<logVars, live, saved, rebuilt, sinkVars, crashes, localVars>>

Zero(p) ==
  /\ pc[p] = "zero"
  /\ \E ok \in May(Failures) : saved' = IF ok THEN 0 ELSE saved
  /\ Goto(p, "head")
  /\ UNCHANGED <<logVars, live, memory, rebuilt, sinkVars, crashes, localVars>>

-----------------------------------------------------------------------------
(* ProjectionSink::commit.                                                 *)

\* Slip: a late commit of an older event overwrites the newer one.
Overwrites(n) == n

\* The output shows the event last taken, unless an upsert guarded by
\* last_seq keeps the newer one.
Shows(n) == IF Guarded /\ n < shown THEN shown ELSE n

\* Slip: the dispatch of an event advances over a gap.
AnyLater(p) == ev[p] > cursor[p]

\* A live dispatch advances the checkpoint only contiguously.
Contiguous(p) == ev[p] = cursor[p] + 1

\* A catch_up always advances it, materialize_to_sink never.
Advances(p) ==
  IF p = Writer THEN Contiguous(p) ELSE op[p] # "materialize"

Deliver(p) ==
  /\ pc[p] = "sink"
  /\ delivered' = delivered \cup {<<ev[p], state[p]>>}
  /\ shown' = Shows(ev[p])
  /\ \/ /\ Advances(p)
        /\ Goto(p, "put")
        /\ UNCHANGED <<rebuilt, localVars>>
     \/ /\ ~Advances(p)
        /\ Complete(p)
  /\ UNCHANGED <<logVars, live, memory, saved, crashes>>

\* The checkpoint stays put, and a catch_up gives up on the stream.
Refuse(p) ==
  /\ Failures /\ pc[p] = "sink"
  /\ Complete(p)
  /\ UNCHANGED <<logVars, live, memory, saved, sinkVars, crashes>>

-----------------------------------------------------------------------------
(* The live dispatch (dispatch_commit), after a commit.                    *)

Append ==
  /\ pc[Writer] = Idle /\ HeadOf(log) < MaxSeq
  /\ log' = log \cup {HeadOf(log) + 1}
  /\ ev' = [ev EXCEPT ![Writer] = HeadOf(log) + 1]
  /\ state' = [state EXCEPT ![Writer] = HeadOf(log) + 1]
  /\ Goto(Writer, "registry")
  /\ UNCHANGED <<base, live, memory, saved, rebuilt, sinkVars, crashes,
                 op, head, cursor, todo, snap>>

Registry ==
  /\ pc[Writer] = "registry"
  /\ \/ /\ live
        /\ Goto(Writer, "get")
        /\ UNCHANGED localVars
     \/ /\ ~live
        /\ Return(Writer)
  /\ UNCHANGED <<logVars, live, memory, saved, rebuilt, sinkVars, crashes>>

-----------------------------------------------------------------------------
(* catch_up, rebuild, attach_sink and materialize_to_sink.                 *)

\* attach_sink of a sink that is registered already is refused.
Call(p, o) ==
  /\ pc[p] = Idle
  /\ o = "attach" => ~live
  /\ live' = (live \/ o = "attach")
  /\ op' = [op EXCEPT ![p] = o]
  /\ Goto(p, IF o = "materialize" THEN "target" ELSE "begin")
  /\ UNCHANGED <<logVars, memory, saved, rebuilt, sinkVars, crashes,
                 head, cursor, ev, state, todo, snap>>

\* The first catch_up of a process is escalated for a sink that needs it,
\* provided the sink is registered by now.
Escalates(p) == live /\ Ephemeral /\ ~rebuilt

Decide(p) ==
  /\ pc[p] = "begin"
  /\ op' = [op EXCEPT ![p] = IF Escalates(p) THEN "rebuild" ELSE @]
  /\ Goto(p, "enter")
  /\ UNCHANGED <<logVars, live, memory, saved, rebuilt, sinkVars, crashes,
                 head, cursor, ev, state, todo, snap>>

\* An unregistered sink, or a store with no stream, is caught up at once.
Enter(p) ==
  /\ pc[p] = "enter"
  /\ \/ /\ ~(live /\ log # {})
        /\ Complete(p)
     \/ /\ live /\ log # {}
        /\ Goto(p, IF op[p] = "rebuild" THEN "reset" ELSE "head")
        /\ UNCHANGED <<rebuilt, localVars>>
  /\ UNCHANGED <<logVars, live, memory, saved, sinkVars, crashes>>

ReadHead(p) ==
  /\ pc[p] = "head"
  /\ head' = [head EXCEPT ![p] = HeadOf(log)]
  /\ Goto(p, "get")
  /\ UNCHANGED <<logVars, live, memory, saved, rebuilt, sinkVars, crashes,
                 op, cursor, ev, state, todo, snap>>

\* The log always holds an event beyond a cursor that is below the head.
ReadBatch(p) ==
  /\ pc[p] = "read"
  /\ todo' = [todo EXCEPT ![p] = FirstFew({n \in log : n > cursor[p]}, Batch)]
  /\ snap' = [snap EXCEPT ![p] = base]
  /\ Goto(p, "state")
  /\ UNCHANGED <<logVars, live, memory, saved, rebuilt, sinkVars, crashes,
                 op, head, cursor, ev, state>>

\* Slip: every event's state is taken from the state in hand.
StateInHand(p, n) == state[p]

\* Slip: the patch of the next event is applied as well.
StateAfter(p, n) == n + 1

\* Patching the state at n - 1 forward gives the one at n; a snapshot's patch
\* gives it on any state; anything else is a wrong state, named 0.
StateFor(p, n) == IF state[p] + 1 = n \/ n = snap[p] THEN n ELSE 0

\* The next event of the batch.  The first state of a call is read with
\* state_at, the others are patched forward, which may fail on a wrong state.
TakeEvent(p) ==
  /\ pc[p] = "state"
  /\ LET n == Least(todo[p]) IN
       \/ /\ ev' = [ev EXCEPT ![p] = n]
          /\ todo' = [todo EXCEPT ![p] = @ \ {n}]
          /\ IF state[p] = None
             THEN Goto(p, "boundary") /\ UNCHANGED state
             ELSE Goto(p, "sink") /\ state' = [state EXCEPT ![p] = StateFor(p, n)]
          /\ UNCHANGED <<rebuilt, op, head, cursor, snap>>
       \/ /\ state[p] # None /\ StateFor(p, n) = 0
          /\ Complete(p)
  /\ UNCHANGED <<logVars, live, memory, saved, sinkVars, crashes>>

\* state_at refuses what has been compacted since the batch was read, and
\* that ends the whole call.
CheckBoundary(p) ==
  /\ pc[p] = "boundary"
  /\ \/ /\ ev[p] >= base
        /\ Goto(p, "replay")
        /\ UNCHANGED localVars
     \/ /\ ev[p] < base
        /\ Return(p)
  /\ UNCHANGED <<logVars, live, memory, saved, rebuilt, sinkVars, crashes>>

\* What a compaction takes away after the check leaves the state of a cached
\* entry or nothing to replay (StoreWrite has the details).
Replay(p) ==
  /\ pc[p] = "replay"
  /\ \E s \in {ev[p]} \cup (IF ev[p] < base THEN {0} ELSE {}) :
       state' = [state EXCEPT ![p] = s]
  /\ Goto(p, "sink")
  /\ UNCHANGED <<logVars, live, memory, saved, rebuilt, sinkVars, crashes,
                 op, head, cursor, ev, todo, snap>>

\* materialize_to_sink takes the head, or any coordinate its caller names,
\* and goes on with state_at; without the sink, or beyond the head, it is
\* refused.
Target(p) ==
  /\ pc[p] = "target"
  /\ \/ /\ live
        /\ \E n \in 1 .. HeadOf(log) : ev' = [ev EXCEPT ![p] = n]
        /\ Goto(p, "boundary")
        /\ UNCHANGED <<op, head, cursor, state, todo, snap>>
     \/ Return(p)
  /\ UNCHANGED <<logVars, live, memory, saved, rebuilt, sinkVars, crashes>>

-----------------------------------------------------------------------------
(* What else happens.                                                      *)

\* compact_stream, which leaves the sinks and their checkpoints alone.
Compact(k) ==
  /\ Compacting /\ k > base
  /\ log' = {n \in log : n >= k}
  /\ base' = k
  /\ UNCHANGED <<live, memory, saved, rebuilt, sinkVars, crashes, pc, localVars>>

\* A backend error that `?' returns, or a future dropped at an await.
GiveUp(p) ==
  /\ Failures /\ pc[p] # Idle
  /\ Return(p)
  /\ UNCHANGED <<logVars, live, memory, saved, rebuilt, sinkVars, crashes>>

Crash ==
  /\ crashes < MaxCrashes
  /\ crashes' = crashes + 1
  /\ live' = Static /\ memory' = None /\ rebuilt' = FALSE
  /\ IF Ephemeral THEN delivered' = {} /\ shown' = 0 ELSE UNCHANGED sinkVars
  /\ pc' = [p \in Procs |-> Idle]
  /\ op' = [p \in Procs |-> "none"]
  /\ head' = [p \in Procs |-> 0] /\ cursor' = [p \in Procs |-> 0]
  /\ ev' = [p \in Procs |-> 0] /\ state' = [p \in Procs |-> None]
  /\ todo' = [p \in Procs |-> {}] /\ snap' = [p \in Procs |-> 0]
  /\ UNCHANGED <<logVars, saved>>

-----------------------------------------------------------------------------
Init ==
  /\ log = {} /\ base = 0 /\ live = Static /\ memory = None /\ saved = 0
  /\ rebuilt = FALSE /\ delivered = {} /\ shown = 0 /\ crashes = 0
  /\ pc = [p \in Procs |-> Idle]
  /\ op = [p \in Procs |-> "none"]
  /\ head = [p \in Procs |-> 0] /\ cursor = [p \in Procs |-> 0]
  /\ ev = [p \in Procs |-> 0] /\ state = [p \in Procs |-> None]
  /\ todo = [p \in Procs |-> {}] /\ snap = [p \in Procs |-> 0]

Proceed(p) ==
  \/ GetHit(p) \/ GetSaved(p) \/ Insert(p) \/ Put(p) \/ Advance(p)
  \/ Reset(p) \/ Zero(p) \/ Deliver(p) \/ Refuse(p)
  \/ Decide(p) \/ Enter(p) \/ ReadHead(p) \/ ReadBatch(p) \/ TakeEvent(p)
  \/ CheckBoundary(p) \/ Replay(p) \/ Target(p)
  \/ p = Writer /\ Registry

Next ==
  \/ \E p \in Procs : Proceed(p) \/ GiveUp(p)
  \/ \E p \in Callers : \E o \in Ops : Call(p, o)
  \/ Append
  \/ \E k \in log : Compact(k)
  \/ Crash

Spec == Init /\ [][Next]_vars

\* A call whose awaits are answered goes on; nobody has to make a call.
Fairness == \A p \in Procs : WF_vars(Proceed(p))

FairSpec == Spec /\ Fairness

-----------------------------------------------------------------------------
(* What the sink is promised.                                              *)

Delivered(n) == \E d \in delivered : d[1] = n

Checkpoints == {saved} \cup ({memory} \ {None})

TypeOK ==
  /\ log \subseteq 1 .. MaxSeq /\ base \in 0 .. MaxSeq
  /\ live \in BOOLEAN /\ rebuilt \in BOOLEAN
  /\ memory \in 0 .. MaxSeq \cup {None} /\ saved \in 0 .. MaxSeq
  /\ delivered \subseteq (1 .. MaxSeq) \X (0 .. MaxSeq) /\ shown \in 0 .. MaxSeq
  /\ \A p \in Procs : head[p] \in 0 .. MaxSeq /\ todo[p] \subseteq 1 .. MaxSeq

\* The checkpoint, in memory or on disk, never covers an event the sink has
\* not taken, unless the event has been compacted away: after a crash, a
\* failure or a race of catch_up and dispatch, nothing is skipped for good
\* (backend.rs, CheckpointBackend: "never a lost event").
NothingSkipped ==
  \A c \in Checkpoints : \A n \in 1 .. c : Delivered(n) \/ n < base

\* Every event comes with the state it led to, whether it is dispatched live,
\* is the first of a catch_up, or follows another one in a batch: without
\* compactions always, and with them only a state read of an event that was
\* compacted meanwhile is wrong, and what is patched onto it.
RightState ==
  \A d \in delivered : d[1] # d[2] =>
    \E e \in delivered : e[1] <= d[1] /\ e[1] # e[2] /\ e[1] < base

\* The output of a read model is never behind the checkpoint.
OutputCovers == \A c \in Checkpoints : shown >= c

\* What is in the log when a sink is attached, or is appended while its
\* backfill runs or later, reaches the sink unless the process stops
\* (lifecycle.rs, attach_sink: "no window in which one can be silently
\* dropped").
AttachedGetsAll ==
  \A n \in 1 .. MaxSeq : live /\ n \in log ~> Delivered(n) \/ ~live

\* Every call of catch_up comes to an end, though appends and other calls
\* move the head and the checkpoint meanwhile.
CatchUpReturns == \A p \in Callers : pc[p] # Idle ~> pc[p] = Idle

-----------------------------------------------------------------------------
(* The inductive invariant of TypeOK, NothingSkipped and OutputCovers.     *)

Seqs == 0 .. MaxSeq

Labels == {Idle, "registry", "get", "insert", "sink", "put", "advance", "begin", "enter",
           "reset", "zero", "head", "read", "state", "boundary", "replay", "target"}

SharedTypes ==
  /\ log \subseteq 1 .. MaxSeq /\ base \in Seqs
  /\ live \in BOOLEAN /\ rebuilt \in BOOLEAN
  /\ memory \in Seqs \cup {None} /\ saved \in Seqs
  /\ delivered \subseteq (1 .. MaxSeq) \X Seqs /\ shown \in Seqs

LocalTypes ==
  /\ pc \in [Procs -> Labels]
  /\ op \in [Procs -> Ops \cup {"none", "rebuild"}]
  /\ head \in [Procs -> Seqs] /\ cursor \in [Procs -> Seqs] /\ ev \in [Procs -> Seqs]
  /\ state \in [Procs -> Seqs \cup {None}]
  /\ todo \in [Procs -> SUBSET (1 .. MaxSeq)]

\* A checkpoint may be c: the sink has taken what it covers, and shows it.
Fit(c) ==
  /\ \A n \in 1 .. c : Delivered(n) \/ n < base
  /\ Guarded => shown >= c

\* The log has no gap above the snapshot.
Gapless == \A m \in log : \A n \in 1 .. m : n \in log \/ n < base

\* The rest of the batch has every event that comes after n, up to its last.
Follows(p, n) ==
  \A m \in todo[p] : n < m /\ \A k \in 1 .. m : k <= n \/ k \in todo[p] \/ k < base

\* The event in hand is the next one after the cursor.
InHand(p) ==
  /\ Fit(cursor[p]) /\ \A n \in 1 .. ev[p] : n <= cursor[p] \/ n = ev[p] \/ n < base
  /\ Follows(p, ev[p])

\* What a dispatch knows at each of its awaits.
WriterSound ==
  /\ pc[Writer] \in {Idle, "registry", "get", "insert", "sink", "put", "advance"}
  /\ pc[Writer] # Idle => ev[Writer] # 0 /\ state[Writer] # None
  /\ pc[Writer] = "insert" => Fit(cursor[Writer])
  /\ pc[Writer] = "sink" => Fit(cursor[Writer])
  /\ pc[Writer] \in {"put", "advance"} => Fit(ev[Writer])

\* What the other calls know.
CallerSound(p) ==
  /\ pc[p] # "registry"
  /\ pc[p] = "target" => op[p] = "materialize"
  /\ head[p] = 0 \/ \E m \in log : head[p] <= m
  /\ pc[p] \in {"insert", "read", "state"} => Fit(cursor[p])
  /\ pc[p] = "read" => \E m \in log : cursor[p] < m
  /\ pc[p] = "state" => todo[p] # {} /\ Follows(p, cursor[p])
  /\ pc[p] \in {"boundary", "replay", "sink"} =>
       ev[p] # 0 /\ (op[p] # "materialize" => InHand(p))
  /\ pc[p] = "sink" => state[p] # None
  /\ pc[p] \in {"put", "advance"} => Fit(ev[p]) /\ Follows(p, ev[p])

IInv ==
  /\ SharedTypes /\ LocalTypes
  /\ ~Persistent => saved = 0
  /\ memory # None => Fit(memory)
  /\ Fit(saved)
  /\ Gapless
  /\ base # 0 => base \in log
  /\ WriterSound
  /\ \A p \in Callers : CallerSound(p)

-----------------------------------------------------------------------------
(* The inductive invariant of RightState, beside IInv.                     *)

\* A state of n may be wrong: it comes from one that a compaction has taken.
Excused(n) == \E e \in delivered : e[1] <= n /\ e[1] # e[2] /\ e[1] < base

\* The rest of the batch goes on from n without a gap, except to its snapshot.
NoGap(p, n) == \A m \in todo[p] : m = n + 1 \/ m = snap[p] \/ m - 1 \in todo[p]

\* The state in hand is the one of the event before, or of the event in hand.
StateSound(p) ==
  /\ pc[p] \in {Idle, "begin", "enter", "reset", "zero", "head", "get", "insert", "target",
                "boundary", "replay"} => state[p] = None
  /\ pc[p] \in {"read", "state"} =>
       state[p] \in {None, cursor[p]} \/ Excused(cursor[p])
  /\ pc[p] = "sink" => state[p] = ev[p] \/ ev[p] < base \/ Excused(ev[p])
  /\ pc[p] \in {"put", "advance"} => state[p] = ev[p] \/ Excused(ev[p])
  /\ pc[p] = "state" => NoGap(p, cursor[p])
  /\ pc[p] \in {"boundary", "replay", "sink"} /\ op[p] # "materialize" => NoGap(p, ev[p])
  /\ pc[p] \in {"put", "advance"} => NoGap(p, ev[p])

StatesInv ==
  /\ snap \in [Procs -> Seqs]
  /\ \A m \in log : base <= m
  /\ RightState
  /\ pc[Writer] # Idle => state[Writer] = ev[Writer]
  /\ \A p \in Callers : StateSound(p)
=============================================================================
