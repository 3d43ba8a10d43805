----------------------------- MODULE StoreWrite -----------------------------
(***************************************************************************)
(* The Store facade over one stream: append, import_event, append_if_head, *)
(* revert, delete, state, state_at, prune_cache, and the backend's         *)
(* compact_stream, called by concurrent tasks of one or more Store         *)
(* instances that share the event log and the cache.                       *)
(*                                                                         *)
(* Every call is an async function.  Between two of its awaits on the      *)
(* backend nothing else it reads can change, so an action is one await: the*)
(* backend answers atomically, and tasks interleave between the answers.   *)
(* The replay of the events read is one action per event, although nothing *)
(* is awaited there: it touches only what the task already holds.          *)
(***************************************************************************)
EXTENDS EventLog, Sequences

CONSTANTS
  Tasks,         \* concurrent callers
  Instances,     \* Store instances (or processes) on the same backend
  Home,          \* Home[t]: the instance task t calls
  Menu,          \* Menu[t]: the requests task t may make
  NoTask,        \* the lock's holder when it is free
  MaxSeq,        \* bound: writes are not begun beyond this head
  CacheStride,   \* StoreConfig::cache_stride, 0 = no cache
  CacheKeep,     \* StoreConfig::cache_keep_latest, 0 = None
  Gates,         \* each gate: the <<kind, current, next>> it lets pass
  HasSinks,      \* a ProjectionSink is registered
  HasUpcasters,  \* an Upcaster is registered
  Upcaster,      \* what it does to the patch of an event of kind EditKind
  Failures       \* whether backend calls may fail and callers may give up

WriteModes == {"append", "append_if_head", "revert"}
ReadModes == {"state", "state_at"}
OtherModes == {"compact", "prune_cache", "none"}

\* arg is append_if_head's expected head, the target of revert and state_at,
\* compact's up_to_seq and prune_cache's keep_latest.
Request == [mode: WriteModes \cup ReadModes \cup OtherModes,
            kind: Kinds, patch: Patch, arg: Nat]

NoRequest == [mode |-> "none", kind |-> EditKind, patch |-> Nop, arg |-> 0]

ASSUME StoreAssumption ==
  /\ Home \in [Tasks -> Instances]
  /\ Menu \in [Tasks -> SUBSET Request]
  /\ NoTask \notin Tasks
  /\ MaxSeq \in Nat /\ CacheStride \in Nat /\ CacheKeep \in Nat
  /\ HasSinks \in BOOLEAN /\ HasUpcasters \in BOOLEAN /\ Failures \in BOOLEAN
  /\ Upcaster \in [Patch -> Patch]
  /\ ~HasUpcasters => \A p \in Patch : Upcaster[p] = p

Idle == "idle"
Pcs == {Idle, "lock", "state", "head", "boundary", "nearest", "read", "replay",
        "reload", "put", "prune", "dispatch"}

\* What the state being read is for.
Goals == {"none", "answer", "write", "revert_from", "revert_to", "snapshot"}

Statuses == {"none", "ok", "state", "unknown_stream", "out_of_range", "compacted",
             "head_conflict", "patch", "schema", "busy", "dropped"}

VARIABLES
  events,   \* the persisted log of the stream
  cache,    \* the persisted snapshots
  lock,     \* lock[i]: holder of instance i's tokio Mutex for the stream
  pc, req, goal,
  at,       \* the coordinate whose state is being read
  acc, pos, \* the document in hand, and the coordinate it is the state of
  from,     \* revert: the current state, kept while the target is read
  todo,     \* events read and not yet replayed
  reply,    \* how the task's last call ended
  sent,     \* sent[i]: what instance i handed to its sinks, in order
  history,  \* history variable: every event ever committed, with its state
  floor     \* history variable: the largest seq a compaction has covered

logVars == <<events, history, floor>>
readVars == <<at, acc, pos, todo>>
vars == <<events, cache, lock, pc, req, goal, at, acc, pos, from, todo, reply,
          sent, history, floor>>

-----------------------------------------------------------------------------
(* Events and their effect.                                                *)

\* Slip: snapshots, already in today's shape, are translated again.
UpcastAll(ev) == [ev EXCEPT !.patch = Upcaster[ev.patch]]

\* UpcastingBackend: every event read goes through the upcaster chain.
Upcast(ev) ==
  IF ev.kind = EditKind THEN [ev EXCEPT !.patch = Upcaster[ev.patch]] ELSE ev

\* The committed event, read again: the first one at or after its coordinate.
ReadBack(n) == Upcast(events[FirstFrom(events, n)])

\* The state the stream had after its n-th event: what replaying everything
\* ever committed, as it is read today, yields.
Truth(n) == IF n = Seq0 THEN Null ELSE history[n].doc

CacheHit(n) == CacheStride > 0 /\ n % CacheStride = 0

NextState(t) == Apply(acc[t], req[t].patch)

\* The gate loop of write_event_locked, which runs only if there are gates.
GatesPass(t) ==
  Gates # {} =>
    /\ Applies(acc[t], req[t].patch)
    /\ \A g \in Gates : <<req[t].kind, acc[t], NextState(t)>> \in g

NoReply == [status |-> "none", at |-> Seq0, doc |-> Null]

\* Slip: an early return that keeps the lock.
KeepLock(t) == UNCHANGED lock

Unlock(t) == lock' = [lock EXCEPT ![Home[t]] = IF @ = t THEN NoTask ELSE @]

\* Leaving a call, by any path: the result, and what falls out of scope with
\* the future, the lock guard among it.
Finish(t, status, n, d) ==
  /\ pc' = [pc EXCEPT ![t] = Idle]
  /\ req' = [req EXCEPT ![t] = NoRequest]
  /\ goal' = [goal EXCEPT ![t] = "none"]
  /\ at' = [at EXCEPT ![t] = Seq0]
  /\ acc' = [acc EXCEPT ![t] = Null]
  /\ pos' = [pos EXCEPT ![t] = Seq0]
  /\ from' = [from EXCEPT ![t] = Null]
  /\ todo' = [todo EXCEPT ![t] = << >>]
  /\ reply' = [reply EXCEPT ![t] = [status |-> status, at |-> n, doc |-> d]]
  /\ Unlock(t)

Goto(t, label) == pc' = [pc EXCEPT ![t] = label]

-----------------------------------------------------------------------------
(* Entering a call.                                                        *)

Writing(t) == req[t].mode \in WriteModes

\* A write is begun only while it and those under way fit below MaxSeq.
Room == HeadSeq(events) + Cardinality({t \in Tasks : Writing(t)}) < MaxSeq

Begin(t, r) ==
  /\ pc[t] = Idle
  /\ r.mode \in WriteModes => Room
  /\ r.mode = "compact" => r.arg # Seq0
  /\ req' = [req EXCEPT ![t] = r]
  /\ reply' = [reply EXCEPT ![t] = NoReply]
  /\ Goto(t, CASE r.mode \in WriteModes -> "lock"
               [] r.mode = "state" -> "state"
               [] r.mode = "prune_cache" -> "prune"
               [] OTHER -> "head")
  /\ goal' = [goal EXCEPT ![t] = CASE r.mode = "revert" -> "revert_from"
                                   [] r.mode \in WriteModes \ {"revert"} -> "write"
                                   [] r.mode = "compact" -> "snapshot"
                                   [] OTHER -> "answer"]
  /\ at' = [at EXCEPT ![t] =
              IF r.mode \in {"append_if_head", "state_at", "compact"}
              THEN r.arg ELSE Seq0]
  /\ UNCHANGED <<logVars, cache, lock, acc, pos, from, todo, sent>>

\* Slip: the per-stream lock is not awaited.
Unlocked(t) == TRUE

LockFree(t) == lock[Home[t]] = NoTask

\* append_if_head(Seq::ZERO) takes the empty state without reading the log.
Acquire(t) ==
  /\ pc[t] = "lock"
  /\ LockFree(t)
  /\ lock' = [lock EXCEPT ![Home[t]] = t]
  /\ Goto(t, IF req[t].mode # "append_if_head" THEN "state"
             ELSE IF at[t] = Seq0 THEN "replay" ELSE "head")
  /\ UNCHANGED <<logVars, readVars, cache, req, goal, from, reply, sent>>

-----------------------------------------------------------------------------
(* Store::state and Store::state_at.                                       *)

\* The head, then state_at of it; an empty stream is null without more reads.
ReadHead(t) ==
  /\ pc[t] = "state"
  /\ at' = [at EXCEPT ![t] = HeadSeq(events)]
  /\ acc' = [acc EXCEPT ![t] = Null]
  /\ pos' = [pos EXCEPT ![t] = Seq0]
  /\ Goto(t, IF DOMAIN events = {} THEN "replay" ELSE "head")
  /\ UNCHANGED <<logVars, cache, lock, req, goal, from, todo, reply, sent>>

CheckHead(t) ==
  /\ pc[t] = "head"
  /\ DOMAIN events # {} /\ at[t] <= HeadSeq(events)
  /\ Goto(t, "boundary")
  /\ UNCHANGED <<logVars, readVars, cache, lock, req, goal, from, reply, sent>>

\* Inside append_if_head both errors are remapped to HeadConflict.
PastHead(t) ==
  /\ pc[t] = "head"
  /\ DOMAIN events = {} \/ at[t] > HeadSeq(events)
  /\ Finish(t, IF req[t].mode = "append_if_head" THEN "head_conflict"
               ELSE IF DOMAIN events = {} THEN "unknown_stream"
               ELSE "out_of_range", Seq0, Null)
  /\ UNCHANGED <<logVars, cache, sent>>

CheckBoundary(t) ==
  /\ pc[t] = "boundary"
  /\ at[t] >= Boundary(events)
  /\ Goto(t, "nearest")
  /\ UNCHANGED <<logVars, readVars, cache, lock, req, goal, from, reply, sent>>

BelowBoundary(t) ==
  /\ pc[t] = "boundary"
  /\ at[t] < Boundary(events)
  /\ Finish(t, "compacted", Seq0, Null)
  /\ UNCHANGED <<logVars, cache, sent>>

LookUp(t) ==
  /\ pc[t] = "nearest"
  /\ LET n == Nearest(cache, at[t]) IN
       /\ pos' = [pos EXCEPT ![t] = n]
       /\ acc' = [acc EXCEPT ![t] = IF n = Seq0 THEN Null ELSE cache[n]]
       /\ Goto(t, IF n = at[t] THEN "replay" ELSE "read")
  /\ UNCHANGED <<logVars, cache, lock, req, goal, at, from, todo, reply, sent>>

ReadEvents(t) ==
  /\ pc[t] = "read"
  /\ todo' = [todo EXCEPT ![t] = Window(events, pos[t] + 1, at[t])]
  /\ Goto(t, "replay")
  /\ UNCHANGED <<logVars, cache, lock, req, goal, at, acc, pos, from, reply, sent>>

\* One iteration of replay_from.
Replay(t) ==
  /\ pc[t] = "replay"
  /\ \E n \in DOMAIN todo[t] :
       LET p == Upcast(todo[t][n]).patch IN
       /\ \A m \in DOMAIN todo[t] : n <= m
       /\ Applies(acc[t], p)
       /\ acc' = [acc EXCEPT ![t] = Apply(acc[t], p)]
       /\ pos' = [pos EXCEPT ![t] = n]
       /\ todo' = [todo EXCEPT ![t] = Window(todo[t], n + 1, at[t])]
  /\ UNCHANGED <<logVars, cache, lock, pc, req, goal, at, from, reply, sent>>

ReplayFails(t) ==
  /\ pc[t] = "replay"
  /\ \E n \in DOMAIN todo[t] :
       /\ \A m \in DOMAIN todo[t] : n <= m
       /\ ~Applies(acc[t], Upcast(todo[t][n]).patch)
  /\ Finish(t, "patch", Seq0, Null)
  /\ UNCHANGED <<logVars, cache, sent>>

\* state_at returned Ok(acc[t]).
Ready(t, what) == pc[t] = "replay" /\ DOMAIN todo[t] = {} /\ goal[t] = what

Answer(t) ==
  /\ Ready(t, "answer")
  /\ Finish(t, "state", at[t], acc[t])
  /\ UNCHANGED <<logVars, cache, sent>>

-----------------------------------------------------------------------------
(* Store::revert_with_meta: both states, then the write path with the patch*)
(* between them.  The write path reads the current state once more.        *)

RevertSource(t) ==
  /\ Ready(t, "revert_from")
  /\ from' = [from EXCEPT ![t] = acc[t]]
  /\ at' = [at EXCEPT ![t] = req[t].arg]
  /\ goal' = [goal EXCEPT ![t] = "revert_to"]
  /\ Goto(t, "head")
  /\ UNCHANGED <<logVars, cache, lock, req, acc, pos, todo, reply, sent>>

RevertTarget(t) ==
  /\ Ready(t, "revert_to")
  /\ req' = [req EXCEPT ![t].patch = Diff(from[t], acc[t])]
  /\ goal' = [goal EXCEPT ![t] = "write"]
  /\ Goto(t, "state")
  /\ UNCHANGED <<logVars, readVars, cache, lock, from, reply, sent>>

-----------------------------------------------------------------------------
(* Store::write_event_locked, from the gates on.                           *)

GateRejects(t) ==
  /\ Ready(t, "write")
  /\ ~GatesPass(t)
  /\ Finish(t, IF Applies(acc[t], req[t].patch) THEN "schema" ELSE "patch",
            Seq0, Null)
  /\ UNCHANGED <<logVars, cache, sent>>

\* Slip: the head is not compared in the committing transaction.
NeverMoved(t) == FALSE

HeadMoved(t) == req[t].mode = "append_if_head" /\ req[t].arg # HeadSeq(events)

HeadConflict(t) ==
  /\ Ready(t, "write") /\ GatesPass(t)
  /\ HeadMoved(t)
  /\ Finish(t, "head_conflict", Seq0, Null)
  /\ UNCHANGED <<logVars, cache, sent>>

\* The next state is needed after the commit, by the cache or by the sinks.
Downstream(n) == CacheHit(n) \/ HasSinks

\* The backend's transaction, then everything up to the next await.  Without
\* gates or upcasters the patch is applied only now, if the result is needed;
\* that it does not apply is then reported for an event already committed.
Commit(t) ==
  /\ Ready(t, "write") /\ GatesPass(t) /\ ~HeadMoved(t)
  /\ LET n == HeadSeq(events) + 1
         ev == [kind |-> req[t].kind, patch |-> req[t].patch]
     IN
     /\ events' = Appended(events, ev)
     /\ history' = Append(history,
          [kind |-> ev.kind, ref |-> req[t].arg,
           doc |-> Step(Truth(HeadSeq(events)), Upcast(ev).patch)])
     /\ \/ /\ ~Downstream(n)
           /\ Finish(t, "ok", n, Null)
        \/ /\ Downstream(n) /\ ~HasUpcasters
           /\ ~Applies(acc[t], req[t].patch)
           /\ Finish(t, "patch", n, Null)
        \/ /\ Downstream(n)
           /\ HasUpcasters \/ Applies(acc[t], req[t].patch)
           /\ pos' = [pos EXCEPT ![t] = n]
           /\ acc' = [acc EXCEPT ![t] = IF HasUpcasters THEN @ ELSE NextState(t)]
           /\ Goto(t, IF HasUpcasters THEN "reload"
                      ELSE IF CacheHit(n) THEN "put" ELSE "dispatch")
           /\ UNCHANGED <<lock, req, goal, at, from, todo, reply>>
  /\ UNCHANGED <<cache, floor, sent>>

\* With upcasters, the committed event is read back and applied to current.
Reload(t) ==
  /\ pc[t] = "reload"
  /\ LET p == ReadBack(pos[t]).patch IN
       \/ /\ Applies(acc[t], p)
          /\ acc' = [acc EXCEPT ![t] = Apply(acc[t], p)]
          /\ Goto(t, IF CacheHit(pos[t]) THEN "put" ELSE "dispatch")
          /\ UNCHANGED <<lock, req, goal, at, pos, from, todo, reply>>
       \/ /\ ~Applies(acc[t], p)
          /\ Finish(t, "patch", pos[t], Null)
  /\ UNCHANGED <<logVars, cache, sent>>

PutCache(t) ==
  /\ pc[t] = "put"
  /\ cache' = Put(cache, pos[t], acc[t])
  /\ IF CacheKeep > 0 \/ HasSinks
     THEN /\ Goto(t, IF CacheKeep > 0 THEN "prune" ELSE "dispatch")
          /\ UNCHANGED <<lock, req, goal, readVars, from, reply>>
     ELSE Finish(t, "ok", pos[t], Null)
  /\ UNCHANGED <<logVars, sent>>

\* After a put the prune's own failure is swallowed; the explicit
\* Store::prune_cache, which takes no lock, reports it.
PruneCache(t) ==
  /\ pc[t] = "prune"
  /\ \E ok \in {TRUE, ~Failures} :
       LET explicit == req[t].mode = "prune_cache"
           keep == IF explicit THEN req[t].arg ELSE CacheKeep
       IN
       /\ cache' = IF ok THEN Pruned(cache, keep) ELSE cache
       /\ IF HasSinks /\ ~explicit
          THEN /\ Goto(t, "dispatch")
               /\ UNCHANGED <<lock, req, goal, readVars, from, reply>>
          ELSE Finish(t, IF ok \/ ~explicit THEN "ok" ELSE "busy", pos[t], Null)
  /\ UNCHANGED <<logVars, sent>>

\* The sinks also get the committed event, read back if it is not in hand:
\* after a compaction that is the snapshot, which sent leaves out.
Dispatch(t) ==
  /\ pc[t] = "dispatch"
  /\ sent' = [sent EXCEPT ![Home[t]] =
       Append(@, [seq |-> pos[t], doc |-> acc[t]])]
  /\ Finish(t, "ok", pos[t], Null)
  /\ UNCHANGED <<logVars, cache>>

-----------------------------------------------------------------------------
(* SqliteMaintenance::compact_stream.  Its own head check, before state_at,*)
(* fails exactly when the one in state_at would; the transaction checks    *)
(* nothing again.                                                          *)

CompactTx(t) ==
  /\ Ready(t, "snapshot")
  /\ events' = Compacted(events, req[t].arg, acc[t])
  /\ cache' = Without(cache, 1 .. (req[t].arg - 1))
  /\ floor' = IF req[t].arg > floor THEN req[t].arg ELSE floor
  /\ Finish(t, "ok", req[t].arg, Null)
  /\ UNCHANGED <<history, sent>>

-----------------------------------------------------------------------------
(* Failures.                                                               *)

Awaiting(t) ==
  \/ pc[t] \in {"state", "head", "boundary", "nearest", "read", "reload",
                "put", "dispatch"}
  \/ \E g \in {"write", "snapshot"} : Ready(t, g)

\* The backend answers Busy (or another error) and `?' returns it.  The seq
\* recorded with the reply is what the call had already committed, if it had.
BackendFails(t) ==
  /\ Failures /\ Awaiting(t)
  /\ Finish(t, "busy",
            IF pc[t] \in {"reload", "put", "dispatch"} THEN pos[t] ELSE Seq0,
            Null)
  /\ UNCHANGED <<logVars, cache, sent>>

\* The caller drops the future (or its process dies) at an await.  A job
\* already queued on the connection thread still runs, before any queued
\* later: that is the job's own action followed by this one.
Drop(t) ==
  /\ Failures /\ pc[t] # Idle
  /\ Finish(t, "dropped", Seq0, Null)
  /\ UNCHANGED <<logVars, cache, sent>>

-----------------------------------------------------------------------------
Init ==
  /\ events = << >> /\ cache = << >> /\ history = << >> /\ floor = Seq0
  /\ lock = [i \in Instances |-> NoTask]
  /\ sent = [i \in Instances |-> << >>]
  /\ pc = [t \in Tasks |-> Idle]
  /\ req = [t \in Tasks |-> NoRequest]
  /\ goal = [t \in Tasks |-> "none"]
  /\ at = [t \in Tasks |-> Seq0]
  /\ acc = [t \in Tasks |-> Null]
  /\ pos = [t \in Tasks |-> Seq0]
  /\ from = [t \in Tasks |-> Null]
  /\ todo = [t \in Tasks |-> << >>]
  /\ reply = [t \in Tasks |-> NoReply]

StateAt(t) ==
  \/ ReadHead(t) \/ CheckHead(t) \/ PastHead(t) \/ CheckBoundary(t)
  \/ BelowBoundary(t) \/ LookUp(t) \/ ReadEvents(t) \/ Replay(t)
  \/ ReplayFails(t) \/ Answer(t)

Write(t) ==
  \/ RevertSource(t) \/ RevertTarget(t) \/ GateRejects(t) \/ HeadConflict(t)
  \/ Commit(t) \/ Reload(t) \/ PutCache(t) \/ PruneCache(t) \/ Dispatch(t)

Proceed(t) == StateAt(t) \/ Write(t) \/ CompactTx(t)

Next ==
  \E t \in Tasks :
    \/ \E r \in Menu[t] : Begin(t, r)
    \/ Acquire(t) \/ Proceed(t) \/ BackendFails(t) \/ Drop(t)

Spec == Init /\ [][Next]_vars

\* A task whose backend call is answered goes on; tokio's Mutex hands itself
\* to waiters in the order they came, so none is passed over for ever.
Fairness == \A t \in Tasks : WF_vars(Proceed(t)) /\ SF_vars(Acquire(t))

FairSpec == Spec /\ Fairness

-----------------------------------------------------------------------------
(* What the store promises.                                                *)

CommittedEvent == [kind: Kinds, ref: Nat, doc: Doc \cup {Poison}]

SentState == [seq: Nat, doc: Doc]

\* Every variable stays in its type.
TypeOK ==
  /\ DOMAIN events \subseteq Nat \ {0}
  /\ \A n \in DOMAIN events : events[n] \in Event
  /\ DOMAIN cache \subseteq Nat \ {0}
  /\ \A n \in DOMAIN cache : cache[n] \in Doc
  /\ lock \in [Instances -> Tasks \cup {NoTask}]
  /\ pc \in [Tasks -> Pcs]
  /\ req \in [Tasks -> Request]
  /\ goal \in [Tasks -> Goals]
  /\ at \in [Tasks -> Nat] /\ pos \in [Tasks -> Nat]
  /\ acc \in [Tasks -> Doc] /\ from \in [Tasks -> Doc]
  /\ DOMAIN todo = Tasks
  /\ \A t \in Tasks : /\ DOMAIN todo[t] \subseteq Nat \ {0}
                       /\ \A n \in DOMAIN todo[t] : todo[t][n] \in Event
  /\ reply \in [Tasks -> [status: Statuses, at: Nat, doc: Doc]]
  /\ sent \in [Instances -> Seq(SentState)]
  /\ history \in Seq(CommittedEvent)
  /\ floor \in Nat

\* A cached snapshot is exactly what replaying the log up to its coordinate
\* gives, whatever writes, prunes, compactions and failures interleaved with
\* the state read and the commit that precede the put (write.rs: what is put
\* in the cache "has to match what state_at would reconstruct at seq").
CacheSound ==
  \A n \in DOMAIN cache : n <= Len(history) /\ cache[n] = Truth(n)

\* A state_at that returns Ok returns the state the stream had at the
\* coordinate asked for, although the head, the boundary, the cache and the
\* events are four separate reads (read.rs, state_at).
ReadsSound ==
  \A t \in Tasks :
    reply[t].status = "state" => reply[t].doc = Truth(reply[t].at)

\* What the sinks of an instance are handed is the state of the stream at
\* that event, each event once and in log order.
DispatchSound ==
  \A i \in Instances : \A k \in 1 .. Len(sent[i]) :
    /\ sent[i][k].doc = Truth(sent[i][k].seq)
    /\ k > 1 => sent[i][k - 1].seq < sent[i][k].seq

\* The gates judged the transition that the log actually made, not one from
\* a state another writer had meanwhile replaced (facade.rs, "Within one
\* process": a gate never sees an intermediate state).
GatedHistory ==
  \A n \in 1 .. Len(history) : \A g \in Gates :
    <<history[n].kind, Truth(n - 1), Truth(n)>> \in g

\* A write commits only on top of the state its gates and its next state were
\* computed from: no commit of another task or instance lands in between.
NoLostUpdate ==
  [][Len(history') > Len(history) =>
       \E t \in Tasks : Ready(t, "write") /\ acc[t] = Truth(Len(history))]_vars

\* However compaction interleaves with a read, only the states it has given
\* up can be misreported: at or above every compacted coordinate, state_at
\* returns the state the stream had.
ReadsSoundAboveFloor ==
  \A t \in Tasks :
    reply[t].status = "state" =>
      reply[t].doc = Truth(reply[t].at) \/ reply[t].at < floor

\* After a revert the stream is in the state it had at the revert's target.
RevertRestores ==
  \A n \in 1 .. Len(history) :
    history[n].kind = RevertKind => history[n].doc = Truth(history[n].ref)

\* Every call returns: no error path leaves the stream's lock held, and no
\* pair of calls waits for each other.
CallsReturn == \A t \in Tasks : pc[t] # Idle ~> pc[t] = Idle
=============================================================================
