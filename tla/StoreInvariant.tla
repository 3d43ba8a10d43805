--------------------------- MODULE StoreInvariant ---------------------------
(***************************************************************************)
(* Why StoreWrite is right: the invariant that holds of it at every await. *)
(* Everything a task carries across an await is either still the state of  *)
(* the coordinate it says it is (a fact no later commit or compaction can  *)
(* change, since the states of the past do not change), or protected by    *)
(* the stream's lock.                                                      *)
(***************************************************************************)
EXTENDS StoreWrite

Committed == Len(history)

\* The persisted log replays, from the largest compacted coordinate on, to
\* the states the stream had.
LogInv ==
  /\ floor <= Committed
  /\ DOMAIN events \subseteq 1 .. Committed
  /\ \A n \in 1 .. Committed : n >= floor => n \in DOMAIN events
  /\ \A n \in 1 .. Committed :
       n > floor => Step(Truth(n - 1), Upcast(events[n]).patch) = Truth(n)
  /\ floor > 0 => /\ events[floor] = [kind |-> SnapshotKind,
                                       patch |-> Replace(Truth(floor))]
                  /\ Truth(floor) \in Doc

\* Replaying the events in hand leads to the state at the coordinate wanted:
\* from some point q on, at hand or about to be reached by a snapshot, there
\* is no gap.
Leads(t, q) ==
  /\ \/ q = pos[t] /\ acc[t] = Truth(q)
     \/ /\ q \in DOMAIN todo[t]
        /\ Upcast(todo[t][q]).patch = Replace(Truth(q))
        /\ Truth(q) \in Doc
  /\ \A r \in q + 1 .. at[t] :
       /\ r \in DOMAIN todo[t]
       /\ Step(Truth(r - 1), Upcast(todo[t][r]).patch) = Truth(r)

\* Where a call can be, given what it was asked to do.
ModeInv(t) ==
  /\ pc[t] = Idle => req[t].mode = "none"
  /\ goal[t] = "write" => Writing(t)
  /\ goal[t] \in {"revert_from", "revert_to"} => req[t].mode = "revert"
  /\ goal[t] = "snapshot" =>
       req[t].mode = "compact" /\ at[t] = req[t].arg /\ at[t] # Seq0
  /\ req[t].mode = "append_if_head" /\ pc[t] \in {"lock", "head", "boundary",
       "nearest", "read", "replay"} => goal[t] = "write" /\ at[t] = req[t].arg
  /\ pc[t] = "lock" => goal[t] \in {"revert_from", "write"}
  /\ pc[t] = "state" => /\ goal[t] \in {"answer", "revert_from", "write"}
                        /\ req[t].mode # "append_if_head"
  /\ pc[t] \in {"lock", "reload", "put", "dispatch"} => Writing(t)
  /\ pc[t] = "prune" => Writing(t) \/ req[t].mode = "prune_cache"
  /\ pc[t] = "reload" => HasUpcasters

\* What a call carries while it reads a state.
ReadInv(t) ==
  /\ pc[t] # "replay" => DOMAIN todo[t] = {}
  /\ pc[t] \in {Idle, "lock"} => acc[t] = Null /\ pos[t] = Seq0
  /\ pc[t] \in {"boundary", "nearest", "read", "replay"} => at[t] <= Committed
  /\ pc[t] = "read" => pos[t] < at[t] /\ acc[t] = Truth(pos[t])
  /\ pc[t] = "replay" =>
       /\ pos[t] <= at[t]
       /\ DOMAIN todo[t] \subseteq pos[t] + 1 .. at[t]
       /\ at[t] >= floor => \E q \in 0 .. at[t] : Leads(t, q)
  /\ reply[t].status = "state" =>
       /\ reply[t].at <= Committed
       /\ reply[t].doc = Truth(reply[t].at) \/ reply[t].at < floor

\* What a write carries after its commit.
CommittedInv(t) ==
  /\ pc[t] \in {"put", "prune", "dispatch"} /\ Writing(t) =>
       pos[t] \in 1 .. Committed /\ acc[t] = Truth(pos[t])
  /\ pc[t] = "reload" => pos[t] \in 1 .. Committed /\ acc[t] = Truth(pos[t] - 1)

\* What the stream's lock protects.
LockInv(t) ==
  Writing(t) /\ pc[t] \notin {Idle, "lock"} =>
    /\ lock[Home[t]] = t
    /\ goal[t] \in {"write", "revert_from"} /\ req[t].mode # "append_if_head"
         /\ pc[t] \in {"head", "boundary", "nearest", "read", "replay"}
       => at[t] = Committed
    /\ pc[t] = "reload" => pos[t] = Committed
    /\ pc[t] \in {"reload", "put", "prune", "dispatch"} =>
         \A k \in 1 .. Len(sent[Home[t]]) : sent[Home[t]][k].seq < pos[t]

SentInv ==
  \A i \in Instances : \A k \in 1 .. Len(sent[i]) :
    /\ sent[i][k].seq \in 1 .. Committed
    /\ sent[i][k].doc = Truth(sent[i][k].seq)
    /\ k > 1 => sent[i][k - 1].seq < sent[i][k].seq

TaskInv(t) == ModeInv(t) /\ ReadInv(t) /\ CommittedInv(t) /\ LockInv(t)

\* The inductive invariant.
IInv ==
  /\ TypeOK
  /\ LogInv
  /\ CacheSound
  /\ SentInv
  /\ \A t \in Tasks : TaskInv(t)

-----------------------------------------------------------------------------
\* All the tasks share one lock per stream: one Store in one process.
SingleStore == \A t, u \in Tasks : Home[t] = Home[u]

\* Or the instances share no lock, and leave it to append_if_head to serialize
\* their writes (facade.rs, "Across processes").  Reading the committed event
\* back for the upcasters is not covered by that.
OnlyConditional ==
  /\ ~HasUpcasters
  /\ \A t \in Tasks : \A r \in Menu[t] : r.mode \notin {"append", "revert"}

Serialized == SingleStore \/ OnlyConditional

\* In the second case every write under way is a conditional one.
ConditionalInv ==
  SingleStore \/
    /\ ~HasUpcasters
    /\ \A t \in Tasks : req[t].mode \notin {"append", "revert"}

-----------------------------------------------------------------------------
(* What the callers keep to.                                               *)

\* The store's own kinds of events are written by the calls that stand for
\* them: a revert by revert, a snapshot by compaction alone (facade.rs: "the
\* maintenance path is the only writer" of it).
OwnKinds ==
  \A t \in Tasks : \A r \in Menu[t] :
    r.kind # SnapshotKind /\ (r.kind = RevertKind <=> r.mode = "revert")

MayCompact(t) == \E r \in Menu[t] : r.mode = "compact"

\* Compactions of the stream are not made by two callers at once.
OneCompactor == \A t, u \in Tasks : MayCompact(t) /\ MayCompact(u) => t = u

NoCompactor == \A t \in Tasks : ~MayCompact(t)

\* Requests under way are like those on the menus.
MenuInv == \A t \in Tasks : req[t].mode = "compact" => MayCompact(t)

KindInv ==
  \A t \in Tasks :
    req[t].kind # SnapshotKind /\ (req[t].kind = RevertKind <=> req[t].mode = "revert")

\* Then the log has no gap above its boundary, which is the last coordinate
\* compacted, and a compaction that has passed its check is not overtaken.
BoundaryInv ==
  /\ DOMAIN events = (IF floor = Seq0 THEN 1 ELSE floor) .. Committed
  /\ \A n \in DOMAIN events : events[n].kind = SnapshotKind => n = floor
  /\ \A t \in Tasks : goal[t] = "snapshot" /\ pc[t] \in {"nearest", "read", "replay"}
       => at[t] >= floor

\* What a revert knows while it holds the lock, and nothing is compacted: the
\* patch it is about to commit leads from the current state to the target's.
RevertInv(t) ==
  req[t].mode = "revert" =>
    /\ pc[t] = "lock" => goal[t] = "revert_from"
    /\ goal[t] = "revert_to" => at[t] = req[t].arg /\ from[t] = Truth(Committed)
    /\ goal[t] = "write" /\ pc[t] \notin {"reload", "put", "prune", "dispatch"} =>
         /\ req[t].arg <= Committed /\ Truth(req[t].arg) \in Doc
         /\ Step(Truth(Committed), req[t].patch) = Truth(req[t].arg)

\* A revert was made to a state the stream had had.
TargetInv ==
  \A n \in 1 .. Committed : history[n].kind = RevertKind => history[n].ref <= Committed
=============================================================================
