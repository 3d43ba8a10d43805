---------------------------- MODULE CombinedFile ----------------------------
(***************************************************************************)
(* CombinedFileSink: one file with a section for every stream, rendered    *)
(* from a map in memory behind a Mutex, driven by the live dispatches of   *)
(* several streams and by a catch_up that walks over all of them           *)
(* (fileproj/combined.rs, facade/lifecycle.rs).                            *)
(*                                                                         *)
(* The body of the file is the map it was rendered from.  A checkpoint has *)
(* one level here and a batch of catch_up one event; SinkDispatch has both *)
(* in full.                                                                *)
(***************************************************************************)
EXTENDS Naturals, Sequences, FiniteSets

CONSTANTS
  Streams,     \* each with a writer of its own, which holds the stream's lock
  Keeper,      \* the caller of catch_up
  Values,      \* states a stream can be in
  None,        \* no section, no file, no hash, nobody
  Torn,        \* a file that is not completely written
  Failures,    \* file system and checkpoint may fail, futures be dropped
  MaxSeq, MaxCrashes   \* bounds: events of all streams, restarts

ASSUME CombinedAssumption ==
  /\ Keeper \notin Streams /\ None \notin Streams \cup Values \cup {Keeper, Torn}
  /\ {None, Torn} \cap [Streams -> Values \cup {None}] = {}
  /\ Failures \in BOOLEAN /\ MaxSeq \in Nat /\ MaxCrashes \in Nat

VARIABLES
  log,       \* log[s]: the states the events of s led to
  kept,      \* kept[s]: the sink's checkpoint
  rebuilt,   \* rebuilt_this_process
  streams,   \* Snapshot::streams
  hash,      \* Snapshot::last_written_hash, by the body it is the hash of
  holder,    \* of the Mutex around the two
  file, partial,
  pc,
  on, ev,    \* the stream and the event a process hands over
  cursor,    \* the checkpoint it got
  head,      \* the head of that stream, for the keeper
  todo,      \* streams the keeper has not come to
  reset,     \* the keeper's call is a rebuild
  crashes,
  clean,     \* history variable: the last commit of this process succeeded
  unhashed,  \* history variable: a file was renamed and its hash not kept
  unreset    \* history variable: streams whose checkpoint was not reset

sink == <<streams, hash, holder>>
disk == <<file, partial>>
local == <<on, ev, cursor, head, todo, reset>>
ghosts == <<clean, unhashed, unreset>>
vars == <<log, kept, rebuilt, sink, disk, pc, local, crashes, ghosts>>

Procs == Streams \cup {Keeper}
Idle == "idle"
NoStreams == [s \in Streams |-> None]

Goto(p, label) == pc' = [pc EXCEPT ![p] = label]

\* A call is over, and its local variables with it.
Return(p) ==
  /\ Goto(p, Idle)
  /\ on' = [on EXCEPT ![p] = None]
  /\ ev' = [ev EXCEPT ![p] = 0]
  /\ cursor' = [cursor EXCEPT ![p] = 0]
  /\ IF p = Keeper THEN head' = 0 /\ todo' = {} /\ reset' = FALSE
     ELSE UNCHANGED <<head, todo, reset>>

\* The commit failed: a writer's call ends, the keeper takes the next stream.
GiveUp(p) ==
  \/ p # Keeper /\ Return(p)
  \/ p = Keeper /\ Goto(p, "next") /\ UNCHANGED local

\* A temporary file nobody goes on with counts as torn: the next commit writes
\* it anew.
Abandon(p) == partial' = IF pc[p] \in {"write", "rename"} THEN Torn ELSE partial

Release(p) == holder' = IF holder = p THEN None ELSE holder

-----------------------------------------------------------------------------
(* CombinedFileSink::commit.                                               *)

\* Slip: the Mutex is not taken.
Anyone == TRUE

Unlocked == holder = None

Inserted(p) == [streams EXCEPT ![on[p]] = log[on[p]][ev[p]]]

\* Slip: a section that is there already is taken to be in the file.
SameSection(body) == body = streams

\* The rendered body is the one written last.
SameBody(body) == hash = body

\* From the lock to the first await: insert, render, hash, compare.
Render(p) ==
  /\ pc[p] = "lock" /\ Unlocked
  /\ streams' = Inserted(p)
  /\ \/ /\ SameBody(Inserted(p))
        /\ clean' = TRUE
        /\ Goto(p, "advance")
        /\ UNCHANGED holder
     \/ /\ ~SameBody(Inserted(p))
        /\ clean' = FALSE
        /\ holder' = p
        /\ Goto(p, "write")
  /\ UNCHANGED <<log, kept, rebuilt, hash, disk, local, crashes, unhashed, unreset>>

\* fs::write of the temporary file, by the holder of the Mutex.
Write(p) ==
  /\ pc[p] = "write"
  /\ partial' = streams
  /\ Goto(p, "rename")
  /\ UNCHANGED <<log, kept, rebuilt, sink, file, local, crashes, ghosts>>

Rename(p) ==
  /\ pc[p] = "rename" /\ partial # None
  /\ file' = partial /\ partial' = None
  /\ Goto(p, "hash")
  /\ UNCHANGED <<log, kept, rebuilt, sink, local, crashes, ghosts>>

KeepHash(p) ==
  /\ pc[p] = "hash"
  /\ hash' = streams
  /\ clean' = TRUE /\ unhashed' = FALSE
  /\ Release(p)
  /\ Goto(p, "advance")
  /\ UNCHANGED <<log, kept, rebuilt, streams, disk, local, crashes, unreset>>

\* write_atomic returns an error: the section stays, the hash too.
Refuse(p) ==
  /\ pc[p] \in {"write", "rename"}
  /\ Failures \/ (pc[p] = "rename" /\ partial = None)
  /\ Abandon(p)
  /\ Release(p)
  /\ GiveUp(p)
  /\ UNCHANGED <<log, kept, rebuilt, streams, hash, file, crashes, ghosts>>

-----------------------------------------------------------------------------
(* Whoever drives the sink.                                                *)

Committed == {e \in Streams \X (1 .. MaxSeq) : e[2] <= Len(log[e[1]])}

StoreAppends(s, v) ==
  /\ pc[s] = Idle /\ Cardinality(Committed) < MaxSeq
  /\ log' = [log EXCEPT ![s] = Append(@, v)]
  /\ on' = [on EXCEPT ![s] = s]
  /\ ev' = [ev EXCEPT ![s] = Len(log[s]) + 1]
  /\ Goto(s, "get")
  /\ UNCHANGED <<kept, rebuilt, sink, disk, cursor, head, todo, reset, crashes,
                 ghosts>>

\* dispatch_commit: an event catch_up was faster with is not handed over.
GetWriter(s) ==
  /\ pc[s] = "get"
  /\ \/ /\ ev[s] > kept[s]
        /\ cursor' = [cursor EXCEPT ![s] = kept[s]]
        /\ Goto(s, "lock")
        /\ UNCHANGED <<on, ev, head, todo, reset>>
     \/ /\ ev[s] <= kept[s]
        /\ Return(s)
  /\ UNCHANGED <<log, kept, rebuilt, sink, disk, crashes, ghosts>>

Covered(p) == ev[p]

Contiguous(p) == ev[p] = cursor[p] + 1

\* A writer advances the checkpoint only contiguously; a checkpoint that cannot
\* be stored ends the keeper's work on the stream.
Advance(p) ==
  /\ pc[p] = "advance"
  /\ \/ /\ p = Keeper \/ Contiguous(p)
        /\ kept' = [kept EXCEPT ![on[p]] = Covered(p)]
        /\ \/ p # Keeper /\ Return(p)
           \/ /\ p = Keeper
              /\ cursor' = [cursor EXCEPT ![p] = ev[p]]
              /\ Goto(p, "read")
              /\ UNCHANGED <<on, ev, head, todo, reset>>
     \/ /\ Failures \/ (p # Keeper /\ ~Contiguous(p))
        /\ GiveUp(p)
        /\ UNCHANGED kept
  /\ UNCHANGED <<log, rebuilt, sink, disk, crashes, ghosts>>

\* Slip: the sink is not asked whether it needs a rebuild.
Never == FALSE

\* The first catch_up of a process.
Escalates == ~rebuilt

CatchUp ==
  /\ pc[Keeper] = Idle
  /\ reset' = Escalates
  /\ todo' = {s \in Streams : log[s] # <<>>}
  /\ Goto(Keeper, "next")
  /\ UNCHANGED <<log, kept, rebuilt, sink, disk, on, ev, cursor, head, crashes, ghosts>>

NextStream ==
  /\ pc[Keeper] = "next"
  /\ \/ \E s \in todo :
          /\ on' = [on EXCEPT ![Keeper] = s]
          /\ todo' = todo \ {s}
          /\ Goto(Keeper, IF reset THEN "reset" ELSE "head")
          /\ UNCHANGED <<rebuilt, ev, cursor, head, reset>>
     \/ /\ todo = {}
        /\ rebuilt' = TRUE
        /\ Return(Keeper)
  /\ UNCHANGED <<log, kept, sink, disk, crashes, ghosts>>

\* A failing put is ignored; the old checkpoint is then read back.
Reset ==
  /\ pc[Keeper] = "reset"
  /\ \/ /\ kept' = [kept EXCEPT ![on[Keeper]] = 0]
        /\ UNCHANGED unreset
     \/ /\ Failures
        /\ unreset' = unreset \cup {on[Keeper]}
        /\ UNCHANGED kept
  /\ Goto(Keeper, "head")
  /\ UNCHANGED <<log, rebuilt, sink, disk, local, crashes, clean, unhashed>>

ReadHead ==
  /\ pc[Keeper] = "head"
  /\ head' = Len(log[on[Keeper]])
  /\ Goto(Keeper, "cursor")
  /\ UNCHANGED <<log, kept, rebuilt, sink, disk, on, ev, cursor, todo, reset, crashes,
                 ghosts>>

GetKeeper ==
  /\ pc[Keeper] = "cursor"
  /\ cursor' = [cursor EXCEPT ![Keeper] = kept[on[Keeper]]]
  /\ Goto(Keeper, "read")
  /\ UNCHANGED <<log, kept, rebuilt, sink, disk, on, ev, head, todo, reset, crashes,
                 ghosts>>

ReadEvent ==
  /\ pc[Keeper] = "read"
  /\ \/ /\ cursor[Keeper] < head
        /\ ev' = [ev EXCEPT ![Keeper] = cursor[Keeper] + 1]
        /\ Goto(Keeper, "lock")
     \/ /\ cursor[Keeper] >= head
        /\ Goto(Keeper, "next")
        /\ UNCHANGED ev
  /\ UNCHANGED <<log, kept, rebuilt, sink, disk, on, cursor, head, todo, reset, crashes,
                 ghosts>>

-----------------------------------------------------------------------------
\* A future is dropped at an await, which releases the Mutex.  A rename that
\* is done by then stays done.
Drop(p) ==
  /\ Failures /\ pc[p] # Idle
  /\ Abandon(p)
  /\ unhashed' = (unhashed \/ pc[p] = "hash")
  /\ Release(p)
  /\ Return(p)
  /\ UNCHANGED <<log, kept, rebuilt, streams, hash, file, crashes, clean, unreset>>

Restart ==
  /\ crashes < MaxCrashes
  /\ crashes' = crashes + 1
  /\ streams' = NoStreams /\ hash' = None /\ holder' = None /\ rebuilt' = FALSE
  /\ pc' = [p \in Procs |-> Idle]
  /\ partial' = IF \E p \in Procs : pc[p] \in {"write", "rename"} THEN Torn ELSE partial
  /\ on' = [p \in Procs |-> None]
  /\ ev' = [p \in Procs |-> 0] /\ cursor' = [p \in Procs |-> 0]
  /\ head' = 0 /\ todo' = {} /\ reset' = FALSE
  /\ clean' = FALSE /\ unhashed' = FALSE /\ unreset' = {}
  /\ UNCHANGED <<log, kept, file>>

Init ==
  /\ log = [s \in Streams |-> <<>>]
  /\ kept = [s \in Streams |-> 0]
  /\ rebuilt = FALSE
  /\ streams = NoStreams /\ hash = None /\ holder = None
  /\ file = None /\ partial = None
  /\ pc = [p \in Procs |-> Idle]
  /\ on = [p \in Procs |-> None]
  /\ ev = [p \in Procs |-> 0] /\ cursor = [p \in Procs |-> 0]
  /\ head = 0 /\ todo = {} /\ reset = FALSE /\ crashes = 0
  /\ clean = FALSE /\ unhashed = FALSE /\ unreset = {}

Commit(p) == Render(p) \/ Write(p) \/ Rename(p) \/ KeepHash(p) \/ Refuse(p)

Next ==
  \/ \E p \in Procs : Commit(p) \/ Advance(p) \/ Drop(p)
  \/ \E s \in Streams : GetWriter(s) \/ \E v \in Values : StoreAppends(s, v)
  \/ CatchUp \/ NextStream \/ Reset \/ ReadHead \/ GetKeeper \/ ReadEvent
  \/ Restart

Spec == Init /\ [][Next]_vars

-----------------------------------------------------------------------------
(* What a reader of the file may rely on.                                  *)

\* The file is never incomplete, although the commits of all streams and of
\* catch_up write the same temporary file and any of them may fail or be given
\* up between two system calls (combined.rs: "a concurrent reader of `path`
\* never observes a partial write").  A system call that goes on after its
\* future was dropped is left out.
FileIsWhole == file # Torn

\* After a commit that succeeded, written or skipped, the file shows the map
\* in memory: whatever earlier commits failed to write is made up for.  The
\* exception is a future dropped when the file was renamed and its hash not
\* yet kept: a later commit may then skip a write that is due.
FileShowsMap == clean /\ ~unhashed => file = streams

\* Once a process has caught up for the first time, the file has a section
\* for every stream whose checkpoint says that the sink has taken something:
\* a restart and a catch_up truncate nothing (combined.rs,
\* requires_rebuild_on_attach: "closing the silent truncation on
\* restart-then-catch-up failure mode"), unless the reset of a checkpoint
\* failed.
NothingTruncated ==
  rebuilt => \A s \in Streams \ unreset : kept[s] > 0 =>
    /\ streams[s] # None
    /\ clean /\ ~unhashed => file[s] # None
=============================================================================
