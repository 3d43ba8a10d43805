------------------------------ MODULE Backfill ------------------------------
(***************************************************************************)
(* catch_up over all streams of a file, with its report, for a sink whose  *)
(* output and checkpoints are in that file: the read model of SqliteStore. *)
(* Several stores, each a process with the file open, attach the sink when *)
(* they are built, append and dispatch, catch up, rebuild, and stop        *)
(* (facade/lifecycle.rs, dispatcher.rs, sqlite/store.rs).                  *)
(*                                                                         *)
(* A stream is the set of coordinates that hold an event, whose patch      *)
(* applies to the state before it or does not (`bad').  checkpoint_get and *)
(* checkpoint_advance are one step each, and so is a dispatch: SinkDispatch*)
(* has their awaits, for one stream and one store.  A store makes one write*)
(* at a time and, beside it, one call of catch_up or rebuild.              *)
(***************************************************************************)
EXTENDS Naturals, FiniteSets

CONSTANTS
  Stores,      \* processes with the file open
  Streams,
  Menu,        \* what a store does once it is built
  Unknown,     \* no entry in memory
  Batch,       \* events per read (32 in the code)
  Wrap,        \* counters of the report are modulo this (2^64 in the code)
  MaxEvents,   \* bound: the events of all streams
  MaxFaults    \* bound: failures of the sink and of the checkpoint table, and
               \* processes that stop

\* OpenStore assumes it.
BackfillConstants ==
  /\ Menu \in [Stores -> SUBSET {"catch_up", "rebuild", "write", "compact"}]
  /\ Unknown \notin Nat
  /\ Batch \in Nat \ {0} /\ MaxEvents \in Nat /\ Wrap \in Nat
  /\ Wrap > 2 * MaxEvents
  /\ MaxFaults \in Nat

VARIABLES
  log,      \* coordinates that have a row in events
  base,     \* the coordinate of a stream's snapshot, 0 for none
  bad,      \* coordinates whose patch does not apply
  saved,    \* sink_checkpoints
  taken,    \* coordinates the sink has taken
  memory,   \* of a store: SinkDispatcher::checkpoints
  ready,    \* stores whose constructor has returned
  writing,  \* of a store: the write it is making
  pc, reset,       \* of its call: the await it is at; it is a rebuild
  left, on,        \* streams to come; the one it is at
  head, cursor,    \* the head it saw of that one, and how far it is
  todo, running,   \* the rest of the batch; it has a running state
  report,
  ghost,    \* history variable: what the report should account for
  faults

fileVars == <<log, base, bad, saved, taken>>
storeVars == <<memory, ready, writing>>
streamVars == <<on, head, cursor, todo, running>>
callVars == <<pc, reset, left, streamVars, report, ghost>>
backfillVars == <<fileVars, storeVars, callVars, faults>>

NoStream == "none"

LastOf(S) == IF S = {} THEN 0 ELSE CHOOSE n \in S : \A m \in S : m <= n
Least(S) == CHOOSE n \in S : \A m \in S : n <= m
Written == Cardinality(UNION {{s} \X (1 .. LastOf(log[s])) : s \in Streams})
FirstFew(S, k) == {n \in S : Cardinality({m \in S : m < n}) < k}

\* A fault, where there can still be one.
May == faults < MaxFaults
Fault == May /\ faults' = faults + 1

Goto(p, label) == pc' = [pc EXCEPT ![p] = label]

EmptyReport == [applied |-> 0, skipped |-> 0, failed |-> 0, failures |-> {}]

\* due: events between the checkpoint and the head, and those met beyond it;
\* steady: no compaction; over: the call failed on an event beyond its head;
\* owed: the heads when it began.
NoGhost == [due |-> 0, steady |-> TRUE, over |-> FALSE,
            owed |-> [s \in Streams |-> 0]]

\* state_at(n): n is not compacted, and every patch up to it applies.
Readable(s, n) == n >= base[s] /\ \A m \in bad[s] : base[s] < m => n < m

-----------------------------------------------------------------------------
(* One stream of a call.                                                   *)

LeaveStream(p) ==
  /\ on' = [on EXCEPT ![p] = NoStream]
  /\ head' = [head EXCEPT ![p] = 0]
  /\ cursor' = [cursor EXCEPT ![p] = 0]
  /\ todo' = [todo EXCEPT ![p] = {}]
  /\ running' = [running EXCEPT ![p] = FALSE]

\* checkpoint_get: the entry in memory, or what is saved; a failing read
\* counts as no checkpoint.
Checkpoint(p, s) == IF memory[p][s] = Unknown THEN saved[s] ELSE memory[p][s]

GotCheckpoint(p, s, c) ==
  \/ c = Checkpoint(p, s) /\ UNCHANGED faults
  \/ memory[p][s] = Unknown /\ c = 0 /\ saved[s] # 0 /\ Fault

\* The next stream, in whatever order `streams' gave them (the read model
\* accepts every stream), and its head.  A rebuild resets the checkpoint
\* first, in memory and, if that put succeeds, in the file.
NextStream(p) ==
  /\ pc[p] = "next"
  /\ \E s \in left[p] :
       /\ left' = [left EXCEPT ![p] = @ \ {s}]
       /\ on' = [on EXCEPT ![p] = s]
       /\ head' = [head EXCEPT ![p] = LastOf(log[s])]
       /\ \/ ~reset[p] /\ UNCHANGED <<memory, saved, faults>>
          \/ /\ reset[p]
             /\ memory' = [memory EXCEPT ![p][s] = Unknown]
             /\ \/ saved' = [saved EXCEPT ![s] = 0] /\ UNCHANGED faults
                \/ Fault /\ UNCHANGED saved
  /\ Goto(p, "checkpoint")
  /\ UNCHANGED <<log, base, bad, taken, ready, writing, reset, cursor, todo,
                 running, report, ghost>>

GetCheckpoint(p) ==
  /\ pc[p] = "checkpoint"
  /\ \E c \in {0, Checkpoint(p, on[p])} :
       /\ GotCheckpoint(p, on[p], c)
       /\ memory' = [memory EXCEPT ![p][on[p]] = c]
       /\ \/ /\ c < head[p]
             /\ cursor' = [cursor EXCEPT ![p] = c]
             /\ ghost' = [ghost EXCEPT ![p].due = @ +
                            Cardinality({n \in log[on[p]] : c < n /\ n <= head[p]})]
             /\ Goto(p, "read")
             /\ UNCHANGED <<on, head, todo, running>>
          \/ /\ c >= head[p]
             /\ Goto(p, "next")
             /\ LeaveStream(p)
             /\ UNCHANGED ghost
  /\ UNCHANGED <<fileVars, ready, writing, reset, left, report>>

\* Slip: the read starts behind the event after the cursor.
BehindNext(p) == {n \in log[on[p]] : n > cursor[p] + 1}

FromNext(p) == {n \in log[on[p]] : n > cursor[p]}

\* An empty batch would be the end of the stream, but the row of the head is
\* always there.
ReadBatch(p) ==
  /\ pc[p] = "read"
  /\ LET batch == FirstFew(FromNext(p), Batch) IN
       IF batch = {}
       THEN Goto(p, "next") /\ LeaveStream(p)
       ELSE /\ todo' = [todo EXCEPT ![p] = batch]
            /\ Goto(p, "state")
            /\ UNCHANGED <<on, head, cursor, running>>
  /\ UNCHANGED <<fileVars, storeVars, reset, left, report, ghost, faults>>

\* Slip: the failing event is counted as skipped, too.
WithItself(p, n) == (head[p] + 1 + Wrap - n) % Wrap

\* head.0 - ev.seq.0, of unsigned integers.
Rest(p, n) == (head[p] + Wrap - n) % Wrap

\* The stream is given up: one failure, and the rest is skipped.
GiveUpStream(p, n) ==
  /\ report' = [report EXCEPT ![p].failed = @ + 1,
                              ![p].failures = @ \cup {on[p]},
                              ![p].skipped = (@ + Rest(p, n)) % Wrap]
  /\ ghost' = [ghost EXCEPT ![p].over = @ \/ n > head[p]]
  /\ Goto(p, "next")
  /\ LeaveStream(p)
  /\ UNCHANGED left

\* The running state is patched forward.
Fold(p, n) ==
  /\ running[p]
  /\ \/ /\ n \notin bad[on[p]]
        /\ Goto(p, "sink")
        /\ UNCHANGED <<left, streamVars, report, ghost>>
     \/ n \in bad[on[p]] /\ GiveUpStream(p, n)

\* The first state of a stream is read with state_at, and its error is
\* returned: the streams that are left go without their turn.
Bootstrap(p, n) ==
  /\ ~running[p]
  /\ IF Readable(on[p], n)
     THEN /\ Goto(p, "sink")
          /\ running' = [running EXCEPT ![p] = TRUE]
          /\ UNCHANGED <<on, head, cursor, todo>>
     ELSE /\ Goto(p, "failed")
          /\ LeaveStream(p)
  /\ UNCHANGED <<left, report, ghost>>

TakeState(p) ==
  /\ pc[p] = "state"
  /\ LET n == Least(todo[p]) IN Fold(p, n) \/ Bootstrap(p, n)
  /\ UNCHANGED <<fileVars, storeVars, reset, faults>>

\* After an event: the next of the batch, the next batch, the next stream.
GoOn(p, n) ==
  \/ /\ todo[p] # {n} \/ n < head[p]
     /\ todo' = [todo EXCEPT ![p] = @ \ {n}]
     /\ cursor' = [cursor EXCEPT ![p] = n]
     /\ Goto(p, IF todo[p] # {n} THEN "state" ELSE "read")
     /\ UNCHANGED <<on, head, running>>
  \/ /\ todo[p] = {n} /\ n >= head[p]
     /\ Goto(p, "next")
     /\ LeaveStream(p)

\* ProjectionSink::commit and checkpoint_advance succeed.
Apply(p) ==
  /\ pc[p] = "sink"
  /\ LET n == Least(todo[p]) IN
       /\ taken' = [taken EXCEPT ![on[p]] = @ \cup {n}]
       /\ saved' = [saved EXCEPT ![on[p]] = n]
       /\ memory' = [memory EXCEPT ![p][on[p]] = n]
       /\ report' = [report EXCEPT ![p].applied = @ + 1]
       /\ ghost' = [ghost EXCEPT ![p].due = @ + IF n > head[p] THEN 1 ELSE 0]
       /\ GoOn(p, n)
  /\ UNCHANGED <<log, base, bad, ready, writing, reset, left, faults>>

\* The commit fails, or the checkpoint after it.
Refuse(p) ==
  /\ pc[p] = "sink" /\ Fault
  /\ LET n == Least(todo[p]) IN
       /\ taken' \in {taken, [taken EXCEPT ![on[p]] = @ \cup {n}]}
       /\ GiveUpStream(p, n)
  /\ UNCHANGED <<log, base, bad, saved, storeVars, reset>>

-----------------------------------------------------------------------------
(* A call.                                                                 *)

\* events.streams(), and an empty report.
Begin(p, rebuild) ==
  /\ left' = [left EXCEPT ![p] = {s \in Streams : log[s] # {}}]
  /\ reset' = [reset EXCEPT ![p] = rebuild]
  /\ ghost' = [ghost EXCEPT ![p].owed = [s \in Streams |-> LastOf(log[s])]]
  /\ Goto(p, "next")
  /\ UNCHANGED <<fileVars, storeVars, streamVars, report, faults>>

\* SqliteStore::from_backends: the sink is registered, then caught up.  Nobody
\* but the constructor has the store before that succeeds.
Start(p) == pc[p] = "down" /\ Begin(p, FALSE)

CatchUp(p) ==
  /\ pc[p] = "idle"
  /\ \/ "catch_up" \in Menu[p] /\ Begin(p, FALSE)
     \/ "rebuild" \in Menu[p] /\ Begin(p, TRUE)

\* Ok with the report.
Return(p) ==
  /\ pc[p] = "next" /\ left[p] = {}
  /\ Goto(p, "returned")
  /\ UNCHANGED <<fileVars, storeVars, reset, left, streamVars, report, ghost, faults>>

Forget(p) ==
  /\ LeaveStream(p)
  /\ left' = [left EXCEPT ![p] = {}]
  /\ reset' = [reset EXCEPT ![p] = FALSE]
  /\ report' = [report EXCEPT ![p] = EmptyReport]
  /\ ghost' = [ghost EXCEPT ![p] = NoGhost]

\* attach_sink drops the report and the constructor hands out the store; an
\* error of a later call is its caller's.
Done(p) ==
  /\ pc[p] = "returned" \/ (pc[p] = "failed" /\ p \in ready)
  /\ ready' = ready \cup {p}
  /\ Goto(p, "idle")
  /\ Forget(p)
  /\ UNCHANGED <<fileVars, memory, writing, faults>>

\* The process ends, or the constructor fails and drops the store; checkpoints
\* in memory and a commit that is not dispatched yet are forgotten.
Stop(p) ==
  /\ pc[p] # "down"
  /\ IF pc[p] = "failed" /\ p \notin ready THEN UNCHANGED faults ELSE Fault
  /\ memory' = [memory EXCEPT ![p] = [s \in Streams |-> Unknown]]
  /\ ready' = ready \ {p}
  /\ writing' = [writing EXCEPT ![p] = <<>>]
  /\ Goto(p, "down")
  /\ Forget(p)
  /\ UNCHANGED fileVars

-----------------------------------------------------------------------------
(* A write of a store that has no gates, and its dispatch.                 *)

\* state(): the current state, and with it the coordinate it is of.
Prepare(p, s) ==
  /\ "write" \in Menu[p] /\ p \in ready /\ writing[p] = <<>>
  /\ Written < MaxEvents
  /\ Readable(s, LastOf(log[s]))
  /\ writing' = [writing EXCEPT ![p] = <<s, LastOf(log[s]), "prepared">>]
  /\ UNCHANGED <<fileVars, memory, ready, callVars, faults>>

\* The event is committed whether its patch applies or not.  One that does
\* not apply to the state in hand is reported and not dispatched; if another
\* store has committed in between, that is not the state it follows.
Commit(p, s) ==
  /\ writing[p] # <<>> /\ writing[p][1] = s /\ writing[p][3] = "prepared"
  /\ LET n == LastOf(log[s]) + 1 IN
       /\ Written < MaxEvents
       /\ log' = [log EXCEPT ![s] = @ \cup {n}]
       /\ \E fails, reported \in BOOLEAN :
            /\ n = writing[p][2] + 1 => reported = fails
            /\ bad' = [bad EXCEPT ![s] = IF fails THEN @ \cup {n} ELSE @]
            /\ writing' = [writing EXCEPT ![p] =
                             IF reported THEN <<>> ELSE <<s, n, "committed">>]
  /\ UNCHANGED <<base, saved, taken, memory, ready, callVars, faults>>

\* Slip: the dispatch of an event advances over a gap.
Always(n, c) == n > c

Contiguous(n, c) == n = c + 1

\* dispatch_commit, whose failures go to the observer.
Dispatch(p) ==
  /\ writing[p] # <<>> /\ writing[p][3] = "committed"
  /\ writing' = [writing EXCEPT ![p] = <<>>]
  /\ LET s == writing[p][1]
         n == writing[p][2] IN
       \E c \in {0, Checkpoint(p, s)} :
         \/ /\ n > c /\ GotCheckpoint(p, s, c)
            /\ taken' = [taken EXCEPT ![s] = @ \cup {n}]
            /\ memory' = [memory EXCEPT ![p][s] = IF Contiguous(n, c) THEN n ELSE c]
            /\ saved' = [saved EXCEPT ![s] = IF Contiguous(n, c) THEN n ELSE @]
         \/ /\ n > c /\ c = Checkpoint(p, s) /\ Fault
            /\ taken' \in {taken, [taken EXCEPT ![s] = @ \cup {n}]}
            /\ memory' = [memory EXCEPT ![p][s] = c]
            /\ UNCHANGED saved
         \/ /\ n <= c /\ c = Checkpoint(p, s)
            /\ memory' = [memory EXCEPT ![p][s] = c]
            /\ UNCHANGED <<taken, saved, faults>>
  /\ UNCHANGED <<log, base, bad, ready, callVars>>

\* compact_stream; StoreWrite has its steps.
Compact(p, s, k) ==
  /\ "compact" \in Menu[p] /\ p \in ready
  /\ k \in log[s] /\ Readable(s, k)
  /\ log' = [log EXCEPT ![s] = {n \in @ : n >= k}]
  /\ base' = [base EXCEPT ![s] = k]
  /\ ghost' = [q \in Stores |-> [ghost[q] EXCEPT !.steady = pc[q] \in {"down", "idle"}]]
  /\ UNCHANGED <<bad, saved, taken, storeVars, pc, reset, left, streamVars, report, faults>>

-----------------------------------------------------------------------------
BackfillStart ==
  /\ bad = [s \in Streams |-> {}]
  /\ saved = [s \in Streams |-> 0]
  /\ taken = [s \in Streams |-> {}]
  /\ memory = [p \in Stores |-> [s \in Streams |-> Unknown]]
  /\ ready = {}
  /\ writing = [p \in Stores |-> <<>>]
  /\ pc = [p \in Stores |-> "down"]
  /\ reset = [p \in Stores |-> FALSE]
  /\ left = [p \in Stores |-> {}]
  /\ on = [p \in Stores |-> NoStream]
  /\ head = [p \in Stores |-> 0]
  /\ cursor = [p \in Stores |-> 0]
  /\ todo = [p \in Stores |-> {}]
  /\ running = [p \in Stores |-> FALSE]
  /\ report = [p \in Stores |-> EmptyReport]
  /\ ghost = [p \in Stores |-> NoGhost]
  /\ faults = 0

BackfillInit ==
  /\ log = [s \in Streams |-> {}]
  /\ base = [s \in Streams |-> 0]
  /\ BackfillStart

\* What a store does by itself, once it is being built.
Work(p) ==
  \/ NextStream(p) \/ GetCheckpoint(p) \/ ReadBatch(p)
  \/ TakeState(p) \/ Apply(p) \/ Refuse(p)
  \/ CatchUp(p) \/ Return(p) \/ Done(p)
  \/ Dispatch(p)
  \/ \E s \in Streams : Prepare(p, s)

BackfillNext ==
  \/ \E p \in Stores : Work(p) \/ Start(p) \/ Stop(p)
  \/ \E p \in Stores, s \in Streams : Commit(p, s)
  \/ \E p \in Stores, s \in Streams : \E k \in log[s] : Compact(p, s, k)

BackfillSpec == BackfillInit /\ [][BackfillNext]_backfillVars

-----------------------------------------------------------------------------
(* Properties.                                                             *)

\* Neither the checkpoints in the file, which all stores overwrite, nor those
\* a store remembers are past the head or cover an event the sink has not
\* taken: two processes on one file, of which either may stop, skip nothing for
\* good.
CheckpointsCover ==
  \A s \in Streams :
    \A c \in {saved[s]} \cup ({memory[p][s] : p \in Stores} \ {Unknown}) :
      /\ c <= LastOf(log[s])
      /\ \A n \in log[s] : n <= c => n \in taken[s]

\* A call that returns Ok has driven every stream it does not name as failed
\* up to the head it had when the call began, whatever other streams failed
\* (lifecycle.rs, catch_up_inner).
OkMeansDriven ==
  \A p \in Stores : pc[p] = "returned" =>
    \A s \in Streams \ report[p].failures :
      \A n \in log[s] : n <= ghost[p].owed[s] => n \in taken[s]

\* The report accounts for every event that was due, as applied, failed or
\* skipped (sink.rs, CatchUpReport), unless a compaction took some away or the
\* call failed on an event appended after it had read the head.
ReportAccounts ==
  \A p \in Stores : pc[p] = "returned" /\ ghost[p].steady /\ ~ghost[p].over =>
    report[p].applied + report[p].failed + report[p].skipped = ghost[p].due
=============================================================================
