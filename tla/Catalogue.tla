----------------------------- MODULE Catalogue -----------------------------
(***************************************************************************)
(* What is found in a stream other than by its coordinates: labels, the    *)
(* state of a time, events by their meta, the streams that are live; in    *)
(* both backends (facade/labels.rs, facade/read.rs, ai-store-sqlite        *)
(* backend.rs, ai-store-mem event.rs, and the default read_by_meta).       *)
(*                                                                         *)
(* One stream and one sink, which shows for every label the state it was   *)
(* last told of.  An event is its kind, its time and whether its meta has  *)
(* the value that read_by_meta looks for.  state_at and compact_stream are *)
(* one step each: StoreWrite has their awaits.                             *)
(***************************************************************************)
EXTENDS Naturals, FiniteSets, Sequences

CONSTANTS
  Callers,
  Menu,       \* what a caller may ask: "label", "resolve", "list", "scan"
  Labels,
  Times,      \* the times that are asked for
  EventMenu,  \* what may be appended: records [kind, at, tag]
  Page,       \* events per read of read_by_meta (BATCH, 128 in the code)
  Limit,      \* the limit of read_by_meta
  MaxEvents   \* bound: the events of the stream

ASSUME CatalogueAssumption ==
  /\ Menu \in [Callers -> SUBSET {"label", "resolve", "list", "scan"}]
  /\ Times \subseteq Nat
  /\ EventMenu \subseteq [kind : {"put", "tombstone"}, at : Times, tag : BOOLEAN]
  /\ Page \in Nat \ {0} /\ Limit \in Nat \ {0} /\ MaxEvents \in Nat

VARIABLES
  backend,  \* "sqlite" or "mem"
  past,     \* history variable: every event, as it was appended
  events,   \* the rows: a function from coordinates
  base,     \* the coordinate of the snapshot, 0 for none
  entry,    \* MemEventBackend::inner has the stream
  label,    \* the table of labels: a coordinate, 0 for none
  output,   \* what the sink shows for a label
  settled,  \* history variable: nobody has changed the label since the call
            \* that told the sink last, and that call met no other
  pc,       \* of a caller: the await its call is at
  on, at,   \* its label, and the coordinate it asked for or has been given
  got,      \* the coordinates of the events it has read
  ghost     \* history variable: what its answer is compared with

logVars == <<past, events, base, entry>>
labelVars == <<label, output, settled>>
callVars == <<pc, on, at, got, ghost>>
vars == <<backend, logVars, labelVars, callVars>>

NoLabel == "none"
LastOf(S) == IF S = {} THEN 0 ELSE CHOOSE n \in S : \A m \in S : m <= n
FirstFew(S, k) == {n \in S : Cardinality({m \in S : m < n}) < k}

Rows == DOMAIN events
HeadRow == LastOf(Rows)

\* EventBackend::read: up to k events, from a coordinate on.
Read(from, k) == FirstFew({n \in Rows : n >= from}, k)

\* alone: no other call has been about the label since this one began; alive,
\* gone: the stream has been so since then; from: the coordinate it asked for;
\* want: what a query gives at the end.
NoGhost == [alone |-> TRUE, alive |-> FALSE, gone |-> FALSE, from |-> 0, want |-> {}]

-----------------------------------------------------------------------------
(* Calls.                                                                  *)

Goto(c, step) == pc' = [pc EXCEPT ![c] = step]

Return(c) ==
  /\ Goto(c, "idle")
  /\ on' = [on EXCEPT ![c] = NoLabel]
  /\ at' = [at EXCEPT ![c] = 0]
  /\ got' = [got EXCEPT ![c] = {}]

Forget(c) == ghost' = [ghost EXCEPT ![c] = NoGhost]

Asks(c, what) == pc[c] = "idle" /\ what \in Menu[c]

Deleted(log) == log # <<>> /\ log[Len(log)].kind = "tombstone"

\* Every call of streams_live that is under way sees the stream as it is now.
SeenBy(g, log) ==
  [g EXCEPT !.alive = @ \/ (log # <<>> /\ ~Deleted(log)), !.gone = @ \/ Deleted(log)]

-----------------------------------------------------------------------------
(* The log.                                                                *)

\* append, delete and import_event: the next coordinate, and a time of the
\* clock or of the caller.
Commit(event) ==
  /\ Len(past) < MaxEvents
  /\ past' = Append(past, event)
  /\ events' = [n \in Rows \cup {HeadRow + 1} |->
                  IF n = HeadRow + 1 THEN event ELSE events[n]]
  /\ entry' = TRUE
  /\ ghost' = [c \in Callers |->
                 IF pc[c] \in {"head", "last"} THEN SeenBy(ghost[c], past') ELSE ghost[c]]
  /\ UNCHANGED <<backend, base, labelVars, pc, on, at, got>>

\* Slip: the snapshot has the time of the compaction.
SnapshotNow(k) == [kind |-> "snapshot", at |-> LastOf(Times), tag |-> FALSE]

\* It takes the place, and the time, of the event at its coordinate.
Snapshot(k) == [kind |-> "snapshot", at |-> events[k].at, tag |-> FALSE]

\* Slip: the snapshot is not inserted.
RowsAbove(k) == {n \in Rows : n > k}

RowsKept(k) == {n \in Rows : n >= k}

\* compact_stream, which SQLite alone has.  The labels stay.
Compact(k) ==
  /\ backend = "sqlite" /\ k \in Rows
  /\ base' = k
  /\ events' = [n \in RowsKept(k) |-> IF n = k THEN Snapshot(k) ELSE events[n]]
  /\ UNCHANGED <<backend, past, entry, labelVars, callVars>>

-----------------------------------------------------------------------------
(* Labels.  No lock is taken: between the change of the table and the sink *)
(* there is whatever another call does.                                    *)

Telling == {"state", "event", "tell", "untell"}
Others(c, l) == {d \in Callers \ {c} : pc[d] \in Telling /\ on[d] = l}

\* The label has been changed by c, which has to tell the sink.
Changed(c, l, n) ==
  /\ label' = [label EXCEPT ![l] = n]
  /\ settled' = [settled EXCEPT ![l] = FALSE]
  /\ on' = [on EXCEPT ![c] = l]
  /\ at' = [at EXCEPT ![c] = n]
  /\ ghost' = [d \in Callers |->
                 IF d \in Others(c, l) \/ (d = c /\ Others(c, l) # {})
                 THEN [ghost[d] EXCEPT !.alone = FALSE] ELSE ghost[d]]
  /\ UNCHANGED <<backend, logVars, output, got>>

\* Slip: dangling labels are not rejected.
Whatever(n) == TRUE

Exists(n) == n \in Rows

LabelSet(c, l, n) ==
  /\ Asks(c, "label") /\ Exists(n)
  /\ Goto(c, "state")
  /\ Changed(c, l, n)

\* SeqOutOfRange; the backend in memory has made an entry for the stream.
LabelRejected(c, n) ==
  /\ Asks(c, "label") /\ ~Exists(n)
  /\ entry' = (entry \/ backend = "mem")
  /\ UNCHANGED <<backend, past, events, base, labelVars, callVars>>

LabelDelete(c, l) ==
  /\ Asks(c, "label") /\ label[l] # 0
  /\ Goto(c, "untell")
  /\ Changed(c, l, 0)

\* state_at is one await of label_set: SeqCompacted is returned to the caller,
\* although the label has been set.
LabelState(c) ==
  /\ pc[c] = "state" /\ at[c] >= base
  /\ Goto(c, "event")
  /\ UNCHANGED <<backend, logVars, labelVars, on, at, got, ghost>>

\* The first event at or after the coordinate.
LabelEvent(c) ==
  /\ pc[c] = "event"
  /\ got' = [got EXCEPT ![c] = Read(at[c], 1)]
  /\ Goto(c, "tell")
  /\ UNCHANGED <<backend, logVars, labelVars, on, at, ghost>>

\* Slip: the sink is told of the event's coordinate.
OfEvent(c) == LastOf(got[c])

Told(c) == at[c]

\* on_label_set or on_label_deleted, with success.
Tell(c) ==
  /\ pc[c] \in {"tell", "untell"}
  /\ output' = [output EXCEPT ![on[c]] = IF pc[c] = "tell" THEN Told(c) ELSE 0]
  /\ settled' = [settled EXCEPT ![on[c]] = ghost[c].alone]
  /\ Return(c) /\ Forget(c)
  /\ UNCHANGED <<backend, logVars, label>>

\* The state is compacted away or not to be had, the event not to be read, the
\* sink fails, or the caller drops the future: the sink is not told.  A call of
\* the other kinds is at its end, or fails.
GiveUp(c) ==
  /\ pc[c] # "idle"
  /\ Return(c) /\ Forget(c)
  /\ UNCHANGED <<backend, logVars, labelVars>>

\* label_resolve, before a state_at of what it gives.
Resolve(c, l) ==
  /\ Asks(c, "resolve") /\ label[l] # 0
  /\ at' = [at EXCEPT ![c] = label[l]]
  /\ Goto(c, "resolved")
  /\ UNCHANGED <<backend, logVars, labelVars, on, got, ghost>>

-----------------------------------------------------------------------------
(* streams_live                                                            *)

\* streams: SQLite lists what has a row, the backend in memory its entries.
IsListed == IF backend = "mem" THEN entry ELSE Rows # {}

ListStreams(c) ==
  /\ Asks(c, "list") /\ IsListed
  /\ ghost' = [ghost EXCEPT ![c] = SeenBy(@, past)]
  /\ Goto(c, "head")
  /\ UNCHANGED <<backend, logVars, labelVars, on, at, got>>

\* An entry without events has no head, and is passed over.
ListHead(c) ==
  /\ pc[c] = "head" /\ Rows # {}
  /\ at' = [at EXCEPT ![c] = HeadRow]
  /\ Goto(c, "last")
  /\ UNCHANGED <<backend, logVars, labelVars, on, got, ghost>>

\* Slip: a stream that has been deleted once is not live.
AnyTombstone(n) == \E m \in 1 .. n : past[m].kind = "tombstone"

IsTombstone(n) == events[n].kind = "tombstone"

ListLast(c) ==
  /\ pc[c] = "last"
  /\ \E n \in Read(at[c], 1) : Goto(c, IF IsTombstone(n) THEN "gone" ELSE "live")
  /\ UNCHANGED <<backend, logVars, labelVars, on, at, got, ghost>>

-----------------------------------------------------------------------------
(* read_by_meta, and seq_at_time.                                          *)

\* The query of SQLite.
ByMeta(from) == FirstFew({n \in Rows : n >= from /\ events[n].tag}, Limit)

Ask(c) ==
  /\ Asks(c, "scan")
  /\ \E from \in 1 .. MaxEvents :
       /\ at' = [at EXCEPT ![c] = from]
       /\ \/ /\ backend = "sqlite"
             /\ got' = [got EXCEPT ![c] = ByMeta(from)]
             /\ Goto(c, "found")
             /\ ghost' = [ghost EXCEPT ![c].from = from, ![c].want = ByMeta(from)]
          \/ /\ backend = "mem"
             /\ Goto(c, "page")
             /\ ghost' = [ghost EXCEPT ![c].from = from]
             /\ UNCHANGED got
  /\ UNCHANGED <<backend, logVars, labelVars, on>>

\* Slip: the cursor is moved by the size of a page that may be short.
PastPage(c, page) == at[c] + Page

AfterLast(c, page) == LastOf(page) + 1

\* The default of the trait: page after page, until one is empty or the limit
\* is reached.
ScanPage(c) ==
  /\ pc[c] = "page"
  /\ LET page == Read(at[c], Page)
         hits == FirstFew(got[c] \cup {n \in page : events[n].tag}, Limit) IN
       /\ got' = [got EXCEPT ![c] = hits]
       /\ IF page = {} \/ Cardinality(hits) = Limit
          THEN /\ ghost' = [ghost EXCEPT ![c].want = ByMeta(ghost[c].from)]
               /\ Goto(c, "found")
               /\ UNCHANGED at
          ELSE /\ at' = [at EXCEPT ![c] = AfterLast(c, page)]
               /\ UNCHANGED <<pc, ghost>>
  /\ UNCHANGED <<backend, logVars, labelVars, on>>

\* ORDER BY at_ms, seq.
Ordered(m, n) ==
  events[m].at < events[n].at \/ (events[m].at = events[n].at /\ m <= n)

\* The last row of those up to the time; in memory, the last coordinate.
SeqAtTime(time) ==
  LET upto == {n \in Rows : events[n].at <= time} IN
    IF backend = "mem" \/ upto = {} THEN LastOf(upto)
    ELSE CHOOSE n \in upto : \A m \in upto : Ordered(m, n)

-----------------------------------------------------------------------------
Init ==
  /\ backend \in {"sqlite", "mem"}
  /\ past = <<>> /\ events = <<>> /\ base = 0 /\ entry = FALSE
  /\ label = [l \in Labels |-> 0]
  /\ output = [l \in Labels |-> 0]
  /\ settled = [l \in Labels |-> TRUE]
  /\ pc = [c \in Callers |-> "idle"]
  /\ on = [c \in Callers |-> NoLabel]
  /\ at = [c \in Callers |-> 0]
  /\ got = [c \in Callers |-> {}]
  /\ ghost = [c \in Callers |-> NoGhost]

LabelCalls(c) ==
  \/ \E l \in Labels : LabelDelete(c, l) \/ Resolve(c, l)
  \/ \E l \in Labels, n \in 1 .. MaxEvents : LabelSet(c, l, n)
  \/ \E n \in 1 .. MaxEvents : LabelRejected(c, n)
  \/ LabelState(c) \/ LabelEvent(c) \/ Tell(c)

Listing(c) == ListStreams(c) \/ ListHead(c) \/ ListLast(c)
Scan(c) == Ask(c) \/ ScanPage(c)

Next ==
  \/ \E event \in EventMenu : Commit(event)
  \/ \E k \in Rows : Compact(k)
  \/ \E c \in Callers : LabelCalls(c) \/ Listing(c) \/ Scan(c) \/ GiveUp(c)

Spec == Init /\ [][Next]_vars

-----------------------------------------------------------------------------
(* Properties.                                                             *)

\* A label never points at nothing: where it points, and where a caller that
\* resolved it a while ago goes, there is an event or a compaction has been, so
\* that state_at gives a state or SeqCompacted, and never SeqOutOfRange.
LabelsPoint ==
  \A n \in {label[l] : l \in Labels} \cup {at[c] : c \in {d \in Callers : pc[d] = "resolved"}} :
    n # 0 => n \in Rows \/ n < base

\* label_set hands the sink the event the label points at, although it reads it
\* in another await than it set the label, unless that event has been compacted
\* away in between.
NotifiedEvent ==
  \A c \in Callers : pc[c] = "tell" => got[c] = {at[c]} \/ at[c] < base

\* The sink shows a label where the table has it, after a call for the label
\* that succeeded and met no other.  (Of two calls that overlap the sink may
\* hear in the other order; no lock is taken.)
OutputAgrees == \A l \in Labels : settled[l] => output[l] = label[l]

\* streams_live reads the head and the event there in two awaits.  It lists a
\* stream that was live at some moment of the call, and leaves out one that was
\* deleted at some; but a compaction at the head makes a deleted stream live.
LiveIsJustified ==
  \A c \in Callers :
    /\ pc[c] = "live" => ghost[c].alive \/ (past[at[c]].kind = "tombstone" /\ at[c] <= base)
    /\ pc[c] = "gone" => ghost[c].gone

\* As long as times do not go back, both backends find the state of a time: the
\* last event up to it, or none when that is compacted away.  A snapshot keeps
\* the time of the event it replaces, and events of one millisecond count in
\* the order of their coordinates.
TimeAnswers ==
  (\A m, n \in 1 .. Len(past) : m <= n => past[m].at <= past[n].at) =>
    \A time \in Times :
      LET last == LastOf({n \in 1 .. Len(past) : past[n].at <= time}) IN
        SeqAtTime(time) = IF last < base THEN 0 ELSE last

\* The paged scan of a growing log gives what one query would at its end.
ScanLikeQuery == \A c \in Callers : pc[c] = "found" => got[c] = ghost[c].want
=============================================================================
