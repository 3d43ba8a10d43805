------------------------------ MODULE EventLog ------------------------------
(***************************************************************************)
(* One stream of the append-only log as a value: a function from the       *)
(* coordinates (Seq) that hold an event to those events.  Coordinates start*)
(* at 1; a compaction leaves a gap below its snapshot, so the domain is not*)
(* an interval.  The operators are the queries the backends answer, each   *)
(* atomically: the SQLite backend runs every one of them as one job of its *)
(* single connection thread, the memory backend under its own mutex.       *)
(***************************************************************************)
EXTENDS Naturals, FiniteSets, Documents

Seq0 == 0                                  \* Seq::ZERO, "before any event"

EditKind == "edit"                         \* any kind the consumer chooses
RevertKind == "reverted"
TombstoneKind == "tombstoned"
SnapshotKind == "compacted"
Kinds == {EditKind, RevertKind, TombstoneKind, SnapshotKind}

Event == [kind: Kinds, patch: Patch]

\* EventBackend::head, with Seq0 for None.
HeadSeq(log) ==
  IF DOMAIN log = {} THEN Seq0
  ELSE CHOOSE n \in DOMAIN log : \A m \in DOMAIN log : m <= n

Earliest(log) == CHOOSE n \in DOMAIN log : \A m \in DOMAIN log : n <= m

\* EventBackend::compaction_boundary, with Seq0 for None: the coordinate of
\* the earliest event, if that event is a snapshot.
Boundary(log) ==
  IF DOMAIN log # {} /\ log[Earliest(log)].kind = SnapshotKind
  THEN Earliest(log) ELSE Seq0

\* Slip: the window starts one event too late.
WindowLate(log, from, to) == [n \in DOMAIN log \cap ((from + 1) .. to) |-> log[n]]

\* The events of log with coordinates in from..to, as the replay sees them.
Window(log, from, to) == [n \in DOMAIN log \cap (from .. to) |-> log[n]]

\* The first event at or after a coordinate: EventBackend::read with limit 1.
FirstFrom(log, from) ==
  LET S == {n \in DOMAIN log : n >= from}
  IN  CHOOSE n \in S : \A m \in S : n <= m

\* Slip: the next coordinate is the head itself.
AppendedAtHead(log, ev) ==
  [n \in DOMAIN log \cup {HeadSeq(log)} |-> IF n = HeadSeq(log) THEN ev ELSE log[n]]

\* MAX(seq) + 1, whatever the gaps below.
Appended(log, ev) ==
  [n \in DOMAIN log \cup {HeadSeq(log) + 1} |->
     IF n = HeadSeq(log) + 1 THEN ev ELSE log[n]]

\* Slip: the prefix deleted reaches one event beyond the snapshot.
CompactedTooFar(log, upTo, d) ==
  [n \in (DOMAIN log \ (1 .. (upTo + 1))) \cup {upTo} |->
     IF n = upTo THEN [kind |-> SnapshotKind, patch |-> Replace(d)] ELSE log[n]]

\* The maintenance transaction: drop 1..upTo, put a snapshot of d at upTo.
Compacted(log, upTo, d) ==
  [n \in (DOMAIN log \ (1 .. upTo)) \cup {upTo} |->
     IF n = upTo THEN [kind |-> SnapshotKind, patch |-> Replace(d)] ELSE log[n]]

-----------------------------------------------------------------------------
(* Snapshots of materialized states, keyed by coordinate (CacheBackend).   *)

\* Slip: the snapshot is filed under the coordinate of the next event.
PutAhead(cache, n, d) ==
  [m \in DOMAIN cache \cup {n + 1} |-> IF m = n + 1 THEN d ELSE cache[m]]

Put(cache, n, d) ==
  [m \in DOMAIN cache \cup {n} |-> IF m = n THEN d ELSE cache[m]]

\* Slip: the lookup forgets the coordinate asked for.
CachedAnywhere(cache, at) == DOMAIN cache

Cached(cache, at) == {n \in DOMAIN cache : n <= at}

\* CacheBackend::nearest, with Seq0 (where every stream is Null) for None.
Nearest(cache, at) ==
  IF Cached(cache, at) = {} THEN Seq0
  ELSE CHOOSE n \in Cached(cache, at) : \A m \in Cached(cache, at) : m <= n

Without(cache, S) == [n \in DOMAIN cache \ S |-> cache[n]]

\* CacheBackend::prune keeps the `keep' entries with the largest coordinates.
Pruned(cache, keep) ==
  Without(cache, {n \in DOMAIN cache :
                    Cardinality({m \in DOMAIN cache : m > n}) >= keep})
=============================================================================
