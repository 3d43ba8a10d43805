---------------------------- MODULE MCStoreWrite ----------------------------
(***************************************************************************)
(* Instances of StoreWrite for TLC: two or three callers of one or two Store*)
(* instances, objects with at most one member, logs of three or four       *)
(* events.  Each menu gives a caller the calls a run is about.             *)
(***************************************************************************)
EXTENDS StoreRefinement, StoreInvariant

CONSTANTS t1, t2, t3, i1, i2, a

OneHome == [t \in Tasks |-> i1]
TwoHomes == [t \in Tasks |-> IF t = t1 THEN i1 ELSE i2]

Call(mode, arg) == [mode |-> mode, kind |-> EditKind, patch |-> Nop, arg |-> arg]
WriteOf(mode, p, arg) == [mode |-> mode, kind |-> EditKind, patch |-> p, arg |-> arg]

\* The first event of a stream, and an addition and a removal that fail on
\* the states they do not fit.
Create == Replace({})
Add == Edit({}, {a})
Remove == Edit({a}, {})
AllPatches == {Create, Add, Remove}

\* A stream that starts with the member in place.
CreateFull == Replace({a})

Appends == {WriteOf("append", p, 0) : p \in AllPatches}
Delete == [mode |-> "append", kind |-> TombstoneKind, patch |-> Nop, arg |-> 0]
CasAppends(S) == {WriteOf("append_if_head", p, n) : p \in AllPatches, n \in S}
Reverts(S) == {[Call("revert", n) EXCEPT !.kind = RevertKind] : n \in S}
ReadsAt(S) == {Call("state_at", n) : n \in S}
Compacts(S) == {Call("compact", n) : n \in S}

\* A schema (the state is an object), and a delete policy (only an empty
\* object may be deleted).
SchemaGates ==
  { {<<k, c, n>> \in Kinds \X Doc \X Doc : n # Null},
    {<<k, c, n>> \in Kinds \X Doc \X Doc : k = TombstoneKind => c = {}} }

NoGates == {}
Identity == [p \in Patch |-> p]

\* Schema evolution: an event that used to create an empty object is now read
\* as creating one with the member a.
Renaming == [p \in Patch |-> IF p = Create THEN Replace({a}) ELSE p]

WritersMenu ==
  [t \in Tasks |->
     IF t = t1 THEN Appends \cup {Delete} \cup CasAppends({0, 1})
     ELSE Appends \cup Reverts({1, 2}) \cup {Call("state", 0), Call("prune_cache", 0)}]

\* Appends and reverts, compactions, and reads, each by a caller of its own.
CompactionMenu ==
  [t \in Tasks |->
     IF t = t1 THEN Appends \cup Reverts({1})
     ELSE IF t = t2 THEN Compacts({1, 2, 3})
     ELSE ReadsAt({1, 2})]

\* Two instances on one file, everything through append_if_head.
CasMenu ==
  [t \in Tasks |-> CasAppends({0, 1, 2, 3}) \cup {Call("state", 0)}
                    \cup {WriteOf("append_if_head", CreateFull, 0)}]

\* Creations only, and one kind of call beside them, for the runs that show
\* what a pair of concurrent calls can do.
Beside(S) == [t \in Tasks |-> IF t = t1 THEN {WriteOf("append", Create, 0)} \cup S
                              ELSE Compacts({1, 2})]
ReadBesideCompaction == Beside(ReadsAt({1}))
=============================================================================
