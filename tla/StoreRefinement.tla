-------------------------- MODULE StoreRefinement --------------------------
(***************************************************************************)
(* StoreWrite implements VersionedDocument: the states a caller can still  *)
(* reach are those the persisted log replays to, from its boundary on.     *)
(***************************************************************************)
EXTENDS StoreWrite

\* replay_from over the whole log: the state at every reachable coordinate.
Materialized ==
  LET b == Boundary(events)
      state[n \in b .. HeadSeq(events)] ==
        IF n = Seq0 THEN Null
        ELSE Step(IF n = b THEN Null ELSE state[n - 1], Upcast(events[n]).patch)
  IN  state

Document == INSTANCE VersionedDocument
              WITH base <- Boundary(events), states <- Materialized

\* Every step of the store adds a state to the document, gives up its oldest
\* ones, or leaves what its log replays to alone: in particular compaction,
\* which takes no lock and rewrites the log under concurrent writers, changes
\* no state at or above the boundary it leaves (maintenance.rs, compact_stream).
ImplementsVersionedDocument == Document!Spec
=============================================================================
