-------------------------- MODULE VersionedDocument --------------------------
(***************************************************************************)
(* What one stream of the store is to its callers: a document together with*)
(* every state it has had since some coordinate.  A write adds a state, a  *)
(* compaction gives up the oldest ones, and no state that is still         *)
(* reachable ever changes.                                                 *)
(***************************************************************************)
EXTENDS Naturals, Documents

VARIABLES
  base,     \* the earliest coordinate whose state can still be had
  states    \* states[n]: the state at coordinate n, for base <= n <= head

docVars == <<base, states>>

Init ==
  /\ base = 0
  /\ states = [n \in {0} |-> Null]

Newest == CHOOSE n \in DOMAIN states : \A m \in DOMAIN states : m <= n

\* A write makes one new state; a patch that does not apply makes it, and
\* every later one, unreadable.
Write(d) ==
  /\ states[Newest] = Poison => d = Poison
  /\ states' = [n \in DOMAIN states \cup {Newest + 1} |->
                  IF n = Newest + 1 THEN d ELSE states[n]]
  /\ UNCHANGED base

Compact(k) ==
  /\ states[k] # Poison
  /\ base' = k
  /\ states' = [n \in DOMAIN states \ (0 .. (k - 1)) |-> states[n]]

Next ==
  \/ \E d \in Doc \cup {Poison} : Write(d)
  \/ \E k \in DOMAIN states : Compact(k)

Spec == Init /\ [][Next]_docVars
=============================================================================
