---------------------------- MODULE MCOpenStore ----------------------------
(***************************************************************************)
(* OpenStore for TLC: p1 has the newest build, and catches up, rebuilds and*)
(* compacts; p2 has the build before the triggers, and writes.             *)
(***************************************************************************)
EXTENDS OpenStore, TLC

CONSTANTS p1, p2

MCMenu == (p1 :> {"catch_up", "rebuild", "compact"}) @@ (p2 :> {"write"})
MCKnown == (p1 :> Triggers) @@ (p2 :> Triggers - 1)

Sym == Permutations(Streams)
=============================================================================
