---------------------------- MODULE MCCatalogue ----------------------------
(***************************************************************************)
(* Catalogue for TLC: one caller sets and deletes a label, the other does  *)
(* so too, or reads.                                                       *)
(***************************************************************************)
EXTENDS Catalogue, TLC

CONSTANTS c1, c2

MCMenu == (c1 :> {"label"}) @@ (c2 :> {"label", "resolve", "list", "scan"})

MCEventMenu ==
  {[kind |-> "put", at |-> 1, tag |-> TRUE], [kind |-> "put", at |-> 1, tag |-> FALSE],
   [kind |-> "put", at |-> 2, tag |-> TRUE], [kind |-> "tombstone", at |-> 2, tag |-> FALSE]}
=============================================================================
