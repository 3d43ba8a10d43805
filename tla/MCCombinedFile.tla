--------------------------- MODULE MCCombinedFile ---------------------------
(***************************************************************************)
(* An instance of CombinedFile: streams are alike, and so are states.      *)
(***************************************************************************)
EXTENDS CombinedFile, TLC

Alike == Permutations(Streams) \cup Permutations(Values)
=============================================================================
