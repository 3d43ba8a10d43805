------------------------- MODULE MCProjectionFiles -------------------------
(***************************************************************************)
(* An instance of ProjectionFiles: one caller for the draft and one for the*)
(* label, as when the Store's lock and the consumer serialize them.        *)
(***************************************************************************)
EXTENDS ProjectionFiles

CONSTANTS scribe, librarian

OneEach == [c \in Callers |-> IF c = scribe THEN {"commit"} ELSE {"set", "delete"}]
=============================================================================
