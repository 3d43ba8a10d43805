----------------------------- MODULE Documents -----------------------------
(***************************************************************************)
(* The documents a stream versions, and the RFC 6902 patches that turn one *)
(* into the next (crates/ai-store-core/src/state.rs, patch.rs).            *)
(*                                                                         *)
(* A JSON document is abstracted to what patches can observe of it: it is  *)
(* either the JSON null a stream starts from, or an object, given by the   *)
(* set of its members.  A patch either replaces the root (the one operation*)
(* `add ""' of a first event or of a compaction snapshot), or removes some *)
(* members and adds others.  As in JSON Patch, removing a missing member   *)
(* fails and so does adding a member to null, and a failing patch leaves   *)
(* its argument alone.                                                     *)
(***************************************************************************)
CONSTANTS
  Members,   \* names of the members an object may have
  Null,      \* the JSON null: the state of an empty stream
  Poison     \* not a document: what replaying an inapplicable patch yields

\* SUBSET Members, spelled so that TLC can ask whether Null is in it.
Object == {S : S \in SUBSET Members}

ASSUME DocumentsAssumption ==
  /\ Null \notin Object
  /\ Poison \notin Object
  /\ Poison # Null

Doc == Object \cup {Null}

Replace(d) == [type |-> "replace", doc |-> d]
Edit(minus, plus) == [type |-> "edit", remove |-> minus, add |-> plus]

\* The empty JSON patch, which applies to every document, null included.
Nop == Edit({}, {})

Patch ==
  [type: {"replace"}, doc: Doc]
    \cup [type: {"edit"}, remove: Object, add: Object]

\* json_patch::patch returns Ok on document d.
Applies(d, p) ==
  \/ p.type = "replace"
  \/ p = Nop
  \/ d # Null /\ p.type = "edit" /\ p.remove \subseteq d

\* The document json_patch::patch leaves behind when it returns Ok.
Apply(d, p) ==
  IF p.type = "replace" THEN p.doc
  ELSE IF p = Nop THEN d
  ELSE (d \ p.remove) \cup p.add

\* One iteration of replay_from's loop.  The first failing patch aborts the
\* replay, so nothing after it is ever reconstructed.
Step(d, p) ==
  IF d # Poison /\ Applies(d, p) THEN Apply(d, p) ELSE Poison

\* Slip: the forward patch instead of the reverse one.
DiffBackwards(from, to) ==
  IF from = to THEN Nop
  ELSE IF from = Null \/ to = Null THEN Replace(from)
  ELSE Edit(to \ from, from \ to)

\* json_patch::diff(from, to): a patch that leads from one to the other.
Diff(from, to) ==
  IF from = to THEN Nop
  ELSE IF from = Null \/ to = Null THEN Replace(to)
  ELSE Edit(from \ to, to \ from)
=============================================================================
