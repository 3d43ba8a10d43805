----------------------------- MODULE SqlValues -----------------------------
(***************************************************************************)
(* A field of a state as SQLite sees it: a JSON type and a rank within it. *)
(***************************************************************************)
EXTENDS Naturals

Types == {"absent", "null", "num", "text"}
Absent == <<"absent", 0>>
JsonNull == <<"null", 0>>

SqlNull == <<"null", 0>>

\* json_extract: an absent field and a JSON null are both NULL.
Extract(v) == IF v[1] = "absent" THEN SqlNull ELSE v

\* Numbers come before texts, and NULL before both when rows are sorted.
TypeRank(v) == CASE v[1] = "null" -> 0 [] v[1] = "num" -> 1 [] v[1] = "text" -> 2
SqlLess(v, w) ==
  \/ TypeRank(v) < TypeRank(w)
  \/ TypeRank(v) = TypeRank(w) /\ v[2] < w[2]
=============================================================================
