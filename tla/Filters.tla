------------------------------ MODULE Filters ------------------------------
(***************************************************************************)
(* The filters of a query, translated to SQL with its three truth values   *)
(* (ai-store-sqlite: query.rs), beside what they are documented to mean.   *)
(* Filters are nested to any depth: the recursion of build_filter, and that*)
(* of the meaning, is over the filters of the queries and their parts.     *)
(***************************************************************************)
EXTENDS SqlValues, Sequences

CONSTANT Layers  \* Layers[d]: filters of the queries, and parts of them, d deep

Truth == {"true", "false", "unknown"}
Sure(b) == IF b THEN "true" ELSE "false"
Unless(unknown, b) == IF unknown THEN "unknown" ELSE Sure(b)

SqlNot(t) == CASE t = "true" -> "false" [] t = "false" -> "true" [] OTHER -> t
SqlAnd(T) == IF "false" \in T THEN "false" ELSE IF "unknown" \in T THEN "unknown" ELSE "true"
SqlOr(T) == IF "true" \in T THEN "true" ELSE IF "unknown" \in T THEN "unknown" ELSE "false"

-----------------------------------------------------------------------------
\* What a field is compared with, and the filters over it: `like' has the texts
\* that its pattern matches, `and' and `or' have a list of filters.
Ranges == {"lt", "lte", "gt", "gte"}
Typeful == {"num", "text"} \X Nat
Operands == Typeful \cup {JsonNull}

IsFilter(f) ==
  \/ f.op \in {"eq"} \cup Ranges /\ f.arg \in Operands
  \/ f.op \in {"in", "like"} /\ f.arg \subseteq Operands
  \/ f.op = "not"
  \/ f.op \in {"and", "or"} /\ Len(f.arg) \in Nat /\ DOMAIN f.arg = 1 .. Len(f.arg)

\* The filters a filter is made of.
Parts(f) ==
  CASE f.op = "not" -> {f.arg}
    [] f.op \in {"and", "or"} -> {f.arg[i] : i \in DOMAIN f.arg}
    [] OTHER -> {}

AllFilters == UNION {Layers[d] : d \in DOMAIN Layers}

ASSUME FiltersAssumption ==
  /\ Len(Layers) \in Nat /\ DOMAIN Layers = 1 .. Len(Layers)
  /\ \A d \in DOMAIN Layers : \A f \in Layers[d] :
       /\ IsFilter(f)
       /\ \A g \in Parts(f) : \E c \in 1 .. d - 1 : g \in Layers[c]

\* Slip: the bounds of a range are left out.
ComparesStrictly(op, x, y) ==
  CASE op = "eq" -> x = y
    [] op \in {"lt", "lte"} -> SqlLess(x, y)
    [] op \in {"gt", "gte"} -> SqlLess(y, x)

\* The comparison of two values that are not NULL.
Compares(op, x, y) ==
  CASE op = "eq" -> x = y
    [] op = "lt" -> SqlLess(x, y)
    [] op = "lte" -> ~SqlLess(y, x)
    [] op = "gt" -> SqlLess(y, x)
    [] op = "gte" -> ~SqlLess(x, y)

Comparison(op, v, operand) ==
  Unless(SqlNull \in {Extract(v), operand}, Compares(op, Extract(v), operand))

\* field == null asks for json_type = 'null', which is NULL without a field.
IsNull(v) == Unless(v = Absent, v = JsonNull)

Equals(v, x) == IF x = JsonNull THEN IsNull(v) ELSE Comparison("eq", v, x)

\* build_filter: the truth value of f on the field v, from those of its parts.
HoldsBy(f, v, holds) ==
  CASE f.op = "eq" -> Equals(v, f.arg)
    [] f.op = "in" -> SqlOr({Equals(v, x) : x \in f.arg})
    [] f.op = "like" -> Unless(Extract(v) = SqlNull, v \in f.arg)
    [] f.op = "not" -> SqlNot(holds[f.arg])
    [] f.op = "and" -> SqlAnd({holds[g] : g \in Parts(f)})
    [] f.op = "or" -> SqlOr({holds[g] : g \in Parts(f)})
    [] OTHER -> Comparison(f.op, v, f.arg)

Holds(f, v) ==
  LET holds[g \in AllFilters] == HoldsBy(g, v, holds)
  IN  holds[f]

\* In a WHERE clause what is unknown selects nothing.
Selects(f, v) == Holds(f, v) = "true"

\* The documented meaning of a range, and of a filter, on a field that is there
\* and not null: two-valued, and a range only asks of values of one type.
LiesIn(op, v, bound) ==
  CASE op = "lt" -> v[2] < bound[2]
    [] op = "lte" -> v[2] <= bound[2]
    [] op = "gt" -> v[2] > bound[2]
    [] op = "gte" -> v[2] >= bound[2]

MeansBy(f, v, means) ==
  CASE f.op \in {"in", "like"} -> v \in f.arg
    [] f.op = "not" -> ~means[f.arg]
    [] f.op = "and" -> \A g \in Parts(f) : means[g]
    [] f.op = "or" -> \E g \in Parts(f) : means[g]
    [] f.op = "eq" -> v = f.arg
    [] OTHER -> LiesIn(f.op, v, f.arg)

Means(f, v) ==
  LET means[g \in AllFilters] == MeansBy(g, v, means)
  IN  means[f]

\* Every range comparison in f has an operand of v's type.
TypedBy(f, v, typed) ==
  CASE f.op \in {"eq", "in", "like"} -> TRUE
    [] f.op \in {"not", "and", "or"} -> \A g \in Parts(f) : typed[g]
    [] OTHER -> v[1] = f.arg[1]

Typed(f, v) ==
  LET typed[g \in AllFilters] == TypedBy(g, v, typed)
  IN  typed[f]
=============================================================================
