---------------------------- MODULE MCReadModel ----------------------------
(***************************************************************************)
(* Instances of ReadModel: three streams, a few events over all of them,   *)
(* and queries that sort by every kind of key and nest every filter.       *)
(***************************************************************************)
EXTENDS ReadModel

Num(n) == <<"num", n>>
Text(n) == <<"text", n>>

Ev(at, value) == [at |-> at, value |-> value, dead |-> FALSE]

\* Equal times, a number, a text, no field, a null, and a deletion.
Mixed ==
  {Ev(1, Num(1)), Ev(2, Num(2)), Ev(2, Text(1)), Ev(3, Absent), Ev(1, JsonNull),
   [at |-> 3, value |-> Num(1), dead |-> TRUE]}

Plain == {Ev(1, Num(1)), Ev(2, Num(2))}

Op(op, arg) == [op |-> op, arg |-> arg]
Every == Op("and", <<>>)
AtLeastOne == Op("gte", Num(1))
Alternatives == <<Op("lt", Num(2)), Op("eq", JsonNull), Op("like", {Text(2)})>>
Among == Op("in", {Num(1), Text(1)})
Above == Op("gt", Num(1))
AtMost == Op("lte", Num(1))
Nested == Op("not", Op("or", Alternatives))
Choice == Op("and", <<Among, AtMost, Op("not", Above)>>)
Either == Op("or", <<AtMost, Above>>)

Depths ==
  <<{Every, AtLeastOne, Among, Above, AtMost} \cup {Alternatives[i] : i \in 1 .. 3},
    {Op("or", Alternatives), Op("not", Above), Either},
    {Nested, Choice}>>

Query(filter, order, dir, limit, dead) ==
  [filter |-> filter, order |-> order, dir |-> dir, limit |-> limit, include_dead |-> dead]

\* The default query, one by the streams' names, two listings by other keys,
\* and a disjunction that has no brackets.
Several ==
  {Query(Every, "updated_at", "desc", 1, FALSE),
   Query(AtLeastOne, "stream", "asc", 2, TRUE),
   Query(Choice, "last_seq", "asc", 1, FALSE),
   Query(Nested, "field", "desc", 1, FALSE),
   Query(Either, "stream", "asc", 2, TRUE)}

Default == {Query(Every, "updated_at", "desc", 1, FALSE)}
=============================================================================
