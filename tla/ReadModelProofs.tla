-------------------------- MODULE ReadModelProofs --------------------------
(***************************************************************************)
(* The rows of the read model and the listings of its queries, for any     *)
(* streams, events, filters and queries, deliveries in any order and again,*)
(* and any number of pages; and what filters of any depth mean.            *)
(***************************************************************************)
EXTENDS ReadModel, NaturalSets, SequenceTheorems

-----------------------------------------------------------------------------
(* The invariant.                                                          *)

TypeOK ==
  /\ events \in [Streams -> Seq(EventMenu)]
  /\ delivered \in [Streams -> SUBSET Nat]
  /\ row \in [Streams -> Row \cup {NoRow}]
  /\ query \in Queries \cup {NoQuery}
  /\ after \in Cursor \cup {NoCursor}
  /\ listed \in Seq(Streams)
  /\ finished \in BOOLEAN
  /\ cuts \subseteq Cursor
  /\ moved \subseteq Streams

\* A row is what the newest delivery of its stream made of it.
RowInv ==
  \A s \in Streams :
    /\ delivered[s] \subseteq DOMAIN events[s]
    /\ IF delivered[s] = {} THEN row[s] = NoRow
       ELSE \E n \in delivered[s] :
              (\A k \in delivered[s] : k <= n) /\ row[s] = Upserted(s, n)

\* The keyset predicate of any cursor.
BeyondCut(q, c, s) ==
  \/ c = NoCursor
  \/ /\ SqlNull \notin {c.key, Key(q, s)}
     /\ \/ Precedes(q, c.key, Key(q, s))
        \/ /\ c.key = Key(q, s)
           /\ Precedes(q, <<"text", c.stream>>, <<"text", s>>)

\* The rows still to come, and the cursor of a page that ends with l.
Ahead(q, c) == {s \in Matching(q) : BeyondCut(q, c, s)}
Offered(q) == {s \in Rows : OnPage(q, s)}
Cut(q, l) == [key |-> Key(q, l), stream |-> l]

\* The streams a listing can be held to: those whose key no page ended with.
Fair(s) == Key(query, s) # SqlNull /\ ~SomeNullCut /\ ~TiedWithCut(s)

NeverIn(f, s) == \A i \in DOMAIN f : f[i] # s
OnceIn(f, s) == \E i \in DOMAIN f : \A j \in DOMAIN f : f[j] = s <=> j = i
Never(s) == NeverIn(listed, s)
Once(s) == OnceIn(listed, s)

HeldIn(f, s) == \E i \in DOMAIN f : f[i] = s
Appears(s) == HeldIn(listed, s)
MadeOf(f, a, b) ==
  \A i \in DOMAIN f : (\E j \in DOMAIN a : f[i] = a[j]) \/ \E j \in DOMAIN b : f[i] = b[j]

\* Halfway through a listing, a row before its cursor has been listed, and one
\* beyond it is still to come: each once, where the cursor holds for all rows.
Placed(s) ==
  /\ Beyond(query, s) \/ Appears(s)
  /\ finished => Appears(s)
  /\ ~Unbracketed(query) =>
       IF Beyond(query, s) THEN ~finished /\ Never(s) ELSE Once(s)

PlaceInv == query # NoQuery => \A s \in Owed : Fair(s) => Placed(s)

ListInv ==
  /\ query = NoQuery =>
       listed = <<>> /\ after = NoCursor /\ ~finished /\ cuts = {} /\ moved = {}
  /\ after = NoCursor \/ after \in cuts
  /\ query # NoQuery => \A i \in DOMAIN listed : listed[i] \in Matching(query) \cup moved
  /\ finished /\ moved = {} => total = Count(query)

PInv == TypeOK /\ RowInv /\ PlaceInv /\ ListInv

-----------------------------------------------------------------------------
(* The order of sort keys.                                                 *)

\* Values of different types are ordered by type, those of one by rank: a
\* strict total order.
LEMMA LessIsOrder ==
  ASSUME NEW u \in Keys, NEW v \in Keys, NEW w \in Keys
  PROVE  /\ ~SqlLess(u, u)
         /\ SqlLess(u, v) /\ SqlLess(v, w) => SqlLess(u, w)
         /\ u = v \/ SqlLess(u, v) \/ SqlLess(v, u)
<1>1. ASSUME NEW x \in Keys
      PROVE  /\ TypeRank(x) \in Nat /\ x[2] \in Nat /\ x = <<x[1], x[2]>>
             /\ x[1] \in {"null", "num", "text"}
             /\ x[1] = "null" <=> TypeRank(x) = 0
             /\ x[1] = "num" <=> TypeRank(x) = 1
             /\ x[1] = "text" <=> TypeRank(x) = 2
  <2>1. x[1] \in {"null", "num", "text"} /\ x[2] \in Nat /\ x = <<x[1], x[2]>>
    BY SMT DEF Keys, Types
  <2>2. CASE x[1] = "null"
    <3>1. TypeRank(x) = 0
      BY <2>2 DEF TypeRank
    <3> QED
      BY <2>1, <2>2, <3>1, SMT
  <2>3. CASE x[1] = "num"
    <3>1. TypeRank(x) = 1
      BY <2>3 DEF TypeRank
    <3> QED
      BY <2>1, <2>3, <3>1, SMT
  <2>4. CASE x[1] = "text"
    <3>1. TypeRank(x) = 2
      BY <2>4 DEF TypeRank
    <3> QED
      BY <2>1, <2>4, <3>1, SMT
  <2> QED
    BY <2>1, <2>2, <2>3, <2>4
<1>2. ~SqlLess(u, u) /\ (SqlLess(u, v) /\ SqlLess(v, w) => SqlLess(u, w))
  BY <1>1, SMT DEF SqlLess
<1>3. ASSUME ~SqlLess(u, v), ~SqlLess(v, u) PROVE u = v
  <2>1. TypeRank(u) = TypeRank(v) /\ u[2] = v[2]
    BY <1>1, <1>3, SMT DEF SqlLess
  <2>2. u[1] = v[1]
    BY <1>1, <2>1, SMT
  <2> QED
    BY <1>1, <2>1, <2>2
<1> QED
  BY <1>2, <1>3

\* So is the order of a query, either way.
LEMMA PrecedesIsOrder ==
  ASSUME NEW q, NEW u \in Keys, NEW v \in Keys, NEW w \in Keys
  PROVE  /\ ~Precedes(q, u, u)
         /\ Precedes(q, u, v) /\ Precedes(q, v, w) => Precedes(q, u, w)
         /\ u = v \/ Precedes(q, u, v) \/ Precedes(q, v, u)
BY LessIsOrder DEF Precedes

LEMMA KeyIsOne ==
  ASSUME ReadModelAssumption, NEW q \in Queries, NEW s \in Streams, row[s] \in Row
  PROVE  Key(q, s) \in Keys
<1>1. /\ <<"num", row[s].at>> \in Keys /\ <<"num", row[s].last_seq>> \in Keys
      /\ <<"text", s>> \in Keys
  <2>1. s \in Nat
    BY DEF ReadModelAssumption
  <2>2. row[s].at \in Nat /\ row[s].last_seq \in Nat
    BY DEF Row
  <2> QED
    BY <2>1, <2>2, SMT DEF Keys, Types
<1>2. Extract(row[s].value) \in Keys
  <2>1. row[s].value \in Types \X Nat /\ row[s].value[1] \in Types
    BY SMT DEF Row
  <2>2. CASE row[s].value[1] = "absent"
    BY <2>2, SMT DEF Extract, SqlNull, Keys, Types
  <2>3. CASE row[s].value[1] # "absent"
    BY <2>1, <2>3, SMT DEF Extract, Keys
  <2> QED
    BY <2>2, <2>3
<1>3. q.order \in {"updated_at", "last_seq", "stream", "field"}
  BY DEF ReadModelAssumption
<1>4. CASE q.order = "updated_at"
  BY <1>1, <1>4 DEF Key
<1>5. CASE q.order = "last_seq"
  BY <1>1, <1>5 DEF Key
<1>6. CASE q.order = "stream"
  BY <1>1, <1>6 DEF Key
<1>7. CASE q.order = "field"
  BY <1>2, <1>7 DEF Key
<1> QED
  BY <1>3, <1>4, <1>5, <1>6, <1>7

LEMMA RowOfMatch ==
  ASSUME TypeOK, NEW q, NEW s \in Matching(q)
  PROVE  s \in Streams /\ row[s] \in Row
BY DEF TypeOK, Matching, Rows

-----------------------------------------------------------------------------
(* The filters of the queries.                                             *)

\* The filters of the first layers.
Shallow(d) == UNION {Layers[c] : c \in 1 .. d}

LEMMA PartsAreShallow ==
  /\ Len(Layers) \in Nat /\ Shallow(0) = {} /\ Shallow(Len(Layers)) = AllFilters
  /\ \A d \in Nat : d + 1 <= Len(Layers) =>
       \A f \in Shallow(d + 1) : IsFilter(f) /\ Parts(f) \subseteq Shallow(d)
<1>1. Len(Layers) \in Nat /\ DOMAIN Layers = 1 .. Len(Layers)
  BY FiltersAssumption
<1>2. Shallow(0) = {}
  BY DEF Shallow
<1>3. Shallow(Len(Layers)) = AllFilters
  BY <1>1 DEF Shallow, AllFilters
<1>4. ASSUME NEW d \in Nat, d + 1 <= Len(Layers), NEW f \in Shallow(d + 1)
      PROVE  IsFilter(f) /\ Parts(f) \subseteq Shallow(d)
  <2>1. PICK c \in 1 .. d + 1 : f \in Layers[c]
    BY DEF Shallow
  <2>2. c \in DOMAIN Layers
    BY <1>1, <1>4, <2>1
  <2>3. IsFilter(f) /\ \A g \in Parts(f) : \E e \in 1 .. c - 1 : g \in Layers[e]
    BY <2>1, <2>2, FiltersAssumption
  <2>4. \A e \in 1 .. c - 1 : e \in 1 .. d
    BY <2>1
  <2> QED
    BY <2>3, <2>4 DEF Shallow
<1> QED
  BY <1>1, <1>2, <1>3, <1>4

\* What is so of a filter depends on its parts only.
LEMMA OnlyItsParts ==
  ASSUME NEW f, NEW v, NEW a, NEW b, \A g \in Parts(f) : a[g] = b[g]
  PROVE  /\ HoldsBy(f, v, a) = HoldsBy(f, v, b)
         /\ MeansBy(f, v, a) = MeansBy(f, v, b)
         /\ TypedBy(f, v, a) = TypedBy(f, v, b)
<1>1. CASE f.op = "not"
  <2>1. a[f.arg] = b[f.arg]
    BY <1>1 DEF Parts
  <2> QED
    BY <1>1, <2>1 DEF HoldsBy, MeansBy, TypedBy, Parts
<1>2. CASE f.op \in {"and", "or"}
  <2>1. {a[g] : g \in Parts(f)} = {b[g] : g \in Parts(f)}
    OBVIOUS
  <2> QED
    BY <1>2, <2>1 DEF HoldsBy, MeansBy, TypedBy
<1>3. CASE f.op \notin {"not", "and", "or"}
  BY <1>3 DEF HoldsBy, MeansBy, TypedBy
<1> QED
  BY <1>1, <1>2, <1>3

\* Each of the three recursions over the filters has a solution: layer by layer.
Solves(F, v, h, m, t) ==
  \A f \in F : h[f] = HoldsBy(f, v, h) /\ m[f] = MeansBy(f, v, m) /\ t[f] = TypedBy(f, v, t)

LEMMA OneMoreLayer ==
  ASSUME NEW v, NEW F, NEW G, \A f \in G : Parts(f) \subseteq F, F \subseteq G,
         NEW h, NEW m, NEW t, Solves(F, v, h, m, t)
  PROVE  Solves(G, v, [f \in G |-> HoldsBy(f, v, h)], [f \in G |-> MeansBy(f, v, m)],
                [f \in G |-> TypedBy(f, v, t)])
<1> DEFINE H == [f \in G |-> HoldsBy(f, v, h)]
           M == [f \in G |-> MeansBy(f, v, m)]
           T == [f \in G |-> TypedBy(f, v, t)]
<1>1. ASSUME NEW g \in F PROVE H[g] = h[g] /\ M[g] = m[g] /\ T[g] = t[g]
  BY DEF Solves
<1>2. ASSUME NEW f \in G
      PROVE  /\ H[f] = HoldsBy(f, v, h) /\ M[f] = MeansBy(f, v, m) /\ T[f] = TypedBy(f, v, t)
  OBVIOUS
<1> HIDE DEF H, M, T
<1>3. ASSUME NEW f \in G
      PROVE  H[f] = HoldsBy(f, v, H) /\ M[f] = MeansBy(f, v, M) /\ T[f] = TypedBy(f, v, T)
  <2>1. \A g \in Parts(f) : H[g] = h[g] /\ M[g] = m[g] /\ T[g] = t[g]
    BY <1>1
  <2>2. HoldsBy(f, v, H) = HoldsBy(f, v, h)
    BY <2>1, OnlyItsParts
  <2>3. MeansBy(f, v, M) = MeansBy(f, v, m)
    BY <2>1, OnlyItsParts
  <2>4. TypedBy(f, v, T) = TypedBy(f, v, t)
    BY <2>1, OnlyItsParts
  <2> QED
    BY <1>2, <2>2, <2>3, <2>4
<1>4. Solves(G, v, H, M, T)
  BY <1>3 DEF Solves
<1> QED
  BY <1>4 DEF H, M, T

LEMMA Solvable ==
  ASSUME NEW v
  PROVE  \E h, m, t : Solves(AllFilters, v, h, m, t)
<1> DEFINE Can(d) == \E h, m, t : Solves(Shallow(d), v, h, m, t)
           Cannot == {d \in 0 .. Len(Layers) : ~Can(d)}
<1>1. Can(0)
  BY PartsAreShallow DEF Solves
<1>2. ASSUME NEW d \in Nat, d + 1 <= Len(Layers), Can(d) PROVE Can(d + 1)
  <2>1. PICK h, m, t : Solves(Shallow(d), v, h, m, t)
    BY <1>2
  <2>2. \A f \in Shallow(d + 1) : Parts(f) \subseteq Shallow(d)
    BY <1>2, PartsAreShallow
  <2>3. Shallow(d) \subseteq Shallow(d + 1)
    BY DEF Shallow
  <2>4. Solves(Shallow(d + 1), v, [f \in Shallow(d + 1) |-> HoldsBy(f, v, h)],
               [f \in Shallow(d + 1) |-> MeansBy(f, v, m)],
               [f \in Shallow(d + 1) |-> TypedBy(f, v, t)])
    BY <2>1, <2>2, <2>3, OneMoreLayer
  <2> QED
    BY <2>4
<1> HIDE DEF Can
<1>3. Cannot = {}
  <2>1. SUFFICES ASSUME Cannot # {} PROVE FALSE
    OBVIOUS
  <2>2. PICK d \in Cannot : \A e \in Cannot : d <= e
    <3>1. Cannot \in SUBSET Nat
      BY PartsAreShallow
    <3> HIDE DEF Cannot
    <3> QED
      BY <2>1, <3>1, LeastExists
  <2>3. d \in Nat /\ d <= Len(Layers) /\ Len(Layers) \in Nat /\ ~Can(d) /\ d # 0
    BY <1>1, PartsAreShallow
  <2>4. d - 1 \in Nat /\ d - 1 \in 0 .. Len(Layers) /\ (d - 1) + 1 = d /\ ~(d <= d - 1)
    BY <2>3
  <2>5. Can(d - 1)
    BY <2>2, <2>4
  <2> QED
    BY <1>2, <2>3, <2>4, <2>5
<1>4. Can(Len(Layers))
  <2>1. Len(Layers) \in 0 .. Len(Layers)
    BY PartsAreShallow
  <2> QED
    BY <1>3, <2>1
<1> QED
  BY <1>4, PartsAreShallow DEF Can

LEMMA PartsAreFilters == \A f \in AllFilters : IsFilter(f) /\ Parts(f) \subseteq AllFilters
<1>1. Len(Layers) \in Nat /\ AllFilters = Shallow(Len(Layers)) /\ Shallow(0) = {}
  BY PartsAreShallow
<1>2. CASE Len(Layers) = 0
  BY <1>1, <1>2
<1>3. CASE Len(Layers) # 0
  <2>1. Len(Layers) - 1 \in Nat /\ (Len(Layers) - 1) + 1 = Len(Layers)
    BY <1>1, <1>3
  <2>2. \A f \in AllFilters : IsFilter(f) /\ Parts(f) \subseteq Shallow(Len(Layers) - 1)
    BY <1>1, <2>1, PartsAreShallow
  <2>3. Shallow(Len(Layers) - 1) \subseteq AllFilters
    BY <1>1, <2>1 DEF Shallow
  <2> QED
    BY <2>2, <2>3
<1> QED
  BY <1>2, <1>3

\* So the definitions say of a filter what its parts make of it.
LEMMA FiltersSolve ==
  ASSUME NEW v
  PROVE  Solves(AllFilters, v, [f \in AllFilters |-> Holds(f, v)],
                [f \in AllFilters |-> Means(f, v)], [f \in AllFilters |-> Typed(f, v)])
<1> DEFINE A == AllFilters
           IsH(x) == x = [g \in A |-> HoldsBy(g, v, x)]
           IsM(x) == x = [g \in A |-> MeansBy(g, v, x)]
           IsT(x) == x = [g \in A |-> TypedBy(g, v, x)]
           H == CHOOSE x : IsH(x)
           M == CHOOSE x : IsM(x)
           T == CHOOSE x : IsT(x)
<1>1. /\ \A f : Holds(f, v) = H[f]
      /\ \A f : Means(f, v) = M[f]
      /\ \A f : Typed(f, v) = T[f]
  BY DEF Holds, Means, Typed
<1>2. PICK h, m, t : Solves(A, v, h, m, t)
  BY Solvable
<1>3. \A f \in A : Parts(f) \subseteq A
  BY PartsAreFilters
<1>4. Solves(A, v, [f \in A |-> HoldsBy(f, v, h)], [f \in A |-> MeansBy(f, v, m)],
             [f \in A |-> TypedBy(f, v, t)])
  BY <1>2, <1>3, OneMoreLayer
<1>5. /\ IsH([f \in A |-> HoldsBy(f, v, h)])
      /\ IsM([f \in A |-> MeansBy(f, v, m)])
      /\ IsT([f \in A |-> TypedBy(f, v, t)])
  BY <1>4 DEF Solves
<1> HIDE DEF IsH, IsM, IsT
<1>6. IsH(H) /\ IsM(M) /\ IsT(T)
  BY <1>5
<1>7. /\ H = [g \in A |-> HoldsBy(g, v, H)]
      /\ M = [g \in A |-> MeansBy(g, v, M)]
      /\ T = [g \in A |-> TypedBy(g, v, T)]
  BY <1>6 DEF IsH, IsM, IsT
<1> HIDE DEF H, M, T, A
<1>8. /\ [f \in A |-> Holds(f, v)] = H
      /\ [f \in A |-> Means(f, v)] = M
      /\ [f \in A |-> Typed(f, v)] = T
  BY <1>1, <1>7
<1>9. Solves(A, v, H, M, T)
  BY <1>7 DEF Solves
<1> QED
  BY <1>8, <1>9 DEF A

\* On a field that is there and not null, a comparison is never unknown.
LEMMA EqualsMeans ==
  ASSUME NEW v \in Typeful, NEW x \in Operands
  PROVE  Equals(v, x) = Sure(v = x)
<1>1. /\ v = <<v[1], v[2]>> /\ v[1] \in {"num", "text"} /\ v # Absent /\ v # JsonNull
      /\ Extract(v) = v /\ v # SqlNull
  BY DEF Typeful, Absent, JsonNull, SqlNull, Extract
<1>2. CASE x = JsonNull
  BY <1>1, <1>2 DEF Equals, IsNull, Unless
<1>3. CASE x # JsonNull
  BY <1>1, <1>3 DEF Equals, Comparison, Compares, Unless, SqlNull, JsonNull
<1> QED
  BY <1>2, <1>3

LEMMA RangeMeans ==
  ASSUME NEW v \in Typeful, NEW x \in Operands, v[1] = x[1], NEW op \in Ranges
  PROVE  Comparison(op, v, x) = Sure(LiesIn(op, v, x))
<1>1. /\ v[1] \in {"num", "text"} /\ v[2] \in Nat /\ Extract(v) = v /\ v # SqlNull
      /\ x[1] = v[1] /\ x[2] \in Nat /\ x # SqlNull
  BY DEF Typeful, Operands, SqlNull, JsonNull, Extract
<1>2. /\ SqlLess(v, x) <=> v[2] < x[2]
      /\ SqlLess(x, v) <=> x[2] < v[2]
  BY <1>1 DEF SqlLess, TypeRank
<1>3. Comparison(op, v, x) = Sure(Compares(op, v, x))
  BY <1>1 DEF Comparison, Unless
<1>4. /\ ~ (x[2] < v[2]) <=> v[2] <= x[2]
      /\ ~ (v[2] < x[2]) <=> v[2] >= x[2]
      /\ x[2] < v[2] <=> v[2] > x[2]
  BY <1>1
<1> QED
  BY <1>2, <1>3, <1>4 DEF Compares, LiesIn, Ranges, Sure

\* A filter is true of a field that is there and not null if, and only if, that
\* is what it says, and false otherwise, as long as no range in it compares with
\* a value of another type: build_filter, of filters however deep.
THEOREM FiltersMeanWhatTheySay ==
  ASSUME NEW v \in Typeful
  PROVE  \A f \in AllFilters : Typed(f, v) => Holds(f, v) = Sure(Means(f, v))
<1> DEFINE holds == [f \in AllFilters |-> Holds(f, v)]
           means == [f \in AllFilters |-> Means(f, v)]
           typed == [f \in AllFilters |-> Typed(f, v)]
           Right(f) == typed[f] => holds[f] = Sure(means[f])
           Wrong == {d \in DOMAIN Layers : \E f \in Layers[d] : ~Right(f)}
<1>0. Solves(AllFilters, v, holds, means, typed)
  BY FiltersSolve
<1>a. \A f \in AllFilters :
        holds[f] = Holds(f, v) /\ means[f] = Means(f, v) /\ typed[f] = Typed(f, v)
  OBVIOUS
<1> HIDE DEF holds, means, typed
<1>1. ASSUME NEW f \in AllFilters, IsFilter(f), \A g \in Parts(f) : Right(g) PROVE Right(f)
  <2> SUFFICES ASSUME typed[f] PROVE holds[f] = Sure(means[f])
    OBVIOUS
  <2>1. /\ holds[f] = HoldsBy(f, v, holds) /\ means[f] = MeansBy(f, v, means)
        /\ TypedBy(f, v, typed) /\ IsFilter(f)
    BY <1>0, <1>1 DEF Solves
  <2>2. CASE f.op = "eq"
    BY <2>1, <2>2, EqualsMeans DEF HoldsBy, MeansBy, IsFilter, Ranges
  <2>3. CASE f.op = "in"
    <3>1. f.arg \subseteq Operands
      BY <2>1, <2>3 DEF IsFilter, Ranges
    <3>2. \A x \in f.arg : Equals(v, x) = Sure(v = x)
      BY <3>1, EqualsMeans
    <3>3. SqlOr({Equals(v, x) : x \in f.arg}) = Sure(v \in f.arg)
      BY <3>2 DEF SqlOr, Sure
    <3> QED
      BY <2>1, <2>3, <3>3 DEF HoldsBy, MeansBy
  <2>4. CASE f.op = "like"
    <3>1. Extract(v) # SqlNull
      BY DEF Extract, SqlNull, Typeful
    <3> QED
      BY <2>1, <2>4, <3>1 DEF HoldsBy, MeansBy, Unless
  <2>5. CASE f.op = "not"
    <3>1. typed[f.arg] /\ holds[f.arg] = Sure(means[f.arg])
      BY <1>1, <2>1, <2>5 DEF TypedBy, Parts
    <3>2. holds[f] = SqlNot(holds[f.arg]) /\ means[f] = ~means[f.arg]
      BY <2>1, <2>5 DEF HoldsBy, MeansBy
    <3> QED
      BY <3>1, <3>2 DEF SqlNot, Sure
  <2>6. CASE f.op \in {"and", "or"}
    <3>1. \A g \in Parts(f) : holds[g] = Sure(means[g])
      BY <1>1, <2>1, <2>6 DEF TypedBy
    <3>2. CASE f.op = "and"
      <4>1. SqlAnd({holds[g] : g \in Parts(f)}) = Sure(\A g \in Parts(f) : means[g])
        BY <3>1 DEF SqlAnd, Sure
      <4> QED
        BY <2>1, <3>2, <4>1 DEF HoldsBy, MeansBy
    <3>3. CASE f.op = "or"
      <4>1. SqlOr({holds[g] : g \in Parts(f)}) = Sure(\E g \in Parts(f) : means[g])
        BY <3>1 DEF SqlOr, Sure
      <4> QED
        BY <2>1, <3>3, <4>1 DEF HoldsBy, MeansBy
    <3> QED
      BY <2>6, <3>2, <3>3
  <2>7. CASE f.op \in Ranges
    <3>1. f.arg \in Operands /\ v[1] = f.arg[1]
      BY <2>1, <2>7 DEF IsFilter, TypedBy, Ranges
    <3>2. holds[f] = Comparison(f.op, v, f.arg)
      BY <2>1, <2>7 DEF HoldsBy, Ranges
    <3>3. means[f] = LiesIn(f.op, v, f.arg)
      BY <2>1, <2>7 DEF MeansBy, Ranges
    <3> QED
      BY <2>7, <3>1, <3>2, <3>3, RangeMeans
  <2> QED
    BY <2>1, <2>2, <2>3, <2>4, <2>5, <2>6, <2>7 DEF IsFilter
<1> HIDE DEF Right
<1>2. Wrong = {}
  <2>1. SUFFICES ASSUME Wrong # {} PROVE FALSE
    OBVIOUS
  <2>2. PICK d \in Wrong : \A c \in Wrong : d <= c
    <3>1. Wrong \in SUBSET Nat
      BY FiltersAssumption
    <3> HIDE DEF Wrong
    <3> QED
      BY <2>1, <3>1, LeastExists
  <2>3. PICK f \in Layers[d] : ~Right(f)
    OBVIOUS
  <2>4. /\ f \in AllFilters /\ IsFilter(f)
        /\ \A g \in Parts(f) : \E c \in 1 .. d - 1 : g \in Layers[c]
    BY <2>3, FiltersAssumption DEF AllFilters
  <2>5. ASSUME NEW g \in Parts(f) PROVE Right(g)
    <3>1. PICK c \in 1 .. d - 1 : g \in Layers[c]
      BY <2>4
    <3>2. c \in DOMAIN Layers /\ ~(d <= c)
      BY FiltersAssumption
    <3> QED
      BY <2>2, <3>1, <3>2
  <2> QED
    BY <1>1, <2>3, <2>4, <2>5
<1>3. \A f \in AllFilters : Right(f)
  BY <1>2 DEF AllFilters
<1> QED
  BY <1>a, <1>3 DEF Right

\* A disjunction selects what one of its parts selects.
LEMMA DisjunctionSelects ==
  ASSUME NEW f \in AllFilters, f.op = "or", NEW v
  PROVE  /\ Len(f.arg) \in Nat
         /\ Selects(f, v) <=> \E i \in 1 .. Len(f.arg) : Selects(f.arg[i], v)
<1> DEFINE holds == [g \in AllFilters |-> Holds(g, v)]
<1>1. /\ Len(f.arg) \in Nat /\ Parts(f) = {f.arg[i] : i \in 1 .. Len(f.arg)}
      /\ Parts(f) \subseteq AllFilters
  BY PartsAreFilters DEF IsFilter, Parts, Ranges
<1>2. holds[f] = HoldsBy(f, v, holds)
  BY FiltersSolve DEF Solves
<1>3. \A g \in AllFilters : holds[g] = Holds(g, v)
  OBVIOUS
<1> HIDE DEF holds
<1>4. Holds(f, v) = SqlOr({holds[g] : g \in Parts(f)})
  BY <1>2, <1>3 DEF HoldsBy
<1>5. Holds(f, v) = "true" <=> \E g \in Parts(f) : Holds(g, v) = "true"
  BY <1>1, <1>3, <1>4 DEF SqlOr
<1> QED
  BY <1>1, <1>5 DEF Selects

-----------------------------------------------------------------------------
(* One page.                                                               *)

\* A page is in order, without repetition; what it leaves out sorts no earlier
\* than anything in it; and a page that is not full leaves nothing out.
LEMMA PageIs ==
  ASSUME ReadModelAssumption, NEW q \in Queries, NEW M \in SUBSET Streams,
         NEW p \in Pages(q, M)
  PROVE  /\ p \in Seq(M) /\ Len(p) \in Nat /\ DOMAIN p = 1 .. Len(p)
         /\ \A i, j \in 1 .. Len(p) :
              i < j => p[i] # p[j] /\ ~Precedes(q, Key(q, p[j]), Key(q, p[i]))
         /\ \A i \in 1 .. Len(p) : \A s \in M :
              (\A j \in 1 .. Len(p) : p[j] # s) => ~Precedes(q, Key(q, s), Key(q, p[i]))
         /\ Len(p) < q.limit => \A s \in M : \E i \in 1 .. Len(p) : p[i] = s
<1> DEFINE c == Cardinality(M)
           n == IF c < q.limit THEN c ELSE q.limit
<1>1. IsFiniteSet(M) /\ c \in Nat
  BY FS_Subset, FS_CardinalityType DEF ReadModelAssumption
<1>2. n \in Nat /\ q.limit \in Nat
  BY <1>1 DEF ReadModelAssumption
<1>3. /\ p \in [1 .. n -> M]
      /\ \A i, j \in 1 .. n :
           i < j => p[i] # p[j] /\ ~Precedes(q, Key(q, p[j]), Key(q, p[i]))
      /\ \A i \in 1 .. n : \A s \in M :
           (\A j \in 1 .. n : p[j] # s) => ~Precedes(q, Key(q, s), Key(q, p[i]))
  BY DEF Pages
<1> HIDE DEF n
<1>4. p \in Seq(M) /\ Len(p) = n /\ DOMAIN p = 1 .. n
  BY <1>2, <1>3, SMT
<1>5. ASSUME n < q.limit PROVE \A s \in M : \E i \in 1 .. n : p[i] = s
  <2>1. n = c
    BY <1>5, <1>1, <1>2, SMT DEF n
  <2>2. p \in Injection(1 .. n, M)
    <3>1. ASSUME NEW i \in 1 .. n, NEW j \in 1 .. n, p[i] = p[j] PROVE i = j
      BY <1>2, <1>3, <3>1, SMT
    <3> QED
      BY <1>3, <3>1 DEF Injection, IsInjective
  <2>3. IsFiniteSet(1 .. n) /\ Cardinality(1 .. n) = n
    <3>1. 1 \in Int /\ n \in Int
      BY <1>2, SMT
    <3> QED
      BY <1>2, <3>1, FS_Interval, SMT
  <2>4. p \in Surjection(1 .. n, M)
    BY <1>1, <2>1, <2>2, <2>3, FS_Injection
  <2> QED
    BY <2>4 DEF Surjection
<1> QED
  BY <1>2, <1>3, <1>4, <1>5

\* The page that ends with l leaves beyond the cursor what it could have had and
\* has not.  If it could have had the rows beyond c only, the cursor moves past
\* exactly its own rows: of those whose key is not l's, those behind c stay
\* behind, those on the page come to be, and the others stay beyond.
LEMMA PageMoves ==
  ASSUME ReadModelAssumption, TypeOK, NEW q \in Queries,
         NEW c \in Cursor \cup {NoCursor}, c # NoCursor => c.key # SqlNull,
         NEW M, Ahead(q, c) \subseteq M, M \subseteq Matching(q),
         NEW p \in Pages(q, M), Len(p) # 0,
         Key(q, p[Len(p)]) # SqlNull, NEW s \in Matching(q), Key(q, s) # SqlNull,
         p[Len(p)] # s => Key(q, p[Len(p)]) # Key(q, s)
  PROVE  /\ s \in M /\ (\A i \in DOMAIN p : p[i] # s)
              => BeyondCut(q, Cut(q, p[Len(p)]), s)
         /\ M = Ahead(q, c) =>
              (BeyondCut(q, Cut(q, p[Len(p)]), s)
                 <=> s \in M /\ \A i \in DOMAIN p : p[i] # s)
<1> DEFINE n == Len(p)
           d == Cut(q, p[n])
           l == p[n]
           ks == Key(q, s)
           kl == Key(q, l)
           t(x) == <<"text", x>>
<1>1. M \in SUBSET Streams /\ M \subseteq Matching(q)
  BY DEF Matching, Rows
<1>2. /\ n \in Nat /\ DOMAIN p = 1 .. n /\ n \in 1 .. n
      /\ \A i, j \in 1 .. n :
           i < j => p[i] # p[j] /\ ~Precedes(q, Key(q, p[j]), Key(q, p[i]))
      /\ \A i \in 1 .. n : \A x \in M :
           (\A j \in 1 .. n : p[j] # x) => ~Precedes(q, Key(q, x), Key(q, p[i]))
      /\ p \in Seq(M)
  <2>1. n \in Nat /\ DOMAIN p = 1 .. n
    BY <1>1, PageIs
  <2>2. n \in 1 .. n
    BY <2>1, SMT
  <2> QED
    BY <1>1, <2>1, <2>2, PageIs
<1>3. l \in M /\ s \in Streams /\ l \in Streams /\ ks \in Keys /\ kl \in Keys
  <2>1. l \in M
    BY <1>2
  <2>2. l \in Matching(q)
    BY <1>1, <2>1
  <2> QED
    BY <2>1, <2>2, RowOfMatch, KeyIsOne
<1>4. d.key = kl /\ d.stream = l /\ d \in Cursor /\ d # NoCursor
  <2>1. d.key = kl /\ d.stream = l /\ d = [key |-> kl, stream |-> l]
    BY DEF Cut
  <2>2. l \in Nat
    BY <1>3 DEF ReadModelAssumption
  <2>3. d \in Cursor
    BY <1>3, <2>1, <2>2 DEF Cursor
  <2> QED
    BY <2>1, <2>3 DEF ReadModelAssumption
<1>5. BeyondCut(q, d, s) <=>
        Precedes(q, kl, ks) \/ (kl = ks /\ Precedes(q, t(l), t(s)))
  BY <1>4 DEF BeyondCut
<1>6. t(s) \in Keys /\ t(l) \in Keys
  <2>1. s \in Nat /\ l \in Nat
    BY <1>3 DEF ReadModelAssumption
  <2>2. \A x \in Nat : t(x) \in Keys
    BY SMT DEF Keys, Types
  <2> QED
    BY <2>1, <2>2
<1>7. CASE s = l
  <2>1. ~BeyondCut(q, d, s)
    BY <1>3, <1>5, <1>6, <1>7, PrecedesIsOrder
  <2> QED
    BY <1>2, <1>7, <2>1
<1>8. CASE s # l
  <2>1. kl # ks
    BY <1>4, <1>8
  <2>2. BeyondCut(q, d, s) <=> Precedes(q, kl, ks)
    BY <1>5, <2>1
  <2>3. CASE s \in M /\ \A i \in DOMAIN p : p[i] # s
    <3>1. ~Precedes(q, ks, kl)
      BY <1>2, <2>3
    <3> QED
      BY <1>3, <2>1, <2>2, <2>3, <3>1, PrecedesIsOrder
  <2>4. CASE \E i \in DOMAIN p : p[i] = s
    <3>1. PICK i \in 1 .. n : p[i] = s
      BY <1>2, <2>4
    <3>2. i < n
      <4>1. i # n /\ i \in 1 .. n /\ n \in Nat
        BY <1>2, <1>8, <3>1
      <4> HIDE DEF n
      <4> QED
        BY <4>1, SMT
    <3>3. ~Precedes(q, kl, ks)
      BY <1>2, <3>1, <3>2
    <3> QED
      BY <2>2, <2>4, <3>3
  <2>5. CASE s \notin M /\ M = Ahead(q, c)
    <3>1. ~BeyondCut(q, c, s) /\ BeyondCut(q, c, l)
      BY <1>3, <2>5 DEF Ahead
    <3>2. c # NoCursor /\ c.key \in Keys /\ t(c.stream) \in Keys
      <4>1. c # NoCursor
        BY <3>1 DEF BeyondCut
      <4>2. c \in Cursor
        BY <4>1
      <4>3. c.key \in Keys /\ c.stream \in Nat
        BY <4>2 DEF Cursor
      <4>4. t(c.stream) \in Keys
        BY <4>3, SMT DEF Keys, Types
      <4> QED
        BY <4>1, <4>3, <4>4
    <3>3. ~Precedes(q, c.key, ks)
      BY <3>1, <3>2 DEF BeyondCut
    <3>4. Precedes(q, c.key, kl) \/ c.key = kl
      BY <3>1, <3>2 DEF BeyondCut
    <3>5. ~Precedes(q, kl, ks)
      BY <1>3, <3>2, <3>3, <3>4, PrecedesIsOrder
    <3> QED
      BY <2>2, <2>5, <3>5
  <2> QED
    BY <2>3, <2>4, <2>5
<1> QED
  BY <1>7, <1>8

\* What a listing is made of, and what a page adds to it.
LEMMA PageComesFrom ==
  ASSUME NEW S, NEW a \in Seq(S), NEW b \in Seq(S)
  PROVE  a \o b \in Seq(S) /\ MadeOf(a \o b, a, b)
<1> DEFINE m == Len(a)
           k == Len(b)
<1>1. /\ a \o b \in Seq(S) /\ m \in Nat /\ k \in Nat
      /\ DOMAIN a = 1 .. m /\ DOMAIN b = 1 .. k /\ DOMAIN (a \o b) = 1 .. m + k
      /\ \A i \in 1 .. m : (a \o b)[i] = a[i]
      /\ \A i \in m + 1 .. m + k : (a \o b)[i] = b[i - m]
  BY SMT
<1> HIDE DEF m, k
<1>2. ASSUME NEW i \in 1 .. m + k, i \notin 1 .. m
      PROVE  i \in m + 1 .. m + k /\ i - m \in 1 .. k
  BY <1>1, <1>2
<1> QED
  BY <1>1, <1>2 DEF MadeOf

LEMMA PageHolds ==
  ASSUME NEW S, NEW a \in Seq(S), NEW b \in Seq(S), NEW s
  PROVE  (HeldIn(a, s) => HeldIn(a \o b, s)) /\ (HeldIn(b, s) => HeldIn(a \o b, s))
<1> DEFINE m == Len(a)
           k == Len(b)
<1>1. /\ m \in Nat /\ k \in Nat
      /\ DOMAIN a = 1 .. m /\ DOMAIN b = 1 .. k /\ DOMAIN (a \o b) = 1 .. m + k
      /\ \A i \in 1 .. m : (a \o b)[i] = a[i]
      /\ \A i \in m + 1 .. m + k : (a \o b)[i] = b[i - m]
  BY SMT
<1> HIDE DEF m, k
<1>2. ASSUME NEW i \in 1 .. m PROVE i \in 1 .. m + k
  BY <1>1
<1>3. ASSUME NEW i \in 1 .. k PROVE i + m \in 1 .. m + k /\ (a \o b)[i + m] = b[i]
  <2>1. i + m \in m + 1 .. m + k /\ i + m \in 1 .. m + k /\ (i + m) - m = i
    BY <1>1
  <2> QED
    BY <1>1, <2>1
<1> QED
  BY <1>1, <1>2, <1>3 DEF HeldIn

LEMMA PageAdds ==
  ASSUME NEW S, NEW a \in Seq(S), NEW b \in Seq(S), NEW s
  PROVE  /\ NeverIn(a, s) /\ NeverIn(b, s) => NeverIn(a \o b, s)
         /\ NeverIn(a, s) /\ OnceIn(b, s) => OnceIn(a \o b, s)
         /\ OnceIn(a, s) /\ NeverIn(b, s) => OnceIn(a \o b, s)
<1> DEFINE f == a \o b
           m == Len(a)
           k == Len(b)
<1>1. /\ f \in Seq(S) /\ m \in Nat /\ k \in Nat
      /\ DOMAIN a = 1 .. m /\ DOMAIN b = 1 .. k /\ DOMAIN f = 1 .. m + k
      /\ \A i \in 1 .. m : f[i] = a[i]
      /\ \A i \in m + 1 .. m + k : f[i] = b[i - m]
  BY SMT
<1> HIDE DEF f, m, k
<1>2. ASSUME NEW i \in DOMAIN f
      PROVE  \/ i \in DOMAIN a /\ i \in 1 .. m /\ f[i] = a[i]
             \/ i - m \in DOMAIN b /\ i > m /\ f[i] = b[i - m] /\ i = (i - m) + m
  <2>1. CASE i <= m
    BY <1>1, <2>1, SMT
  <2>2. CASE i > m
    BY <1>1, <2>2, SMT
  <2> QED
    BY <1>1, <2>1, <2>2, SMT
<1>3. /\ \A i \in DOMAIN a : i \in DOMAIN f /\ f[i] = a[i]
      /\ \A i \in DOMAIN b : i + m \in DOMAIN f /\ f[i + m] = b[i] /\ i + m > m
  <2>1. ASSUME NEW i \in 1 .. m PROVE i \in 1 .. m + k
    BY <1>1, SMT
  <2>2. ASSUME NEW i \in 1 .. k
        PROVE  i + m \in m + 1 .. m + k /\ i + m \in 1 .. m + k /\ i + m > m /\ (i + m) - m = i
    BY <1>1, SMT
  <2>3. ASSUME NEW i \in 1 .. k PROVE f[i + m] = b[i]
    <3>1. f[i + m] = b[(i + m) - m]
      BY <1>1, <2>2
    <3> QED
      BY <2>2, <3>1
  <2> QED
    BY <1>1, <2>1, <2>2, <2>3
<1>4. (\A i \in DOMAIN b : b[i] # s) /\ (\A i \in DOMAIN a : a[i] # s)
        => \A i \in DOMAIN f : f[i] # s
  BY <1>2
<1>5. ASSUME \A i \in DOMAIN b : b[i] # s,
             NEW i \in DOMAIN a, \A j \in DOMAIN a : a[j] = s <=> j = i
      PROVE  \E e \in DOMAIN f : \A j \in DOMAIN f : f[j] = s <=> j = e
  <2>1. \A j \in DOMAIN f : f[j] = s <=> j = i
    BY <1>1, <1>2, <1>3, <1>5, SMT
  <2> QED
    BY <1>3, <2>1
<1>6. ASSUME \A i \in DOMAIN a : a[i] # s,
             NEW i \in DOMAIN b, \A j \in DOMAIN b : b[j] = s <=> j = i
      PROVE  \E e \in DOMAIN f : \A j \in DOMAIN f : f[j] = s <=> j = e
  <2>1. ASSUME NEW j \in DOMAIN f PROVE f[j] = s <=> j = i + m
    <3>1. CASE j \in DOMAIN a /\ j \in 1 .. m /\ f[j] = a[j]
      BY <1>1, <1>6, <3>1, SMT
    <3>2. CASE j - m \in DOMAIN b /\ f[j] = b[j - m]
      <4>1. f[j] = s <=> j - m = i
        BY <1>6, <3>2
      <4> QED
        BY <1>1, <4>1, SMT
    <3> QED
      BY <1>2, <3>1, <3>2
  <2> QED
    BY <1>3, <2>1
<1> QED
  BY <1>4, <1>5, <1>6 DEF f, NeverIn, OnceIn

-----------------------------------------------------------------------------
(* The steps.                                                              *)

\* A listing sees no change of a row it is not held to.
LEMMA RowStays ==
  ASSUME query' = query, after' = after, NEW x \in Streams, row'[x] = row[x]
  PROVE  /\ Key(query, x)' = Key(query, x)
         /\ (x \in Matching(query))' <=> x \in Matching(query)
         /\ Beyond(query, x)' <=> Beyond(query, x)
<1>1. Key(query, x)' = Key(query, x)
  BY Zenon DEF Key
<1>2. (x \in Matching(query))' <=> x \in Matching(query)
  BY DEF Matching, Rows, Matches
<1>3. Beyond(query, x)' <=> Beyond(query, x)
  BY <1>1, Zenon DEF Beyond, Precedes
<1> QED
  BY <1>1, <1>2, <1>3

LEMMA PlaceStays ==
  ASSUME NEW s, Placed(s), query' = query, listed' = listed, finished' = finished,
         Beyond(query, s)' <=> Beyond(query, s)
  PROVE  Placed(s)'
<1>1. (Never(s)' <=> Never(s)) /\ (Once(s)' <=> Once(s)) /\ (Appears(s)' <=> Appears(s))
  BY Zenon DEF Never, Once, NeverIn, OnceIn, Appears, HeldIn
<1>2. Unbracketed(query)' <=> Unbracketed(query)
  BY DEF Unbracketed
<1> QED
  BY <1>1, <1>2, Zenon DEF Placed

LEMMA ListingStays ==
  ASSUME TypeOK, PlaceInv, ListInv, UNCHANGED <<row, listing, moved>>
  PROVE  PlaceInv' /\ ListInv'
<1>1. /\ query' = query /\ after' = after /\ listed' = listed /\ total' = total
      /\ finished' = finished /\ cuts' = cuts /\ moved' = moved /\ row' = row
  BY DEF listing
<1>2. Matching(query)' = Matching(query)
  BY <1>1 DEF Matching, Rows, Matches
<1>3. PlaceInv'
  <2> SUFFICES ASSUME query # NoQuery, NEW s \in Owed', Fair(s)'
               PROVE  Placed(s)'
    BY <1>1 DEF PlaceInv
  <2>1. s \in Owed /\ s \in Streams
    BY <1>1, <1>2 DEF Owed, Matching, Rows
  <2>2. Key(query, s)' = Key(query, s) /\ (Beyond(query, s)' <=> Beyond(query, s))
    BY <1>1, <2>1, RowStays
  <2>3. Fair(s)
    BY <1>1, <2>2, Zenon DEF Fair, SomeNullCut, TiedWithCut
  <2>4. Placed(s)
    BY <2>1, <2>3 DEF PlaceInv
  <2> QED
    BY <1>1, <2>2, <2>4, PlaceStays
<1>4. ListInv'
  BY <1>1, <1>2 DEF ListInv, Count
<1> QED
  BY <1>3, <1>4

LEMMA AppendKeeps ==
  ASSUME ReadModelAssumption, PInv, NEW s \in Streams, NEW e \in EventMenu,
         StoreAppends(s, e)
  PROVE  PInv'
<1>1. TypeOK'
  BY SMT DEF PInv, TypeOK, StoreAppends, listing
<1>2. RowInv'
  <2> SUFFICES ASSUME NEW x \in Streams
               PROVE  /\ delivered[x] \subseteq DOMAIN events'[x]
                      /\ IF delivered[x] = {} THEN row[x] = NoRow
                         ELSE \E n \in delivered[x] : (\A k \in delivered[x] : k <= n)
                                /\ row[x] = Upserted(x, n)'
    BY DEF RowInv, StoreAppends
  <2>1. /\ DOMAIN events[x] \subseteq DOMAIN events'[x]
        /\ \A n \in DOMAIN events[x] : events'[x][n] = events[x][n]
    BY SMT DEF PInv, TypeOK, StoreAppends
  <2>2. \A n \in delivered[x] : n \in DOMAIN events[x] /\ Upserted(x, n)' = Upserted(x, n)
    BY <2>1, Zenon DEF PInv, RowInv, Upserted
  <2>3. delivered[x] \subseteq DOMAIN events'[x]
    BY <2>1 DEF PInv, RowInv
  <2>4. CASE delivered[x] # {}
    <3>1. PICK n \in delivered[x] :
            (\A k \in delivered[x] : k <= n) /\ row[x] = Upserted(x, n)
      BY <2>4 DEF PInv, RowInv
    <3>2. row[x] = Upserted(x, n)'
      BY <2>2, <3>1
    <3> QED
      BY <2>3, <2>4, <3>1, <3>2
  <2>5. CASE delivered[x] = {}
    BY <2>3, <2>5 DEF PInv, RowInv
  <2> QED
    BY <2>4, <2>5
<1>3. PlaceInv' /\ ListInv'
  BY ListingStays DEF PInv, StoreAppends
<1> QED
  BY <1>1, <1>2, <1>3 DEF PInv

\* What the upsert writes is a row.
LEMMA UpsertedIsRow ==
  ASSUME ReadModelAssumption, TypeOK, NEW s \in Streams, NEW n \in DOMAIN events[s]
  PROVE  Upserted(s, n) \in Row /\ n \in Nat /\ Upserted(s, n).last_seq = n
<1>1. n \in Nat /\ events[s][n] \in EventMenu
  <2>1. events[s] \in Seq(EventMenu)
    BY DEF TypeOK
  <2>2. Len(events[s]) \in Nat /\ n \in 1 .. Len(events[s])
    BY <2>1
  <2> QED
    BY <2>1, <2>2, SMT
<1>2. events[s][n] \in [at : Nat, value : Types \X Nat, dead : BOOLEAN]
  BY <1>1 DEF ReadModelAssumption
<1> QED
  BY <1>1, <1>2 DEF Upserted, Row

LEMMA CommitKeeps ==
  ASSUME ReadModelAssumption, PInv, NEW s \in Streams, NEW n, Commit(s, n)
  PROVE  PInv'
<1>1. /\ n \in DOMAIN events[s] /\ n \in Nat /\ Upserted(s, n) \in Row
      /\ delivered' = [delivered EXCEPT ![s] = @ \cup {n}]
      /\ UNCHANGED <<events, listing>>
      /\ Upserted(s, n).last_seq = n
  BY UpsertedIsRow DEF PInv, Commit
<1>2. /\ events' = events /\ query' = query /\ after' = after /\ listed' = listed
      /\ total' = total /\ finished' = finished /\ cuts' = cuts
  BY <1>1 DEF listing
<1>3. ASSUME NEW x, NEW k PROVE Upserted(x, k)' = Upserted(x, k)
  BY <1>2, Zenon DEF Upserted
<1>4. ASSUME NEW x \in Streams \ {s}
      PROVE  row'[x] = row[x] /\ delivered'[x] = delivered[x]
  BY <1>1 DEF PInv, TypeOK, Commit
<1>5. delivered'[s] = delivered[s] \cup {n}
  BY <1>1 DEF PInv, TypeOK
<1>6. CASE Newer(s, n)
  <2>1. /\ row' = [row EXCEPT ![s] = Upserted(s, n)]
        /\ moved' = IF query = NoQuery THEN moved ELSE moved \cup {s}
    BY <1>6 DEF Commit
  <2>2. TypeOK'
    BY <1>1, <1>2, <2>1 DEF PInv, TypeOK
  <2>3. RowInv'
    <3>1. row'[s] = Upserted(s, n)
      BY <2>1 DEF PInv, TypeOK
    <3>2. \A k \in delivered'[s] : k <= n
      <4>1. CASE delivered[s] = {}
        BY <1>1, <1>5, <4>1, SMT
      <4>2. CASE delivered[s] # {}
        <5>1. PICK m \in delivered[s] :
                (\A k \in delivered[s] : k <= m) /\ row[s] = Upserted(s, m)
          BY <4>2 DEF PInv, RowInv
        <5>2. /\ m \in DOMAIN events[s] /\ Upserted(s, m) \in Row
              /\ m \in Nat /\ Upserted(s, m).last_seq = m
          <6>1. m \in DOMAIN events[s]
            BY <5>1 DEF PInv, RowInv
          <6> QED
            BY <6>1, UpsertedIsRow DEF PInv
        <5>3. n > m
          BY <1>6, <5>1, <5>2 DEF Newer, ReadModelAssumption
        <5>4. delivered[s] \subseteq Nat
          BY DEF PInv, TypeOK
        <5> QED
          BY <1>1, <1>5, <5>1, <5>2, <5>3, <5>4, SMT
      <4> QED
        BY <4>1, <4>2
    <3>3. delivered'[s] \subseteq DOMAIN events[s] /\ n \in delivered'[s]
      BY <1>1, <1>5 DEF PInv, RowInv
    <3> QED
      BY <1>2, <1>3, <1>4, <3>1, <3>2, <3>3, Zenon DEF PInv, RowInv
  <2>4. ASSUME NEW x \in Streams, x \notin moved', query # NoQuery
        PROVE  row'[x] = row[x] /\ x \notin moved
    BY <1>4, <2>1, <2>4
  <2>5. PlaceInv'
    <3> SUFFICES ASSUME query # NoQuery, NEW x \in Owed', Fair(x)'
                 PROVE  Placed(x)'
      BY <1>2 DEF PlaceInv
    <3>1. x \in Streams /\ x \notin moved' /\ (x \in Matching(query))'
      BY DEF Owed, Matching, Rows
    <3>2. row'[x] = row[x] /\ x \notin moved
      BY <2>4, <3>1
    <3>3. /\ Key(query, x)' = Key(query, x) /\ x \in Matching(query)
          /\ Beyond(query, x)' <=> Beyond(query, x)
      BY <1>2, <3>1, <3>2, RowStays
    <3>4. x \in Owed /\ Fair(x)
      BY <1>2, <3>2, <3>3, Zenon DEF Owed, Fair, SomeNullCut, TiedWithCut
    <3>5. Placed(x)
      BY <3>4 DEF PInv, PlaceInv
    <3> QED
      BY <1>2, <3>3, <3>5, PlaceStays
  <2>6. ListInv'
    <3>1. CASE query = NoQuery
      BY <1>2, <2>1, <3>1 DEF PInv, ListInv
    <3>2. CASE query # NoQuery
      <4>1. moved' = moved \cup {s}
        BY <2>1, <3>2
      <4>2. ASSUME NEW i \in DOMAIN listed
            PROVE  listed[i] \in Matching(query)' \cup moved'
        <5>1. listed[i] \in Streams
          BY SMT DEF PInv, TypeOK
        <5>2. listed[i] \in Matching(query) \cup moved
          BY <3>2 DEF PInv, ListInv
        <5>3. CASE listed[i] \in moved'
          BY <5>3
        <5>4. CASE listed[i] \notin moved'
          BY <1>2, <2>4, <3>2, <5>1, <5>2, <5>4, RowStays
        <5> QED
          BY <5>3, <5>4
      <4> QED
        BY <1>2, <3>2, <4>1, <4>2 DEF PInv, ListInv
    <3> QED
      BY <3>1, <3>2
  <2> QED
    BY <2>2, <2>3, <2>5, <2>6 DEF PInv
<1>7. CASE ~Newer(s, n)
  <2>1. row' = row /\ moved' = moved
    BY <1>7 DEF Commit
  <2>2. TypeOK'
    BY <1>1, <1>2, <2>1 DEF PInv, TypeOK
  <2>3. RowInv'
    <3>1. row[s] # NoRow /\ ~(n > row[s].last_seq)
      BY <1>7 DEF Newer
    <3>2. PICK m \in delivered[s] :
            (\A k \in delivered[s] : k <= m) /\ row[s] = Upserted(s, m)
      BY <3>1 DEF PInv, RowInv
    <3>3. m \in DOMAIN events[s] /\ m \in Nat /\ Upserted(s, m).last_seq = m
      <4>1. m \in DOMAIN events[s]
        BY <3>2 DEF PInv, RowInv
      <4> QED
        BY <4>1, UpsertedIsRow DEF PInv
    <3>4. n <= m
      BY <1>1, <3>1, <3>2, <3>3, SMT
    <3>5. m \in delivered'[s] /\ \A k \in delivered'[s] : k <= m
      BY <1>5, <3>2, <3>4
    <3>6. delivered'[s] \subseteq DOMAIN events[s]
      BY <1>1, <1>5 DEF PInv, RowInv
    <3> QED
      BY <1>2, <1>3, <1>4, <2>1, <3>2, <3>5, <3>6, Zenon DEF PInv, RowInv
  <2>4. PlaceInv' /\ ListInv'
    BY <1>1, <2>1, ListingStays DEF PInv
  <2> QED
    BY <2>2, <2>3, <2>4 DEF PInv
<1> QED
  BY <1>6, <1>7

LEMMA RowsStay ==
  ASSUME RowInv, UNCHANGED <<events, delivered, row>>
  PROVE  RowInv'
BY Zenon DEF RowInv, Upserted

LEMMA OpenKeeps ==
  ASSUME ReadModelAssumption, PInv, NEW q \in Queries, Open(q)
  PROVE  PInv'
<1>1. TypeOK' /\ RowInv'
  BY RowsStay DEF PInv, TypeOK, Open
<1>2. /\ listed' = <<>> /\ after' = NoCursor /\ ~finished' /\ cuts' = {} /\ moved' = {}
      /\ query' = q /\ q # NoQuery
  BY DEF PInv, ListInv, Open, ReadModelAssumption
<1>3. ListInv'
  BY <1>2, SMT DEF ListInv
<1>4. PlaceInv'
  <2>1. \A s : Beyond(query, s)' /\ Never(s)'
    BY <1>2, SMT DEF Beyond, Never, NeverIn
  <2> QED
    BY <1>2, <2>1 DEF PlaceInv, Placed
<1> QED
  BY <1>1, <1>3, <1>4 DEF PInv

LEMMA CloseKeeps ==
  ASSUME ReadModelAssumption, PInv, Close
  PROVE  PInv'
<1>1. /\ listed' = <<>> /\ after' = NoCursor /\ ~finished' /\ cuts' = {} /\ moved' = {}
      /\ query' = NoQuery
  BY DEF Close
<1>2. TypeOK' /\ RowInv'
  <2>1. listed' \in Seq(Streams)
    BY <1>1, SMT
  <2> QED
    BY <1>1, <2>1, RowsStay DEF PInv, TypeOK, Close
<1>3. ListInv' /\ PlaceInv'
  BY <1>1 DEF ListInv, PlaceInv
<1> QED
  BY <1>2, <1>3 DEF PInv

\* A page has the matching rows beyond the cursor, and no others unless its
\* clause is a disjunction without brackets; and then only matching ones.
LEMMA OfferedIs ==
  ASSUME ReadModelAssumption, NEW q \in Queries
  PROVE  /\ Offered(q) \subseteq Matching(q)
         /\ Ahead(q, after) \subseteq Offered(q)
         /\ ~Unbracketed(q) => Offered(q) = Ahead(q, after)
<1>1. \A s : Beyond(q, s) <=> BeyondCut(q, after, s)
  BY DEF Beyond, BeyondCut
<1>2. CASE ~Unbracketed(q)
  BY <1>1, <1>2 DEF Offered, OnPage, Ahead, Matching
<1>3. CASE Unbracketed(q)
  <2> DEFINE n == Len(q.filter.arg)
             part(s, i) == Selects(q.filter.arg[i], row[s].value)
  <2>1. q.filter \in AllFilters /\ q.filter.op = "or" /\ q.include_dead /\ n > 1
    BY <1>3 DEF Unbracketed, ReadModelAssumption
  <2>2. n \in Nat /\ \A s : Matches(q, s) <=> \E i \in 1 .. n : part(s, i)
    BY <2>1, DisjunctionSelects DEF Matches
  <2>3. \A s : OnPage(q, s) <=>
          (\E i \in 1 .. n - 1 : part(s, i)) \/ (part(s, n) /\ Beyond(q, s))
    BY <1>3 DEF OnPage
  <2> HIDE DEF part, n
  <2>4. n \in 1 .. n /\ \A i \in 1 .. n : i = n \/ i \in 1 .. n - 1
    BY <2>1, <2>2
  <2>5. \A i \in 1 .. n - 1 : i \in 1 .. n
    BY <2>1, <2>2
  <2>6. ASSUME NEW s PROVE OnPage(q, s) => Matches(q, s)
    BY <2>2, <2>3, <2>4, <2>5
  <2>7. ASSUME NEW s PROVE Matches(q, s) /\ Beyond(q, s) => OnPage(q, s)
    BY <2>2, <2>3, <2>4
  <2> QED
    BY <1>1, <1>3, <2>6, <2>7 DEF Offered, Ahead, Matching
<1> QED
  BY <1>2, <1>3

LEMMA PageKeeps ==
  ASSUME ReadModelAssumption, PInv, ReadPage
  PROVE  PInv'
<1> DEFINE M == Offered(query)
           A == Ahead(query, after)
<1>1. /\ query \in Queries /\ query # NoQuery /\ ~finished
      /\ {s \in Rows : OnPage(query, s)} = M
  BY DEF ReadPage, PInv, TypeOK, Offered
<1>2. PICK p \in Pages(query, M) :
        /\ listed' = listed \o p
        /\ finished' = (Len(p) < query.limit)
        /\ after' = IF p = <<>> THEN after ELSE Cut(query, p[Len(p)])
  BY <1>1 DEF ReadPage, Cut
<1>3. /\ cuts' = cuts \cup ({after'} \ {NoCursor})
      /\ total' = Count(query)
      /\ UNCHANGED <<events, delivered, row, query, moved>>
  BY DEF ReadPage
<1> DEFINE n == Len(p)
           d == Cut(query, p[n])
<1>4. /\ M \in SUBSET Streams /\ M \subseteq Matching(query) /\ A \subseteq M
      /\ ~Unbracketed(query) => M = A
      /\ \A s \in Matching(query) : s \in A <=> BeyondCut(query, after, s)
  BY <1>1, OfferedIs DEF Ahead, Matching, Rows
<1> HIDE DEF M, A
<1>5. /\ p \in Seq(M) /\ p \in Seq(Streams) /\ n \in Nat /\ DOMAIN p = 1 .. n
      /\ \A i, j \in 1 .. n : i < j => p[i] # p[j]
      /\ finished' => \A s \in M : \E i \in 1 .. n : p[i] = s
      /\ p = <<>> <=> n = 0
      /\ p = <<>> => finished'
  <2>1. /\ p \in Seq(M) /\ n \in Nat /\ DOMAIN p = 1 .. n
        /\ \A i, j \in 1 .. n : i < j => p[i] # p[j]
        /\ n < query.limit => \A s \in M : \E i \in 1 .. n : p[i] = s
    BY <1>1, <1>4, PageIs
  <2>2. p \in Seq(Streams)
    BY <1>4, <2>1, SeqMonotonic
  <2>3. p = <<>> <=> n = 0
    BY <2>1, SMT
  <2>4. p = <<>> => finished'
    <3>1. query.limit \in Nat \ {0}
      BY <1>1 DEF ReadModelAssumption
    <3>2. finished' = (n < query.limit)
      BY <1>2
    <3>3. 0 < query.limit
      BY <3>1, SMT
    <3> QED
      BY <2>3, <3>2, <3>3
  <2> QED
    BY <1>2, <2>1, <2>2, <2>3, <2>4
<1>6. ASSUME NEW i \in 1 .. n
      PROVE  /\ p[i] \in M
             /\ \A j \in DOMAIN p : p[j] = p[i] <=> j = i
  <2>1. p[i] \in M
    BY <1>5
  <2>2. ASSUME NEW j \in 1 .. n, j # i PROVE p[j] # p[i]
    BY <1>5, <2>2, SMT
  <2> QED
    BY <1>5, <2>1, <2>2
<1>7. p # <<>> => after' = d /\ d \in Cursor /\ d # NoCursor /\ n \in 1 .. n
  <2> SUFFICES ASSUME p # <<>> PROVE d \in Cursor /\ n \in 1 .. n
    BY <1>2 DEF ReadModelAssumption
  <2>1. n \in 1 .. n
    BY <1>5, SMT
  <2>2. p[n] \in Matching(query) /\ p[n] \in Streams
    BY <1>4, <1>6, <2>1
  <2>3. Key(query, p[n]) \in Keys /\ p[n] \in Nat
    BY <1>1, <2>2, RowOfMatch, KeyIsOne DEF PInv, ReadModelAssumption
  <2> QED
    BY <2>1, <2>3 DEF Cursor, Cut
<1>8. TypeOK'
  <2>1. listed' \in Seq(Streams)
    BY <1>2, <1>5, PageComesFrom DEF PInv, TypeOK
  <2>2. after' \in Cursor \cup {NoCursor} /\ finished' \in BOOLEAN
    BY <1>2, <1>7 DEF PInv, TypeOK
  <2>3. cuts' \subseteq Cursor
    BY <1>3, <2>2 DEF PInv, TypeOK
  <2> QED
    BY <1>3, <2>1, <2>2, <2>3 DEF PInv, TypeOK
<1>9. /\ Matching(query)' = Matching(query)
      /\ \A s : Key(query, s)' = Key(query, s)
      /\ \A s : Beyond(query, s)' <=> BeyondCut(query, after', s)
      /\ \A s : Beyond(query, s) <=> BeyondCut(query, after, s)
  <2>1. \A s : Key(query, s)' = Key(query, s)
    BY <1>3, Zenon DEF Key
  <2>2. \A s : Beyond(query, s)' <=> BeyondCut(query, after', s)
    BY <1>3, <2>1, Zenon DEF Beyond, BeyondCut, Precedes
  <2> QED
    BY <1>3, <2>1, <2>2 DEF Matching, Rows, Matches, Beyond, BeyondCut
<1>10. PlaceInv'
  <2> SUFFICES ASSUME NEW s \in Owed', Fair(s)' PROVE Placed(s)'
    BY <1>3, Zenon DEF PlaceInv
  <2>1. s \in Matching(query) /\ s \in Owed /\ s \in Streams
    BY <1>3, <1>9 DEF Owed, Matching, Rows
  <2>2. /\ Key(query, s) # SqlNull
        /\ \A c \in cuts' : c.key # SqlNull /\ (c.stream # s => c.key # Key(query, s))
    BY <1>9, Zenon DEF Fair, SomeNullCut, TiedWithCut
  <2>3. Fair(s)
    BY <1>3, <2>2 DEF Fair, SomeNullCut, TiedWithCut
  <2>4. /\ s \in A \/ Appears(s)
        /\ ~Unbracketed(query) => IF s \in A THEN Never(s) ELSE Once(s)
    <3>1. Placed(s)
      BY <1>1, <2>1, <2>3 DEF PInv, PlaceInv
    <3> QED
      BY <1>4, <1>9, <2>1, <3>1 DEF Placed
  <2>5. /\ listed \in Seq(Streams) /\ p \in Seq(Streams) /\ listed' = listed \o p
        /\ Unbracketed(query)' <=> Unbracketed(query)
    BY <1>2, <1>3, <1>5 DEF PInv, TypeOK, Unbracketed
  <2>6. /\ Appears(s) => Appears(s)'
        /\ (\E i \in DOMAIN p : p[i] = s) => Appears(s)'
    <3>1. Appears(s)' <=> HeldIn(listed \o p, s)
      BY <2>5, Zenon DEF Appears
    <3>2. Appears(s) => HeldIn(listed \o p, s)
      BY <2>5, PageHolds DEF Appears
    <3>3. (\E i \in DOMAIN p : p[i] = s) => HeldIn(p, s)
      BY Zenon DEF HeldIn
    <3>4. HeldIn(p, s) => HeldIn(listed \o p, s)
      BY <2>5, PageHolds
    <3> QED
      BY <3>1, <3>2, <3>3, <3>4, Zenon
  <2>7. p # <<>> =>
          /\ s \in M /\ (\A i \in DOMAIN p : p[i] # s) => BeyondCut(query, d, s)
          /\ M = A => (BeyondCut(query, d, s) <=> s \in M /\ \A i \in DOMAIN p : p[i] # s)
    <3> SUFFICES ASSUME p # <<>>
                 PROVE  /\ s \in M /\ (\A i \in DOMAIN p : p[i] # s) => BeyondCut(query, d, s)
                        /\ M = A => (BeyondCut(query, d, s)
                                       <=> s \in M /\ \A i \in DOMAIN p : p[i] # s)
      OBVIOUS
    <3>1. Key(query, p[n]) # SqlNull /\ (p[n] # s => Key(query, p[n]) # Key(query, s))
      <4>1. d \in cuts'
        BY <1>3, <1>7
      <4>2. d.key = Key(query, p[n]) /\ d.stream = p[n]
        BY DEF Cut
      <4> QED
        BY <2>2, <4>1, <4>2
    <3>2. after # NoCursor => after.key # SqlNull
      BY <1>3, <2>2 DEF PInv, ListInv
    <3>3. after \in Cursor \cup {NoCursor}
      BY DEF PInv, TypeOK
    <3>4. n # 0 /\ TypeOK
      BY <1>5 DEF PInv
    <3>5. Ahead(query, after) \subseteq M /\ M \subseteq Matching(query) /\ A = Ahead(query, after)
      BY <1>4 DEF A
    <3>6. p \in Pages(query, M) /\ query \in Queries
      BY <1>1
    <3>7. s \in Matching(query) /\ Key(query, s) # SqlNull
      BY <2>1, <2>2
    <3> HIDE DEF n, d
    <3>8. Len(p) # 0 /\ d = Cut(query, p[Len(p)]) /\ n = Len(p)
      BY <3>4 DEF n, d
    <3> QED
      BY <3>1, <3>2, <3>3, <3>4, <3>5, <3>6, <3>7, <3>8, PageMoves
  <2>8. Appears(s)' \/ BeyondCut(query, after', s)
    <3>1. CASE p = <<>>
      BY <1>2, <1>4, <2>1, <2>4, <2>6, <3>1 DEF A, Ahead
    <3>2. CASE p # <<>>
      BY <1>4, <1>7, <2>4, <2>6, <2>7, <3>2
    <3> QED
      BY <3>1, <3>2
  <2>9. finished' => Appears(s)'
    <3>1. finished' /\ s \in M => \E i \in DOMAIN p : p[i] = s
      BY <1>5
    <3> QED
      BY <1>4, <2>4, <2>6, <3>1
  <2>10. ASSUME ~Unbracketed(query)
         PROVE  IF BeyondCut(query, after', s) THEN ~finished' /\ Never(s)' ELSE Once(s)'
    <3>1. M = A /\ (IF s \in M THEN Never(s) ELSE Once(s))
      BY <1>4, <2>4, <2>10
    <3>2. CASE p = <<>>
      <4>1. listed' = listed /\ after' = after
        BY <1>2, <3>2 DEF PInv, TypeOK
      <4>2. M = {}
        BY <1>5, <3>2, SMT
      <4>3. ~BeyondCut(query, after', s)
        BY <1>4, <2>1, <3>1, <4>1, <4>2
      <4> QED
        BY <3>1, <4>1, <4>2, <4>3, Zenon DEF Once, OnceIn
    <3>3. CASE p # <<>>
      <4>1. after' = d /\ (BeyondCut(query, d, s) <=> s \in M /\ \A i \in DOMAIN p : p[i] # s)
        BY <1>7, <2>7, <3>1, <3>3
      <4>2. CASE s \in M /\ \A i \in DOMAIN p : p[i] # s
        <5>1. Never(s)'
          BY <2>5, <3>1, <4>2, PageAdds DEF Never, NeverIn
        <5>2. ~finished'
          BY <1>5, <4>2
        <5> QED
          BY <4>1, <4>2, <5>1, <5>2
      <4>3. CASE s \in M /\ \E i \in DOMAIN p : p[i] = s
        <5>1. PICK i \in DOMAIN p : p[i] = s
          BY <4>3
        <5>2. \A j \in DOMAIN p : p[j] = s <=> j = i
          BY <1>5, <1>6, <5>1
        <5>3. OnceIn(p, s)
          BY <5>1, <5>2 DEF OnceIn
        <5>4. Once(s)'
          BY <2>5, <3>1, <4>3, <5>3, PageAdds DEF Never, Once
        <5> QED
          BY <4>1, <4>3, <5>4
      <4>4. CASE s \notin M
        <5>1. NeverIn(p, s)
          BY <1>5, <1>6, <4>4 DEF NeverIn
        <5>2. Once(s)'
          BY <2>5, <3>1, <4>4, <5>1, PageAdds DEF Once
        <5> QED
          BY <4>1, <4>4, <5>2
      <4> QED
        BY <4>2, <4>3, <4>4
    <3> QED
      BY <3>2, <3>3
  <2> QED
    BY <1>9, <2>5, <2>8, <2>9, <2>10, Zenon DEF Placed
<1>11. ListInv'
  <2>1. query' # NoQuery
    BY <1>1, <1>3
  <2>2. after' = NoCursor \/ after' \in cuts'
    BY <1>3
  <2>3. ASSUME NEW i \in DOMAIN listed' PROVE listed'[i] \in Matching(query) \cup moved
    <3>1. listed \in Seq(Streams) /\ p \in Seq(Streams)
      BY <1>5 DEF PInv, TypeOK
    <3>2. (\E j \in DOMAIN listed : listed'[i] = listed[j]) \/ \E j \in DOMAIN p : listed'[i] = p[j]
      <4>1. listed' = listed \o p
        BY <1>2
      <4>2. MadeOf(listed \o p, listed, p)
        BY <3>1, PageComesFrom
      <4> QED
        BY <2>3, <4>1, <4>2, Zenon DEF MadeOf
    <3>3. \A j \in DOMAIN listed : listed[j] \in Matching(query) \cup moved
      BY <1>1 DEF PInv, ListInv
    <3>4. \A j \in DOMAIN p : p[j] \in Matching(query)
      BY <1>4, <1>5, <1>6
    <3> QED
      BY <3>2, <3>3, <3>4
  <2>4. total' = Count(query)'
    BY <1>3, <1>9 DEF Count
  <2> QED
    BY <1>3, <1>9, <2>1, <2>2, <2>3, <2>4 DEF ListInv
<1>12. RowInv'
  BY <1>3, RowsStay DEF PInv
<1> QED
  BY <1>8, <1>10, <1>11, <1>12 DEF PInv

\* The invariant holds of every state.
THEOREM RowsAndPlacesHold == Spec => []PInv
<1>1. Init => PInv
  <2> SUFFICES ASSUME Init PROVE PInv
    OBVIOUS
  <2>1. <<>> \in Seq(EventMenu) /\ <<>> \in Seq(Streams) /\ DOMAIN <<>> = {}
    BY SMT
  <2>2. TypeOK
    BY <2>1 DEF Init, TypeOK
  <2> QED
    BY <2>2 DEF Init, PInv, RowInv, PlaceInv, ListInv
<1>2. PInv /\ [Next]_vars => PInv'
  <2> SUFFICES ASSUME PInv, [Next]_vars PROVE PInv'
    OBVIOUS
  <2>1. ASSUME NEW s \in Streams, NEW e \in EventMenu, StoreAppends(s, e) PROVE PInv'
    BY <2>1, ReadModelAssumption, AppendKeeps
  <2>2. ASSUME NEW c \in Committed, Commit(c[1], c[2]) PROVE PInv'
    <3>1. c[1] \in Streams
      BY DEF Committed
    <3> QED
      BY <2>2, <3>1, ReadModelAssumption, CommitKeeps
  <2>3. ASSUME NEW q \in Queries, Open(q) PROVE PInv'
    BY <2>3, ReadModelAssumption, OpenKeeps
  <2>4. CASE ReadPage
    BY <2>4, ReadModelAssumption, PageKeeps
  <2>5. CASE Close
    BY <2>5, ReadModelAssumption, CloseKeeps
  <2>6. CASE UNCHANGED vars
    <3>1. TypeOK' /\ RowInv'
      BY <2>6, RowsStay DEF vars, listing, PInv, TypeOK
    <3>2. PlaceInv' /\ ListInv'
      BY <2>6, ListingStays DEF vars, PInv
    <3> QED
      BY <3>1, <3>2 DEF PInv
  <2> QED
    BY <2>1, <2>2, <2>3, <2>4, <2>5, <2>6 DEF Next
<1> QED
  BY <1>1, <1>2, PTL DEF Spec

-----------------------------------------------------------------------------
(* What readers are promised.                                              *)

\* However often and in whatever order events are delivered, a row shows the
\* newest one: the guard of SqliteReadModel::commit is enough.
THEOREM RowsNeverGoBack == Spec => []RowIsNewest
<1>1. PInv => RowIsNewest
  <2> DEFINE newest(s) == CHOOSE n \in delivered[s] : \A k \in delivered[s] : k <= n
  <2> SUFFICES ASSUME PInv, NEW s \in Streams, delivered[s] # {}
               PROVE  row[s] = [last_seq |-> newest(s), at |-> events[s][newest(s)].at,
                                value |-> events[s][newest(s)].value,
                                dead |-> events[s][newest(s)].dead]
    BY Zenon DEF RowIsNewest
  <2>1. PICK m \in delivered[s] :
          (\A k \in delivered[s] : k <= m) /\ row[s] = Upserted(s, m)
    BY DEF PInv, RowInv
  <2>2. delivered[s] \in SUBSET Nat
    BY DEF PInv, TypeOK
  <2>3. m = newest(s)
    BY <2>1, <2>2, GreatestIs
  <2> QED
    BY <2>1, <2>3 DEF Upserted
<1> QED
  BY <1>1, RowsAndPlacesHold, PTL

LEMMA OnceIsOne ==
  ASSUME NEW s, Once(s)
  PROVE  Times(s) = 1
<1>1. PICK i \in DOMAIN listed : \A j \in DOMAIN listed : listed[j] = s <=> j = i
  BY DEF Once, OnceIn
<1>2. {j \in DOMAIN listed : listed[j] = s} = {i}
  BY <1>1
<1> QED
  BY <1>2, FS_Singleton, Zenon DEF Times

LEMMA AppearsIsSome ==
  ASSUME NEW s, Appears(s), listed \in Seq(Streams)
  PROVE  Times(s) \in Nat /\ Times(s) >= 1
<1> DEFINE n == Len(listed)
           I == {i \in DOMAIN listed : listed[i] = s}
<1>1. n \in Nat /\ DOMAIN listed = 1 .. n
  OBVIOUS
<1>2. IsFiniteSet(1 .. n)
  <2>1. 1 \in Int /\ n \in Int
    BY <1>1
  <2> QED
    BY <2>1, FS_Interval
<1>3. IsFiniteSet(I) /\ I # {}
  BY <1>1, <1>2, FS_Subset DEF Appears, HeldIn
<1> HIDE DEF I
<1>4. Cardinality(I) \in Nat /\ Cardinality(I) # 0
  BY <1>3, FS_CardinalityType, FS_EmptySet
<1> QED
  BY <1>4 DEF Times, I

\* A finished listing has every row it is held to, and once if the cursor holds
\* for all rows.
LEMMA FinishedHasAll ==
  ASSUME PInv, finished
  PROVE  /\ query # NoQuery
         /\ \A s \in Owed : Fair(s) => Appears(s) /\ (~Unbracketed(query) => Once(s))
BY DEF PInv, ListInv, PlaceInv, Placed

\* Keyset paging never skips a row that nobody writes meanwhile, for any number
\* of pages of any size, as long as its key is not NULL or one a page ended
\* with; nor does it repeat one, unless the clause is a disjunction without
\* brackets, to which the cursor is not applied as a whole.
THEOREM PagingIsExact == Spec => []ListedOnce
<1>1. PInv => ListedOnce
  <2> SUFFICES ASSUME PInv, finished, NEW s \in Owed,
                      Key(query, s) # SqlNull, ~SomeNullCut, ~TiedWithCut(s)
               PROVE  Times(s) >= 1 /\ (~Unbracketed(query) => Times(s) = 1)
    BY DEF ListedOnce
  <2>1. Appears(s) /\ (~Unbracketed(query) => Once(s))
    BY FinishedHasAll DEF Fair
  <2>2. listed \in Seq(Streams)
    BY DEF PInv, TypeOK
  <2> QED
    BY <2>1, <2>2, AppearsIsSome, OnceIsOne
<1> QED
  BY <1>1, RowsAndPlacesHold, PTL

\* The count that comes with the last page is the length of the listing, if
\* nothing was written meanwhile, or less by the rows that are repeated; with
\* the same exceptions.
THEOREM CountsAgree == Spec => []CountAgrees
<1>1. PInv => CountAgrees
  <2> SUFFICES ASSUME PInv, finished, moved = {}, ~SomeNullCut,
                      \A s \in Matching(query) : Key(query, s) # SqlNull /\ ~TiedWithCut(s)
               PROVE  total <= Len(listed) /\ (~Unbracketed(query) => total = Len(listed))
    BY DEF CountAgrees
  <2> DEFINE n == Len(listed)
             M == Matching(query)
  <2>1. listed \in Seq(Streams) /\ n \in Nat /\ DOMAIN listed = 1 .. n
    BY DEF PInv, TypeOK
  <2>2. \A s \in M : Appears(s) /\ (~Unbracketed(query) => Once(s))
    BY FinishedHasAll DEF Owed, Fair
  <2>3. \A i \in 1 .. n : listed[i] \in M
    BY <2>1, FinishedHasAll DEF PInv, ListInv
  <2>4. listed \in [1 .. n -> M]
    <3>1. listed \in [1 .. n -> Streams]
      BY <2>1, SMT
    <3> QED
      BY <2>3, <3>1
  <2>5. listed \in Surjection(1 .. n, M)
    <3>1. \A s \in M : \E i \in 1 .. n : listed[i] = s
      BY <2>1, <2>2 DEF Appears, HeldIn
    <3> QED
      BY <2>4, <3>1 DEF Surjection
  <2>6. IsFiniteSet(1 .. n) /\ Cardinality(1 .. n) = n
    <3>1. 1 \in Int /\ n \in Int
      BY <2>1, SMT
    <3> HIDE DEF n
    <3> QED
      BY <2>1, <3>1, FS_Interval, SMT
  <2>7. Cardinality(M) <= n
    BY <2>5, <2>6, FS_Surjection
  <2>8. ASSUME ~Unbracketed(query) PROVE Cardinality(M) = n
    <3>1. ASSUME NEW i \in 1 .. n, NEW j \in 1 .. n, listed[i] = listed[j] PROVE i = j
      <4>1. Once(listed[i])
        BY <2>2, <2>3, <2>8
      <4> QED
        BY <2>1, <3>1, <4>1 DEF Once, OnceIn
    <3>2. listed \in Bijection(1 .. n, M)
      BY <2>4, <2>5, <3>1 DEF Bijection, Injection, IsInjective
    <3>3. ExistsBijection(1 .. n, M)
      BY <3>2 DEF ExistsBijection
    <3> QED
      BY <2>6, <3>3, FS_Bijection
  <2> QED
    BY <2>7, <2>8 DEF PInv, ListInv, Count
<1> QED
  BY <1>1, RowsAndPlacesHold, PTL

\* Whatever a row comes to be, a query selects it as its filter says: the rows
\* are values of the events delivered.
THEOREM FiltersAreSound == Spec => []FilterSound
<1>1. PInv => FilterSound
  <2> SUFFICES ASSUME PInv, NEW q \in Queries, NEW s \in Rows,
                      row[s].value[1] \in {"num", "text"}, Typed(q.filter, row[s].value)
               PROVE  Selects(q.filter, row[s].value) <=> Means(q.filter, row[s].value)
    BY DEF FilterSound
  <2> DEFINE v == row[s].value
  <2>1. v \in Typeful
    <3>1. row[s] \in Row
      BY DEF PInv, TypeOK, Rows
    <3>2. v \in Types \X Nat
      BY <3>1 DEF Row
    <3> QED
      BY <3>2 DEF Typeful
  <2>2. q.filter \in AllFilters
    BY ReadModelAssumption
  <2>3. Holds(q.filter, v) = Sure(Means(q.filter, v))
    BY <2>1, <2>2, FiltersMeanWhatTheySay
  <2> QED
    BY <2>3 DEF Selects, Sure
<1> QED
  BY <1>1, RowsAndPlacesHold, PTL
=============================================================================
