----------------------------- MODULE ReadModel -----------------------------
(***************************************************************************)
(* SqliteReadModel: one row per stream with the latest state delivered, and*)
(* the queries on it, page by page, while deliveries go on                 *)
(* (ai-store-sqlite: read_model.rs, query.rs).                             *)
(*                                                                         *)
(* A stream is named by the rank of its name.  Of a state only one field   *)
(* is kept, the one filters and sort keys are about (SqlValues, Filters).  *)
(* The order of rows whose sort keys are equal is open, as it is in SQL.   *)
(***************************************************************************)
EXTENDS Filters, FiniteSets

CONSTANTS
  Streams,     \* of Nat
  EventMenu,   \* what may be committed: records [at, value, dead]
  Queries,     \* records [filter, order, dir, limit, include_dead]
  NoRow, NoQuery, NoCursor,
  MaxSeq,      \* bound: events committed, over all streams
  MaxListed    \* bound: a reader asks for no page with this many rows listed

\* What a row is made of, and what a cursor names.
Row == [last_seq : Nat, at : Nat, value : Types \X Nat, dead : BOOLEAN]
Keys == (Types \ {"absent"}) \X Nat
Cursor == [key : Keys, stream : Nat]

ASSUME ReadModelAssumption ==
  /\ Streams \subseteq Nat /\ IsFiniteSet(Streams) /\ MaxSeq \in Nat /\ MaxListed \in Nat
  /\ EventMenu \subseteq [at : Nat, value : Types \X Nat, dead : BOOLEAN]
  /\ \A q \in Queries :
       /\ q.filter \in AllFilters
       /\ q.order \in {"updated_at", "last_seq", "stream", "field"}
       /\ q.dir \in {"asc", "desc"} /\ q.limit \in Nat \ {0}
       /\ q.include_dead \in BOOLEAN
  /\ NoQuery \notin Queries /\ NoRow \notin Row /\ NoCursor \notin Cursor

VARIABLES
  events,     \* events[s]: what has been committed to s, in order
  delivered,  \* history variable: the seqs of s the sink has been handed
  row,        \* the table read_model
  query,      \* the query a reader pages through
  after,      \* Query::after of its next page
  listed,     \* the streams of the pages so far
  total,      \* the count that came with the last page
  finished,   \* the last page was not full
  cuts,       \* history variable: every cursor of the listing
  moved       \* history variable: rows written since the listing began

listing == <<query, after, listed, total, finished, cuts>>
vars == <<events, delivered, row, listing, moved>>

Rows == {s \in Streams : row[s] # NoRow}

-----------------------------------------------------------------------------
(* Queries.                                                                *)

\* The WHERE clause.
Matches(q, s) ==
  Selects(q.filter, row[s].value) /\ (q.include_dead \/ ~row[s].dead)

Matching(q) == {s \in Rows : Matches(q, s)}

\* Slip: deleted streams are counted.
CountAnyway(q) == Cardinality({s \in Rows : Selects(q.filter, row[s].value)})

\* What SELECT COUNT counts: the same clause, without the cursor.
Count(q) == Cardinality(Matching(q))

Key(q, s) ==
  CASE q.order = "updated_at" -> <<"num", row[s].at>>
    [] q.order = "last_seq" -> <<"num", row[s].last_seq>>
    [] q.order = "stream" -> <<"text", s>>
    [] q.order = "field" -> Extract(row[s].value)

Precedes(q, x, y) == IF q.dir = "asc" THEN SqlLess(x, y) ELSE SqlLess(y, x)

\* Slip: the cursor is compared by the sort key only.
BeyondKey(q, s) ==
  \/ after = NoCursor
  \/ /\ SqlNull \notin {after.key, Key(q, s)}
     /\ ~Precedes(q, Key(q, s), after.key)

\* The keyset predicate: true of a row with a later key, or with the same key
\* and a later stream.  A NULL on either side makes it unknown.
Beyond(q, s) ==
  \/ after = NoCursor
  \/ /\ SqlNull \notin {after.key, Key(q, s)}
     /\ \/ Precedes(q, after.key, Key(q, s))
        \/ /\ after.key = Key(q, s)
           /\ Precedes(q, <<"text", after.stream>>, <<"text", s>>)

\* The WHERE clause is a disjunction without brackets: build_filter puts them
\* around the parts of it, build_where around a filter that it adds to.
Unbracketed(q) == q.include_dead /\ q.filter.op = "or" /\ Len(q.filter.arg) > 1

\* The WHERE clause of a page: the AND that apply_keyset appends to that of the
\* query binds to the last part of a disjunction without brackets.
OnPage(q, s) ==
  IF Unbracketed(q)
  THEN LET n == Len(q.filter.arg)
           part(i) == Selects(q.filter.arg[i], row[s].value)
       IN  (\E i \in 1 .. n - 1 : part(i)) \/ (part(n) /\ Beyond(q, s))
  ELSE Matches(q, s) /\ Beyond(q, s)

\* The first rows of M by the sort key, as many as the limit allows.
Pages(q, M) ==
  LET n == IF Cardinality(M) < q.limit THEN Cardinality(M) ELSE q.limit IN
    {p \in [1 .. n -> M] :
       /\ \A i, j \in 1 .. n :
            i < j => p[i] # p[j] /\ ~Precedes(q, Key(q, p[j]), Key(q, p[i]))
       /\ \A i \in 1 .. n : \A s \in M :
            (\A j \in 1 .. n : p[j] # s) => ~Precedes(q, Key(q, s), Key(q, p[i]))}

-----------------------------------------------------------------------------
Committed == {c \in Streams \X (1 .. MaxSeq) : c[2] <= Len(events[c[1]])}

\* The Store appends an event to a stream.
StoreAppends(s, e) ==
  /\ Cardinality(Committed) < MaxSeq
  /\ events' = [events EXCEPT ![s] = Append(@, e)]
  /\ UNCHANGED <<delivered, row, listing, moved>>

Upserted(s, n) ==
  [last_seq |-> n, at |-> events[s][n].at,
   value |-> events[s][n].value, dead |-> events[s][n].dead]

\* Slip: any delivery overwrites the row.
Always(s, n) == TRUE

\* ON CONFLICT DO UPDATE ... WHERE excluded.last_seq > read_model.last_seq.
Newer(s, n) == row[s] = NoRow \/ n > row[s].last_seq

\* ProjectionSink::commit, live or by catch_up, once or again, in any order.
Commit(s, n) ==
  /\ n \in DOMAIN events[s]
  /\ delivered' = [delivered EXCEPT ![s] = @ \cup {n}]
  /\ IF Newer(s, n)
     THEN /\ row' = [row EXCEPT ![s] = Upserted(s, n)]
          /\ moved' = IF query = NoQuery THEN moved ELSE moved \cup {s}
     ELSE UNCHANGED <<row, moved>>
  /\ UNCHANGED <<events, listing>>

\* A reader starts to page through q.
Open(q) ==
  /\ query = NoQuery
  /\ query' = q
  /\ UNCHANGED <<events, delivered, row, after, listed, total, finished, cuts, moved>>

\* query_with_count: the page and the count, of one snapshot.
ReadPage ==
  /\ query # NoQuery /\ ~finished /\ Len(listed) < MaxListed
  /\ \E p \in Pages(query, {s \in Rows : OnPage(query, s)}) :
       /\ listed' = listed \o p
       /\ finished' = (Len(p) < query.limit)
       /\ after' = IF p = <<>> THEN after
                   ELSE [key |-> Key(query, p[Len(p)]), stream |-> p[Len(p)]]
  /\ cuts' = cuts \cup ({after'} \ {NoCursor})
  /\ total' = Count(query)
  /\ UNCHANGED <<events, delivered, row, query, moved>>

\* The reader has all it wants, or gives up.
Close ==
  /\ query # NoQuery
  /\ query' = NoQuery /\ after' = NoCursor
  /\ listed' = <<>> /\ total' = 0 /\ finished' = FALSE /\ cuts' = {} /\ moved' = {}
  /\ UNCHANGED <<events, delivered, row>>

Init ==
  /\ events = [s \in Streams |-> <<>>]
  /\ delivered = [s \in Streams |-> {}]
  /\ row = [s \in Streams |-> NoRow]
  /\ query = NoQuery /\ after = NoCursor
  /\ listed = <<>> /\ total = 0 /\ finished = FALSE /\ cuts = {} /\ moved = {}

Next ==
  \/ \E s \in Streams : \E e \in EventMenu : StoreAppends(s, e)
  \/ \E c \in Committed : Commit(c[1], c[2])
  \/ \E q \in Queries : Open(q)
  \/ ReadPage
  \/ Close

Spec == Init /\ [][Next]_vars

-----------------------------------------------------------------------------
(* What readers are promised.                                              *)

\* A row shows the newest event of its stream the sink was ever handed, with
\* that event's time and deletion, although deliveries are repeated and come
\* in any order (read_model.rs, "Idempotence under redelivery").
RowIsNewest ==
  \A s \in Streams : delivered[s] # {} =>
    LET n == CHOOSE n \in delivered[s] : \A k \in delivered[s] : k <= n IN
      row[s] = [last_seq |-> n, at |-> events[s][n].at,
                value |-> events[s][n].value, dead |-> events[s][n].dead]

Times(s) == Cardinality({i \in DOMAIN listed : listed[i] = s})

\* The rows nobody wrote since the listing began.
Owed == Matching(query) \ moved

SomeNullCut == \E c \in cuts : c.key = SqlNull
TiedWithCut(s) == \E c \in cuts : c.stream # s /\ c.key = Key(query, s)

\* Paging to the end skips no matching row that nobody wrote meanwhile, whatever
\* is written to others, and repeats none unless the clause is Unbracketed.  The
\* exceptions are a sort key that is NULL or that of another row a page ended
\* with (query.rs, Query::after: rows that are re-sorted between pages "never
\* cause a keyset-paginated query to skip or repeat rows").
ListedOnce ==
  finished => \A s \in Owed :
    Key(query, s) # SqlNull /\ ~SomeNullCut /\ ~TiedWithCut(s) =>
      /\ Times(s) >= 1
      /\ ~Unbracketed(query) => Times(s) = 1

\* If nothing was written since the listing began, the count that came with its
\* last page is the number of rows listed, with the same exceptions: it is less
\* only where rows are repeated.
CountAgrees ==
  finished /\ moved = {} /\ ~SomeNullCut
    /\ (\A s \in Matching(query) : Key(query, s) # SqlNull /\ ~TiedWithCut(s))
  => /\ total <= Len(listed)
     /\ ~Unbracketed(query) => total = Len(listed)

\* Of a row whose field is there and not null, a query selects what its filter
\* says, however it is nested (query.rs, Filter), unless a range in it compares
\* with a value of another type.
FilterSound ==
  \A q \in Queries : \A s \in Rows :
    LET v == row[s].value IN
      v[1] \in {"num", "text"} /\ Typed(q.filter, v)
        => (Selects(q.filter, v) <=> Means(q.filter, v))

-----------------------------------------------------------------------------
(* What the documentation also says, and the code contradicts.             *)

\* query.rs, After: the stream breaks ties, so no row is dropped or repeated
\* where keys are equal.
TiesListedOnce ==
  finished => \A s \in Owed :
    Key(query, s) # SqlNull /\ ~SomeNullCut => Times(s) = 1
=============================================================================
