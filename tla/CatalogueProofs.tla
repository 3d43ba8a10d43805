-------------------------- MODULE CatalogueProofs --------------------------
(***************************************************************************)
(* Why what is found in a stream is right: the rows are the events from the*)
(* boundary on, in their places and with their times, and everything a call*)
(* carries across an await is about coordinates, whose events do not       *)
(* change.                                                                 *)
(***************************************************************************)
EXTENDS Catalogue, NaturalSets

Answers == {"resolved", "live", "gone", "found"}
Awaits == {"idle", "head", "last", "page"} \cup Telling \cup Answers

Ghosts == [alone : BOOLEAN, alive : BOOLEAN, gone : BOOLEAN, from : Nat, want : SUBSET Nat]

\* Every variable stays in its type.
TypeOK ==
  /\ past \in Seq(EventMenu)
  /\ label \in [Labels -> Nat] /\ output \in [Labels -> Nat] /\ settled \in [Labels -> BOOLEAN]
  /\ pc \in [Callers -> Awaits]
  /\ on \in [Callers -> Labels \cup {NoLabel}]
  /\ at \in [Callers -> Nat]
  /\ got \in [Callers -> SUBSET Nat]
  /\ ghost \in [Callers -> Ghosts]

\* The rows are the events from the boundary on; that of the boundary is a
\* snapshot, with the time of the event that was there.
LogInv ==
  /\ base \in 0 .. Len(past)
  /\ backend = "mem" => base = 0
  /\ Rows = (IF base = 0 THEN 1 ELSE base) .. Len(past)
  /\ \A n \in Rows : n # base => events[n] = past[n]
  /\ base # 0 => events[base] = [kind |-> "snapshot", at |-> past[base].at, tag |-> FALSE]

\* A call about a label that has met no other is about what the table has.
LabelInv(c) ==
  /\ pc[c] \in Telling => on[c] \in Labels /\ (ghost[c].alone => label[on[c]] = at[c])
  /\ pc[c] \in {"state", "event", "tell"} => at[c] \in 1 .. Len(past)
  /\ pc[c] = "untell" => at[c] = 0
  /\ pc[c] = "tell" => got[c] = {at[c]} \/ at[c] < base
  /\ pc[c] = "resolved" => at[c] <= Len(past)

\* What the stream was at the moments a listing looked at it.
ListInv(c) ==
  /\ pc[c] \in {"head", "last"} /\ past # <<>> =>
       IF Deleted(past) THEN ghost[c].gone ELSE ghost[c].alive
  /\ pc[c] \in {"last", "live", "gone"} => at[c] \in 1 .. Len(past)
  /\ pc[c] = "last" => IF past[at[c]].kind = "tombstone" THEN ghost[c].gone ELSE ghost[c].alive
  /\ pc[c] = "live" => ghost[c].alive \/ (past[at[c]].kind = "tombstone" /\ at[c] <= base)
  /\ pc[c] = "gone" => ghost[c].gone

\* A scan has what matches below its cursor, all of it.
Hits(from, to) == {n \in Rows : from <= n /\ n < to /\ events[n].tag}

ScanInv(c) ==
  /\ pc[c] = "page" => /\ backend = "mem"
                       /\ at[c] = ghost[c].from \/ at[c] <= Len(past) + 1
                       /\ ghost[c].from <= at[c]
                       /\ got[c] = Hits(ghost[c].from, at[c])
  /\ pc[c] = "found" => got[c] = ghost[c].want
  /\ pc[c] = "idle" => got[c] = {}

CallInv(c) == LabelInv(c) /\ ListInv(c) /\ ScanInv(c)

\* The inductive invariant.
IInv ==
  /\ TypeOK /\ LogInv
  /\ \A l \in Labels : label[l] <= Len(past)
  /\ OutputAgrees
  /\ \A c \in Callers : CallInv(c)

-----------------------------------------------------------------------------
(* The operators.                                                          *)

LEMMA EventIs ==
  ASSUME NEW event \in EventMenu
  PROVE  /\ event = [kind |-> event.kind, at |-> event.at, tag |-> event.tag]
         /\ event.kind \in {"put", "tombstone"} /\ event.at \in Nat
BY CatalogueAssumption

LEMMA LastOfIs ==
  ASSUME NEW S \in SUBSET Nat, NEW n \in S, \A m \in S : m <= n
  PROVE  LastOf(S) = n
BY GreatestIs DEF LastOf

\* The rows are coordinates of events, and what is not a row is below the
\* boundary.
LEMMA RowsAre ==
  ASSUME TypeOK, LogInv
  PROVE  /\ Len(past) \in Nat /\ base \in Nat /\ base <= Len(past)
         /\ Rows \in SUBSET Nat
         /\ \A n \in Nat : n \in Rows <=> (1 <= n /\ base <= n /\ n <= Len(past))
         /\ \A n \in Rows : events[n].at = past[n].at
<1>1. Len(past) \in Nat
  BY DEF TypeOK
<1>2. base \in Nat /\ base <= Len(past)
  BY <1>1 DEF LogInv
<1>3. Rows \in SUBSET Nat /\ \A n \in Nat : n \in Rows <=> (1 <= n /\ base <= n /\ n <= Len(past))
  BY <1>1, <1>2 DEF LogInv
<1>4. ASSUME NEW n \in Rows PROVE events[n].at = past[n].at
  <2>1. CASE n = base
    BY <1>2, <1>3, <2>1 DEF LogInv
  <2>2. CASE n # base
    BY <2>2 DEF LogInv
  <2> QED
    BY <2>1, <2>2
<1> QED
  BY <1>1, <1>2, <1>3, <1>4

LEMMA HeadRowIs ==
  ASSUME TypeOK, LogInv
  PROVE  HeadRow = Len(past) /\ (Rows # {} <=> past # <<>>)
<1>1. CASE past = <<>>
  <2>1. Rows = {}
    <3>1. Len(past) = 0
      BY <1>1
    <3>2. ASSUME NEW n \in Rows PROVE FALSE
      BY <3>1, <3>2, RowsAre
    <3> QED
      BY <3>2
  <2> QED
    BY <1>1, <2>1 DEF HeadRow, LastOf
<1>2. CASE past # <<>>
  <2>1. Len(past) >= 1
    BY <1>2 DEF TypeOK
  <2>2. Len(past) \in Rows /\ Rows \in SUBSET Nat /\ \A n \in Rows : n <= Len(past)
    BY <2>1, RowsAre
  <2> QED
    BY <1>2, <2>2, LastOfIs DEF HeadRow
<1> QED
  BY <1>1, <1>2

\* A read of one event gives the event itself, or the snapshot above it.
LEMMA ReadOne ==
  ASSUME TypeOK, LogInv, NEW n \in 1 .. Len(past)
  PROVE  /\ n \in Rows => Read(n, 1) = {n}
         /\ n \notin Rows => n < base /\ Read(n, 1) = {base}
<1> DEFINE S == {m \in Rows : m >= n}
<1>1. S \in SUBSET Nat /\ Read(n, 1) = Few(S, 1) /\ n \in Nat
  BY RowsAre DEF Read, FirstFew, Few
<1>2. CASE n \in Rows
  <2>1. n \in S
    BY <1>1, <1>2
  <2>2. \A m \in S : n <= m
    BY <1>1
  <2> HIDE DEF S
  <2> QED
    BY <1>1, <1>2, <2>1, <2>2, FewOne
<1>3. CASE n \notin Rows
  <2>1. n < base /\ base \in Nat /\ base \in Rows
    BY <1>1, <1>3, RowsAre
  <2>2. base \in S
    BY <1>1, <2>1
  <2>3. \A m \in S : base <= m
    BY RowsAre
  <2> HIDE DEF S
  <2> QED
    BY <1>1, <1>3, <2>1, <2>2, <2>3, FewOne
<1> QED
  BY <1>2, <1>3

LEMMA ReadType ==
  ASSUME TypeOK, LogInv, NEW from \in Nat, NEW k \in Nat
  PROVE  Read(from, k) \in SUBSET Rows /\ Read(from, k) \in SUBSET Nat /\ ByMeta(from) \in SUBSET Nat
BY RowsAre DEF Read, FirstFew, ByMeta

\* What a listing under way notes of the stream.
LEMMA SeenByIs ==
  ASSUME NEW g \in Ghosts, NEW log
  PROVE  LET h == SeenBy(g, log) IN
           /\ h \in Ghosts
           /\ h.alone = g.alone /\ h.from = g.from /\ h.want = g.want
           /\ g.alive => h.alive
           /\ g.gone => h.gone
           /\ log # <<>> => IF Deleted(log) THEN h.gone ELSE h.alive
<1> DEFINE a == g.alive \/ (log # <<>> /\ ~Deleted(log))
           b == g.gone \/ Deleted(log)
           h == [g EXCEPT !.alive = a, !.gone = b]
<1>1. a \in BOOLEAN /\ b \in BOOLEAN
  OBVIOUS
<1>2. /\ h \in Ghosts
      /\ h.alone = g.alone /\ h.from = g.from /\ h.want = g.want /\ h.alive = a /\ h.gone = b
  <2> HIDE DEF a, b
  <2> QED
    BY <1>1 DEF Ghosts
<1>3. SeenBy(g, log) = h
  BY DEF SeenBy
<1> HIDE DEF h
<1> QED
  BY <1>2, <1>3

-----------------------------------------------------------------------------
(* The initial state, and the steps of the log.                            *)

LEMMA InitInv ==
  ASSUME Init
  PROVE  IInv
<1>1. TypeOK
  BY DEF Init, TypeOK, Awaits, Ghosts, NoGhost
<1>2. LogInv
  BY DEF Init, LogInv, Rows
<1>3. \A l \in Labels : label[l] <= Len(past)
  BY DEF Init
<1>4. OutputAgrees
  BY DEF Init, OutputAgrees
<1>5. \A c \in Callers : CallInv(c)
  BY DEF Init, CallInv, LabelInv, ListInv, ScanInv, Telling
<1> QED
  BY <1>1, <1>2, <1>3, <1>4, <1>5 DEF IInv

LEMMA CommitLog ==
  ASSUME IInv, NEW event \in EventMenu, Commit(event)
  PROVE  /\ LogInv'
         /\ Len(past') = Len(past) + 1
         /\ \A n \in 1 .. Len(past) : past'[n] = past[n]
         /\ Rows' = Rows \cup {Len(past) + 1}
         /\ \A n \in Rows : events'[n] = events[n]
<1>1. past \in Seq(EventMenu) /\ past' = Append(past, event) /\ base' = base /\ backend' = backend
  BY DEF Commit, IInv, TypeOK
<1>2. Len(past') = Len(past) + 1 /\ \A n \in 1 .. Len(past) : past'[n] = past[n]
  BY <1>1
<1>3. HeadRow = Len(past) /\ Len(past) \in Nat /\ Len(past) + 1 \notin Rows
  BY RowsAre, HeadRowIs DEF IInv
<1>4. events' = [n \in Rows \cup {Len(past) + 1} |-> IF n = Len(past) + 1 THEN event ELSE events[n]]
  BY <1>3 DEF Commit
<1>5. Rows' = Rows \cup {Len(past) + 1}
  BY <1>4 DEF Rows
<1>6. \A n \in Rows : events'[n] = events[n]
  BY <1>3, <1>4
<1>7. events'[Len(past) + 1] = event /\ past'[Len(past) + 1] = event
  BY <1>1, <1>4
<1>8. LogInv'
  <2>1. LogInv /\ base \in Nat /\ base <= Len(past)
    BY RowsAre DEF IInv
  <2>2. base' \in 0 .. Len(past')
    BY <1>1, <1>2, <1>3, <2>1
  <2>3. (backend = "mem" => base = 0)'
    BY <1>1, <2>1 DEF LogInv
  <2>4. (Rows = (IF base = 0 THEN 1 ELSE base) .. Len(past))'
    <3>1. Rows = (IF base = 0 THEN 1 ELSE base) .. Len(past)
      BY <2>1 DEF LogInv
    <3> QED
      BY <1>1, <1>2, <1>3, <1>5, <2>1, <3>1
  <2>5. (\A n \in Rows : n # base => events[n] = past[n])'
    <3>1. ASSUME NEW n \in Rows, n # base PROVE events'[n] = past'[n]
      <4>1. events[n] = past[n] /\ n \in 1 .. Len(past)
        BY <2>1, <3>1, RowsAre DEF LogInv, IInv
      <4> QED
        BY <1>2, <1>6, <4>1
    <3> QED
      BY <1>1, <1>5, <1>7, <3>1
  <2>6. (base # 0 => events[base] = [kind |-> "snapshot", at |-> past[base].at, tag |-> FALSE])'
    <3>1. ASSUME base # 0 PROVE base \in Rows /\ base \in 1 .. Len(past)
      BY <2>1, <3>1, RowsAre DEF IInv
    <3> QED
      BY <1>1, <1>2, <1>6, <2>1, <3>1 DEF LogInv
  <2> QED
    BY <2>2, <2>3, <2>4, <2>5, <2>6 DEF LogInv
<1> QED
  BY <1>2, <1>5, <1>6, <1>8

LEMMA CompactLog ==
  ASSUME IInv, NEW k \in Rows, Compact(k)
  PROVE  LogInv' /\ base <= base' /\ base' \in Nat
<1>1. k \in Nat /\ base <= k /\ 1 <= k /\ k <= Len(past) /\ Len(past) \in Nat /\ base \in Nat
  BY RowsAre DEF IInv
<1>2. past' = past /\ base' = k /\ backend' = backend /\ backend = "sqlite"
  BY DEF Compact
<1>3. events' = [n \in RowsKept(k) |-> IF n = k THEN Snapshot(k) ELSE events[n]]
  BY DEF Compact
<1>4. Rows' = RowsKept(k)
  BY <1>3 DEF Rows
<1>5. RowsKept(k) = k .. Len(past)
  <2>1. \A n \in Nat : n \in Rows <=> (1 <= n /\ base <= n /\ n <= Len(past))
    BY RowsAre DEF IInv
  <2>2. Rows \in SUBSET Nat
    BY RowsAre DEF IInv
  <2>3. ASSUME NEW n \in RowsKept(k) PROVE n \in k .. Len(past)
    <3>1. n \in Rows /\ n >= k /\ n \in Nat
      BY <2>2 DEF RowsKept
    <3> QED
      BY <1>1, <2>1, <3>1
  <2>4. ASSUME NEW n \in k .. Len(past) PROVE n \in RowsKept(k)
    <3>1. n \in Nat /\ n >= k /\ n <= Len(past)
      BY <1>1
    <3> QED
      BY <1>1, <2>1, <3>1 DEF RowsKept
  <2> QED
    BY <2>3, <2>4
<1>6. events'[k] = [kind |-> "snapshot", at |-> past[k].at, tag |-> FALSE]
  <2>1. events[k].at = past[k].at
    BY RowsAre DEF IInv
  <2>2. k \in RowsKept(k)
    BY <1>1, <1>5
  <2> QED
    BY <1>3, <2>1, <2>2 DEF Snapshot
<1>7. ASSUME NEW n \in RowsKept(k), n # k PROVE events'[n] = past[n]
  <2>1. n \in Rows /\ n # base
    BY <1>1, <1>5, <1>7 DEF RowsKept
  <2> QED
    BY <1>3, <1>7, <2>1 DEF IInv, LogInv
<1> QED
  BY <1>1, <1>2, <1>4, <1>5, <1>6, <1>7 DEF LogInv

\* A commit disturbs no call: coordinates stay, and a scan is below its cursor.
LEMMA CommitInv ==
  ASSUME IInv, NEW event \in EventMenu, Commit(event)
  PROVE  IInv'
<1>1. /\ UNCHANGED <<backend, base, label, output, settled, pc, on, at, got>>
      /\ Len(past) \in Nat /\ base \in Nat
  BY RowsAre DEF Commit, IInv, labelVars
<1>10. /\ LogInv'
       /\ Len(past') = Len(past) + 1
       /\ \A n \in 1 .. Len(past) : past'[n] = past[n]
       /\ Rows' = Rows \cup {Len(past) + 1}
       /\ \A n \in Rows : events'[n] = events[n]
  BY CommitLog
<1>2. TypeOK
  BY DEF IInv
<1>3. past' \in Seq(EventMenu) /\ past' # <<>>
  <2>1. past \in Seq(EventMenu) /\ past' = Append(past, event)
    BY <1>2 DEF Commit, TypeOK
  <2> QED
    BY <2>1
<1>4. ASSUME NEW c \in Callers
      PROVE  /\ ghost'[c] \in Ghosts
             /\ ghost'[c].alone = ghost[c].alone /\ ghost'[c].from = ghost[c].from
             /\ ghost'[c].want = ghost[c].want
             /\ ghost[c].alive => ghost'[c].alive
             /\ ghost[c].gone => ghost'[c].gone
             /\ pc[c] \in {"head", "last"} => IF Deleted(past') THEN ghost'[c].gone ELSE ghost'[c].alive
  <2>1. ghost[c] \in Ghosts
    BY <1>2 DEF TypeOK
  <2>2. ghost'[c] = IF pc[c] \in {"head", "last"} THEN SeenBy(ghost[c], past') ELSE ghost[c]
    BY DEF Commit
  <2>3. CASE pc[c] \in {"head", "last"}
    BY <1>3, <2>1, <2>2, <2>3, SeenByIs
  <2>4. CASE pc[c] \notin {"head", "last"}
    BY <2>1, <2>2, <2>4
  <2> QED
    BY <2>3, <2>4
<1>5. TypeOK'
  <2>1. ghost' = [c \in Callers |-> ghost'[c]]
    BY DEF Commit
  <2>2. ghost' \in [Callers -> Ghosts]
    BY <1>4, <2>1
  <2> QED
    BY <1>1, <1>2, <1>3, <2>2 DEF TypeOK
<1>6. LogInv'
  BY <1>10
<1>7. \A l \in Labels : label'[l] <= Len(past')
  BY <1>1, <1>2, <1>10 DEF IInv, TypeOK
<1>8. OutputAgrees'
  BY <1>1 DEF IInv, OutputAgrees
<1>9. ASSUME NEW c \in Callers PROVE CallInv(c)'
  <2>1. CallInv(c) /\ at[c] \in Nat
    BY <1>2 DEF IInv, TypeOK
  <2>2. LabelInv(c)'
    BY <1>1, <1>4, <1>10, <2>1 DEF CallInv, LabelInv
  <2>3. ListInv(c)'
    <3>1. (pc[c] \in {"last", "live", "gone"} => at[c] \in 1 .. Len(past) /\ past'[at[c]] = past[at[c]])
      BY <1>10, <2>1 DEF CallInv, ListInv
    <3> QED
      BY <1>1, <1>3, <1>4, <1>10, <2>1, <3>1 DEF CallInv, ListInv
  <2>4. ScanInv(c)'
    <3>1. ASSUME pc[c] = "page" PROVE (Hits(ghost[c].from, at[c]))' = Hits(ghost[c].from, at[c])
      <4>1. ghost[c].from \in Nat /\ (at[c] = ghost[c].from \/ at[c] <= Len(past) + 1)
        BY <1>2, <2>1, <3>1 DEF CallInv, ScanInv, TypeOK, Ghosts
      <4>2. ~ (ghost[c].from <= Len(past) + 1 /\ Len(past) + 1 < at[c])
        BY <1>1, <2>1, <4>1
      <4>3. \A n \in Rows : events'[n] = events[n]
        BY <1>10
      <4>4. Rows' = Rows \cup {Len(past) + 1} /\ ghost'[c].from = ghost[c].from /\ at'[c] = at[c]
        BY <1>1, <1>4, <1>10
      <4> QED
        BY <4>2, <4>3, <4>4 DEF Hits
    <3>2. at[c] <= Len(past) + 1 => at[c] <= Len(past') + 1
      BY <1>1, <1>10, <2>1
    <3> QED
      BY <1>1, <1>4, <2>1, <3>1, <3>2 DEF CallInv, ScanInv
  <2> QED
    BY <2>2, <2>3, <2>4 DEF CallInv
<1> QED
  BY <1>5, <1>6, <1>7, <1>8, <1>9 DEF IInv

\* Nor does a compaction, which moves the boundary up; there are no scans by
\* page beside it.
LEMMA CompactInv ==
  ASSUME IInv, NEW k \in Rows, Compact(k)
  PROVE  IInv'
<1>1. /\ UNCHANGED <<backend, past, label, output, settled, pc, on, at, got, ghost>>
      /\ backend = "sqlite"
  BY DEF Compact, labelVars, callVars
<1>2. LogInv' /\ base <= base' /\ base' \in Nat /\ base \in Nat
  BY CompactLog, RowsAre DEF IInv
<1>3. TypeOK'
  BY <1>1 DEF IInv, TypeOK
<1>4. OutputAgrees' /\ \A l \in Labels : label'[l] <= Len(past')
  BY <1>1 DEF IInv, OutputAgrees
<1>5. ASSUME NEW c \in Callers PROVE CallInv(c)'
  <2>1. CallInv(c) /\ at[c] \in Nat
    BY DEF IInv, TypeOK
  <2>2. LabelInv(c)'
    BY <1>1, <1>2, <2>1 DEF CallInv, LabelInv
  <2>3. ListInv(c)'
    BY <1>1, <1>2, <2>1 DEF CallInv, ListInv
  <2>4. ScanInv(c)'
    BY <1>1, <2>1 DEF CallInv, ScanInv
  <2> QED
    BY <2>2, <2>3, <2>4 DEF CallInv
<1> QED
  BY <1>2, <1>3, <1>4, <1>5 DEF IInv

-----------------------------------------------------------------------------
(* The steps of a call.                                                    *)

\* What a call's invariant is about, when the stream stays as it is: a call
\* keeps its invariant beside the others as long as a change of its label is
\* noted.
LEMMA Beside ==
  ASSUME IInv, NEW c \in Callers, UNCHANGED <<backend, past, events, base>>,
         pc'[c] = pc[c], on'[c] = on[c], at'[c] = at[c], got'[c] = got[c],
         ghost'[c].alive = ghost[c].alive, ghost'[c].gone = ghost[c].gone,
         ghost'[c].from = ghost[c].from, ghost'[c].want = ghost[c].want,
         ghost'[c].alone /\ pc[c] \in Telling =>
           ghost[c].alone /\ label'[on[c]] = label[on[c]]
  PROVE  CallInv(c)'
<1>1. CallInv(c)
  BY DEF IInv
<1>2. LabelInv(c)'
  BY <1>1 DEF CallInv, LabelInv
<1>3. ListInv(c)'
  BY <1>1 DEF CallInv, ListInv
<1>4. ScanInv(c)'
  <2>1. (Hits(ghost[c].from, at[c]))' = Hits(ghost[c].from, at[c])
    BY DEF Hits, Rows
  <2> QED
    BY <1>1, <2>1 DEF CallInv, ScanInv
<1> QED
  BY <1>2, <1>3, <1>4 DEF CallInv

\* A call that leaves the stream and the labels alone keeps the invariant if it
\* keeps its own.
LEMMA OwnStep ==
  ASSUME IInv, TypeOK', NEW c \in Callers,
         UNCHANGED <<backend, past, events, base, label>>, OutputAgrees',
         \A d \in Callers \ {c} :
           /\ pc'[d] = pc[d] /\ on'[d] = on[d] /\ at'[d] = at[d] /\ got'[d] = got[d]
           /\ ghost'[d] = ghost[d],
         CallInv(c)'
  PROVE  IInv'
<1>1. LogInv'
  BY DEF IInv, LogInv, Rows
<1>2. \A l \in Labels : label'[l] <= Len(past')
  BY DEF IInv
<1>3. ASSUME NEW d \in Callers \ {c} PROVE CallInv(d)'
  BY Beside
<1> QED
  BY <1>1, <1>2, <1>3 DEF IInv

\* A changed label, and the calls about it, which are no longer alone.
LEMMA ChangedInv ==
  ASSUME IInv, NEW c \in Callers, NEW l \in Labels, NEW n \in Nat, n <= Len(past),
         NEW step \in {"state", "untell"}, IF step = "state" THEN n # 0 ELSE n = 0,
         pc[c] = "idle", Goto(c, step), Changed(c, l, n)
  PROVE  IInv'
<1>1. /\ TypeOK
      /\ UNCHANGED <<backend, past, events, base, output, got>>
      /\ label' = [label EXCEPT ![l] = n]
      /\ settled' = [settled EXCEPT ![l] = FALSE]
      /\ on' = [on EXCEPT ![c] = l] /\ at' = [at EXCEPT ![c] = n] /\ pc' = [pc EXCEPT ![c] = step]
  BY DEF IInv, Changed, logVars, Goto
<1>2. ghost' = [d \in Callers |->
                  IF d \in Others(c, l) \/ (d = c /\ Others(c, l) # {})
                  THEN [ghost[d] EXCEPT !.alone = FALSE] ELSE ghost[d]]
  BY DEF Changed
<1>3. ASSUME NEW d \in Callers
      PROVE  /\ ghost'[d] \in Ghosts
             /\ ghost'[d].alive = ghost[d].alive /\ ghost'[d].gone = ghost[d].gone
             /\ ghost'[d].from = ghost[d].from /\ ghost'[d].want = ghost[d].want
             /\ ghost'[d].alone => ghost[d].alone /\ d \notin Others(c, l)
  <2>1. ghost[d] \in Ghosts
    BY <1>1 DEF TypeOK
  <2>2. CASE d \in Others(c, l) \/ (d = c /\ Others(c, l) # {})
    BY <1>2, <2>1, <2>2 DEF Ghosts
  <2>3. CASE ~ (d \in Others(c, l) \/ (d = c /\ Others(c, l) # {}))
    BY <1>2, <2>1, <2>3
  <2> QED
    BY <2>2, <2>3
<1>4. TypeOK'
  <2>1. ghost' = [d \in Callers |-> ghost'[d]]
    BY <1>2
  <2>2. ghost' \in [Callers -> Ghosts]
    BY <1>3, <2>1
  <2>3. settled' \in [Labels -> BOOLEAN]
    BY <1>1, Zenon DEF TypeOK
  <2>4. pc' \in [Callers -> Awaits]
    BY <1>1 DEF TypeOK, Awaits, Telling
  <2> QED
    BY <1>1, <2>2, <2>3, <2>4 DEF TypeOK
<1>5. LogInv'
  BY <1>1 DEF IInv, LogInv, Rows
<1>6. \A k \in Labels : label'[k] <= Len(past')
  BY <1>1 DEF IInv, TypeOK
<1>7. OutputAgrees'
  BY <1>1 DEF IInv, OutputAgrees, TypeOK
<1>8. ASSUME NEW d \in Callers \ {c} PROVE CallInv(d)'
  <2>1. ASSUME ghost'[d].alone, pc[d] \in Telling
        PROVE  ghost[d].alone /\ label'[on[d]] = label[on[d]]
    <3>1. on[d] # l /\ ghost[d].alone
      BY <1>3, <2>1 DEF Others
    <3> QED
      BY <1>1, <3>1 DEF IInv, CallInv, LabelInv, TypeOK
  <2> QED
    BY <1>1, <1>3, <2>1, Beside DEF TypeOK
<1>9. CallInv(c)'
  <2>1. pc'[c] = step /\ on'[c] = l /\ at'[c] = n /\ label'[l] = n /\ past' = past
    BY <1>1 DEF TypeOK
  <2>2. LabelInv(c)'
    <3>1. Len(past) \in Nat
      BY <1>1 DEF TypeOK
    <3> QED
      BY <2>1, <3>1 DEF LabelInv, Telling
  <2>3. ListInv(c)' /\ ScanInv(c)'
    BY <2>1 DEF ListInv, ScanInv
  <2> QED
    BY <2>2, <2>3 DEF CallInv
<1> QED
  BY <1>4, <1>5, <1>6, <1>7, <1>8, <1>9 DEF IInv

LEMMA LabelSetInv ==
  ASSUME IInv, NEW c \in Callers, NEW l \in Labels, NEW n \in 1 .. MaxEvents, LabelSet(c, l, n)
  PROVE  IInv'
<1>1. n \in Rows /\ pc[c] = "idle" /\ Goto(c, "state") /\ Changed(c, l, n)
  BY DEF LabelSet, Exists, Asks
<1>2. n \in Nat /\ n <= Len(past) /\ n # 0
  BY <1>1, RowsAre DEF IInv
<1> QED
  BY <1>1, <1>2, ChangedInv

LEMMA LabelDeleteInv ==
  ASSUME IInv, NEW c \in Callers, NEW l \in Labels, LabelDelete(c, l)
  PROVE  IInv'
<1>1. pc[c] = "idle" /\ Goto(c, "untell") /\ Changed(c, l, 0)
  BY DEF LabelDelete, Asks
<1>2. 0 \in Nat /\ 0 <= Len(past)
  BY RowsAre DEF IInv
<1> QED
  BY <1>1, <1>2, ChangedInv

LEMMA LabelRejectedInv ==
  ASSUME IInv, NEW c \in Callers, NEW n \in 1 .. MaxEvents, LabelRejected(c, n)
  PROVE  IInv'
<1>1. UNCHANGED <<backend, past, events, base, label, output, settled, pc, on, at, got, ghost>>
  BY DEF LabelRejected, labelVars, callVars
<1>2. TypeOK' /\ OutputAgrees' /\ CallInv(c)'
  BY <1>1, Beside DEF IInv, TypeOK, OutputAgrees
<1> QED
  BY <1>1, <1>2, OwnStep

\* A call that goes on, with what it has been given.
LEMMA LabelStateInv ==
  ASSUME IInv, NEW c \in Callers, LabelState(c)
  PROVE  IInv'
<1>1. /\ UNCHANGED <<backend, past, events, base, label, output, settled, on, at, got, ghost>>
      /\ pc[c] = "state" /\ pc' = [pc EXCEPT ![c] = "event"]
  BY DEF LabelState, logVars, labelVars, Goto
<1>2. TypeOK' /\ OutputAgrees'
  BY <1>1 DEF IInv, TypeOK, OutputAgrees, Awaits, Telling
<1>3. pc'[c] = "event" /\ CallInv(c)
  BY <1>1 DEF IInv, TypeOK
<1>4. CallInv(c)'
  <2>1. LabelInv(c)'
    BY <1>1, <1>3 DEF CallInv, LabelInv, Telling
  <2>2. ListInv(c)' /\ ScanInv(c)'
    BY <1>3 DEF ListInv, ScanInv
  <2> QED
    BY <2>1, <2>2 DEF CallInv
<1>5. \A d \in Callers \ {c} : pc'[d] = pc[d]
  BY <1>1 DEF IInv, TypeOK
<1> QED
  BY <1>1, <1>2, <1>4, <1>5, OwnStep

LEMMA LabelEventInv ==
  ASSUME IInv, NEW c \in Callers, LabelEvent(c)
  PROVE  IInv'
<1>1. /\ UNCHANGED <<backend, past, events, base, label, output, settled, on, at, ghost>>
      /\ pc[c] = "event" /\ pc' = [pc EXCEPT ![c] = "tell"]
      /\ got' = [got EXCEPT ![c] = Read(at[c], 1)]
  BY DEF LabelEvent, logVars, labelVars, Goto
<1>2. CallInv(c) /\ TypeOK /\ LogInv /\ OutputAgrees /\ at[c] \in 1 .. Len(past)
  BY <1>1 DEF IInv, CallInv, LabelInv
<1>3. Read(at[c], 1) = {at[c]} \/ at[c] < base
  BY <1>2, ReadOne
<1>4. Read(at[c], 1) \in SUBSET Nat
  BY <1>2, ReadType
<1>5. TypeOK' /\ OutputAgrees'
  BY <1>1, <1>2, <1>4 DEF TypeOK, OutputAgrees, Awaits, Telling
<1>6. pc'[c] = "tell" /\ got'[c] = Read(at[c], 1)
  BY <1>1, <1>2 DEF TypeOK
<1>7. CallInv(c)'
  <2>1. LabelInv(c)'
    BY <1>1, <1>2, <1>3, <1>6 DEF CallInv, LabelInv, Telling
  <2>2. ListInv(c)' /\ ScanInv(c)'
    BY <1>6 DEF ListInv, ScanInv
  <2> QED
    BY <2>1, <2>2 DEF CallInv
<1>8. \A d \in Callers \ {c} : pc'[d] = pc[d] /\ got'[d] = got[d]
  BY <1>1, <1>2 DEF TypeOK
<1> QED
  BY <1>1, <1>5, <1>7, <1>8, OwnStep

LEMMA NoGhostType ==
  NoGhost \in Ghosts
BY DEF NoGhost, Ghosts

\* The end of a call: it carries nothing.
LEMMA ReturnInv ==
  ASSUME IInv, NEW c \in Callers, Return(c), Forget(c)
  PROVE  /\ pc' \in [Callers -> Awaits] /\ on' \in [Callers -> Labels \cup {NoLabel}]
         /\ at' \in [Callers -> Nat] /\ got' \in [Callers -> SUBSET Nat]
         /\ ghost' \in [Callers -> Ghosts]
         /\ CallInv(c)'
         /\ \A d \in Callers \ {c} :
              /\ pc'[d] = pc[d] /\ on'[d] = on[d] /\ at'[d] = at[d] /\ got'[d] = got[d]
              /\ ghost'[d] = ghost[d]
<1>1. /\ pc' = [pc EXCEPT ![c] = "idle"] /\ on' = [on EXCEPT ![c] = NoLabel]
      /\ at' = [at EXCEPT ![c] = 0] /\ got' = [got EXCEPT ![c] = {}]
      /\ ghost' = [ghost EXCEPT ![c] = NoGhost]
      /\ TypeOK
  BY DEF Return, Forget, Goto, IInv
<1>2. NoGhost \in Ghosts
  BY NoGhostType
<1>3. /\ pc' \in [Callers -> Awaits] /\ on' \in [Callers -> Labels \cup {NoLabel}]
      /\ at' \in [Callers -> Nat] /\ got' \in [Callers -> SUBSET Nat]
      /\ ghost' \in [Callers -> Ghosts]
  <2> HIDE DEF NoGhost, Ghosts
  <2> QED
    BY <1>1, <1>2 DEF TypeOK, Awaits
<1>4. pc'[c] = "idle" /\ got'[c] = {}
  BY <1>1 DEF TypeOK
<1>5. CallInv(c)'
  BY <1>4 DEF CallInv, LabelInv, ListInv, ScanInv, Telling
<1>6. \A d \in Callers \ {c} :
        /\ pc'[d] = pc[d] /\ on'[d] = on[d] /\ at'[d] = at[d] /\ got'[d] = got[d]
        /\ ghost'[d] = ghost[d]
  BY <1>1 DEF TypeOK
<1> QED
  BY <1>3, <1>5, <1>6

LEMMA TellInv ==
  ASSUME IInv, NEW c \in Callers, Tell(c)
  PROVE  IInv'
<1>1. /\ UNCHANGED <<backend, past, events, base, label>>
      /\ pc[c] \in {"tell", "untell"} /\ Return(c) /\ Forget(c)
      /\ output' = [output EXCEPT ![on[c]] = IF pc[c] = "tell" THEN at[c] ELSE 0]
      /\ settled' = [settled EXCEPT ![on[c]] = ghost[c].alone]
  BY DEF Tell, Told, logVars
<1>2. TypeOK /\ LabelInv(c) /\ OutputAgrees
  BY DEF IInv, CallInv
<1>3. on[c] \in Labels /\ ghost[c].alone \in BOOLEAN /\ at[c] \in Nat
  <2>1. on[c] \in Labels
    BY <1>1, <1>2 DEF LabelInv, Telling
  <2>2. ghost[c].alone \in BOOLEAN
    BY <1>2 DEF TypeOK, Ghosts
  <2> QED
    BY <1>2, <2>1, <2>2 DEF TypeOK
<1>4. output' \in [Labels -> Nat] /\ output'[on[c]] = IF pc[c] = "tell" THEN at[c] ELSE 0
  BY <1>1, <1>2, <1>3 DEF TypeOK
<1>5. settled' \in [Labels -> BOOLEAN] /\ settled'[on[c]] = ghost[c].alone
  BY <1>1, <1>2, <1>3, Zenon DEF TypeOK
<1>6. TypeOK'
  BY <1>1, <1>2, <1>4, <1>5, ReturnInv DEF TypeOK
<1>7. OutputAgrees'
  <2>1. ASSUME NEW l \in Labels, l # on[c] PROVE settled'[l] = settled[l] /\ output'[l] = output[l]
    BY <1>1, <1>2, <2>1 DEF TypeOK
  <2>2. ghost[c].alone => label[on[c]] = output'[on[c]]
    BY <1>1, <1>2, <1>4 DEF LabelInv, Telling
  <2> QED
    BY <1>1, <1>2, <1>5, <2>1, <2>2 DEF OutputAgrees
<1> QED
  BY <1>1, <1>6, <1>7, ReturnInv, OwnStep

LEMMA GiveUpInv ==
  ASSUME IInv, NEW c \in Callers, GiveUp(c)
  PROVE  IInv'
<1>1. /\ UNCHANGED <<backend, past, events, base, label, output, settled>>
      /\ Return(c) /\ Forget(c)
  BY DEF GiveUp, logVars, labelVars
<1>2. TypeOK' /\ OutputAgrees'
  BY <1>1, ReturnInv DEF IInv, TypeOK, OutputAgrees
<1> QED
  BY <1>1, <1>2, ReturnInv, OwnStep

LEMMA ResolveInv ==
  ASSUME IInv, NEW c \in Callers, NEW l \in Labels, Resolve(c, l)
  PROVE  IInv'
<1>1. /\ UNCHANGED <<backend, past, events, base, label, output, settled, on, got, ghost>>
      /\ pc' = [pc EXCEPT ![c] = "resolved"] /\ at' = [at EXCEPT ![c] = label[l]]
  BY DEF Resolve, logVars, labelVars, Goto
<1>2. TypeOK' /\ OutputAgrees'
  BY <1>1 DEF IInv, TypeOK, OutputAgrees, Awaits, Answers
<1>3. pc'[c] = "resolved" /\ at'[c] = label[l] /\ label[l] <= Len(past)
  BY <1>1 DEF IInv, TypeOK
<1>4. CallInv(c)'
  BY <1>1, <1>3 DEF CallInv, LabelInv, ListInv, ScanInv, Telling
<1>5. \A d \in Callers \ {c} : pc'[d] = pc[d] /\ at'[d] = at[d]
  BY <1>1 DEF IInv, TypeOK
<1> QED
  BY <1>1, <1>2, <1>4, <1>5, OwnStep

\* A listing: the head it is given, and the event there, are of a stream that
\* was so since the listing began.
LEMMA ListStreamsInv ==
  ASSUME IInv, NEW c \in Callers, ListStreams(c)
  PROVE  IInv'
<1>1. /\ UNCHANGED <<backend, past, events, base, label, output, settled, on, at, got>>
      /\ pc' = [pc EXCEPT ![c] = "head"]
      /\ ghost' = [ghost EXCEPT ![c] = SeenBy(ghost[c], past)]
  BY DEF ListStreams, logVars, labelVars, Goto
<1>2. TypeOK /\ OutputAgrees /\ ghost[c] \in Ghosts
  BY DEF IInv, TypeOK
<1>3. /\ SeenBy(ghost[c], past) \in Ghosts
      /\ past # <<>> => IF Deleted(past) THEN SeenBy(ghost[c], past).gone
                                         ELSE SeenBy(ghost[c], past).alive
  BY <1>2, SeenByIs
<1>4. TypeOK' /\ OutputAgrees'
  BY <1>1, <1>2, <1>3 DEF TypeOK, OutputAgrees, Awaits
<1>5. pc'[c] = "head" /\ ghost'[c] = SeenBy(ghost[c], past)
  BY <1>1, <1>2 DEF TypeOK
<1>6. CallInv(c)'
  <2>1. LabelInv(c)' /\ ScanInv(c)'
    BY <1>5 DEF LabelInv, ScanInv, Telling
  <2>2. ListInv(c)'
    BY <1>1, <1>3, <1>5 DEF ListInv
  <2> QED
    BY <2>1, <2>2 DEF CallInv
<1>7. \A d \in Callers \ {c} : pc'[d] = pc[d] /\ ghost'[d] = ghost[d]
  BY <1>1, <1>2 DEF TypeOK
<1> QED
  BY <1>1, <1>4, <1>6, <1>7, OwnStep

LEMMA ListHeadInv ==
  ASSUME IInv, NEW c \in Callers, ListHead(c)
  PROVE  IInv'
<1>1. /\ UNCHANGED <<backend, past, events, base, label, output, settled, on, got, ghost>>
      /\ pc[c] = "head" /\ pc' = [pc EXCEPT ![c] = "last"] /\ at' = [at EXCEPT ![c] = HeadRow]
      /\ Rows # {}
  BY DEF ListHead, logVars, labelVars, Goto
<1>2. TypeOK /\ OutputAgrees /\ CallInv(c)
  BY DEF IInv
<1>3. HeadRow = Len(past) /\ past # <<>> /\ Len(past) \in 1 .. Len(past)
  <2>1. HeadRow = Len(past) /\ past # <<>>
    BY <1>1, HeadRowIs DEF IInv
  <2>2. Len(past) \in Nat /\ Len(past) # 0
    BY <1>2, <2>1 DEF TypeOK
  <2> QED
    BY <2>1, <2>2
<1>4. TypeOK' /\ OutputAgrees'
  BY <1>1, <1>2, <1>3 DEF TypeOK, OutputAgrees, Awaits
<1>5. pc'[c] = "last" /\ at'[c] = Len(past)
  BY <1>1, <1>2, <1>3 DEF TypeOK
<1>6. CallInv(c)'
  <2>1. LabelInv(c)' /\ ScanInv(c)'
    BY <1>5 DEF LabelInv, ScanInv, Telling
  <2>2. ListInv(c)'
    BY <1>1, <1>2, <1>3, <1>5 DEF ListInv, CallInv, Deleted
  <2> QED
    BY <2>1, <2>2 DEF CallInv
<1>7. \A d \in Callers \ {c} : pc'[d] = pc[d] /\ at'[d] = at[d]
  BY <1>1, <1>2 DEF TypeOK
<1> QED
  BY <1>1, <1>4, <1>6, <1>7, OwnStep

LEMMA ListLastInv ==
  ASSUME IInv, NEW c \in Callers, ListLast(c)
  PROVE  IInv'
<1>1. PICK n \in Read(at[c], 1) :
        pc' = [pc EXCEPT ![c] = IF IsTombstone(n) THEN "gone" ELSE "live"]
  BY DEF ListLast, Goto
<1>2. /\ UNCHANGED <<backend, past, events, base, label, output, settled, on, at, got, ghost>>
      /\ pc[c] = "last"
  BY DEF ListLast, logVars, labelVars
<1>3. TypeOK /\ LogInv /\ OutputAgrees /\ ListInv(c) /\ at[c] \in 1 .. Len(past)
  BY <1>2 DEF IInv, CallInv, ListInv
<1>4. TypeOK' /\ OutputAgrees'
  BY <1>1, <1>2, <1>3 DEF TypeOK, OutputAgrees, Awaits, Answers
<1>5. pc'[c] = IF IsTombstone(n) THEN "gone" ELSE "live"
  BY <1>1, <1>3 DEF TypeOK
<1>6. /\ IsTombstone(n) => past[at[c]].kind = "tombstone"
      /\ ~ IsTombstone(n) => past[at[c]].kind # "tombstone" \/ at[c] <= base
  <2>1. CASE at[c] \in Rows /\ at[c] # base
    <3>1. n = at[c] /\ events[n] = past[n]
      BY <1>1, <1>3, <2>1, ReadOne DEF LogInv
    <3> QED
      BY <3>1 DEF IsTombstone
  <2>2. CASE at[c] \notin Rows \/ at[c] = base
    <3>1. n = base /\ at[c] <= base /\ base # 0
      <4>1. base \in Nat /\ at[c] \in Nat /\ at[c] # 0
        BY <1>3, RowsAre
      <4> QED
        BY <1>1, <1>3, <2>2, <4>1, ReadOne
    <3>2. events[n].kind = "snapshot"
      BY <1>3, <3>1 DEF LogInv
    <3> QED
      BY <3>1, <3>2 DEF IsTombstone
  <2> QED
    BY <2>1, <2>2
<1>7. CallInv(c)'
  <2>1. LabelInv(c)' /\ ScanInv(c)'
    BY <1>5 DEF LabelInv, ScanInv, Telling
  <2>2. ListInv(c)'
    BY <1>2, <1>3, <1>5, <1>6 DEF ListInv
  <2> QED
    BY <2>1, <2>2 DEF CallInv
<1>8. \A d \in Callers \ {c} : pc'[d] = pc[d]
  BY <1>1, <1>3 DEF TypeOK
<1> QED
  BY <1>2, <1>4, <1>7, <1>8, OwnStep

\* A scan: what a query gives at once, or page after page.
LEMMA AskInv ==
  ASSUME IInv, NEW c \in Callers, Ask(c)
  PROVE  IInv'
<1>1. PICK from \in 1 .. MaxEvents :
        /\ at' = [at EXCEPT ![c] = from]
        /\ \/ /\ backend = "sqlite"
              /\ got' = [got EXCEPT ![c] = ByMeta(from)]
              /\ pc' = [pc EXCEPT ![c] = "found"]
              /\ ghost' = [ghost EXCEPT ![c].from = from, ![c].want = ByMeta(from)]
           \/ /\ backend = "mem"
              /\ pc' = [pc EXCEPT ![c] = "page"]
              /\ ghost' = [ghost EXCEPT ![c].from = from]
              /\ UNCHANGED got
  BY DEF Ask, Goto
<1>2. /\ UNCHANGED <<backend, past, events, base, label, output, settled, on>>
      /\ pc[c] = "idle"
  BY DEF Ask, Asks, logVars, labelVars
<1>3. TypeOK /\ LogInv /\ OutputAgrees /\ ScanInv(c)
  BY DEF IInv, CallInv
<1>4. from \in Nat /\ ByMeta(from) \in SUBSET Nat /\ 1 \in Nat
  <2>1. from \in Nat
    OBVIOUS
  <2> QED
    BY <1>3, <2>1, ReadType
<1>5. ghost[c] \in Ghosts
  BY <1>3 DEF TypeOK
<1>6. CASE backend = "sqlite"
  <2>1. /\ got' = [got EXCEPT ![c] = ByMeta(from)] /\ pc' = [pc EXCEPT ![c] = "found"]
        /\ ghost' = [ghost EXCEPT ![c].from = from, ![c].want = ByMeta(from)]
    BY <1>1, <1>6
  <2>2. ghost' \in [Callers -> Ghosts] /\ ghost'[c].want = ByMeta(from)
    BY <1>3, <1>4, <1>5, <2>1 DEF TypeOK, Ghosts
  <2>3. TypeOK' /\ OutputAgrees'
    BY <1>1, <1>2, <1>3, <1>4, <2>1, <2>2 DEF TypeOK, OutputAgrees, Awaits, Answers
  <2>4. pc'[c] = "found" /\ got'[c] = ByMeta(from)
    BY <1>3, <2>1 DEF TypeOK
  <2>5. CallInv(c)'
    BY <2>2, <2>4 DEF CallInv, LabelInv, ListInv, ScanInv, Telling
  <2>6. \A d \in Callers \ {c} : pc'[d] = pc[d] /\ at'[d] = at[d] /\ got'[d] = got[d] /\ ghost'[d] = ghost[d]
    BY <1>1, <1>3, <2>1 DEF TypeOK
  <2> QED
    BY <1>2, <2>3, <2>5, <2>6, OwnStep
<1>7. CASE backend = "mem"
  <2>1. /\ pc' = [pc EXCEPT ![c] = "page"] /\ ghost' = [ghost EXCEPT ![c].from = from] /\ got' = got
    BY <1>1, <1>7
  <2>2. ghost' \in [Callers -> Ghosts] /\ ghost'[c].from = from
    BY <1>3, <1>4, <1>5, <2>1 DEF TypeOK, Ghosts
  <2>3. TypeOK' /\ OutputAgrees'
    BY <1>1, <1>2, <1>3, <1>4, <2>1, <2>2 DEF TypeOK, OutputAgrees, Awaits
  <2>4. pc'[c] = "page" /\ at'[c] = from /\ got'[c] = {}
    BY <1>1, <1>2, <1>3, <2>1 DEF TypeOK, ScanInv
  <2>5. CallInv(c)'
    <3>1. LabelInv(c)' /\ ListInv(c)'
      BY <2>4 DEF LabelInv, ListInv, Telling
    <3>2. \A n \in Rows' : ~ (from <= n /\ n < from)
      <4>1. Rows' = Rows /\ Rows \in SUBSET Nat
        BY <1>2, <1>3, RowsAre DEF Rows
      <4> QED
        BY <1>4, <4>1
    <3>3. (Hits(ghost[c].from, at[c]))' = {}
      BY <2>2, <2>4, <3>2 DEF Hits
    <3>4. ScanInv(c)'
      BY <1>2, <1>4, <1>7, <2>2, <2>4, <3>3 DEF ScanInv
    <3> QED
      BY <3>1, <3>4 DEF CallInv
  <2>6. \A d \in Callers \ {c} : pc'[d] = pc[d] /\ at'[d] = at[d] /\ got'[d] = got[d] /\ ghost'[d] = ghost[d]
    BY <1>1, <1>3, <2>1 DEF TypeOK
  <2> QED
    BY <1>2, <2>3, <2>5, <2>6, OwnStep
<1> QED
  BY <1>1, <1>6, <1>7

\* The page of a scan: all there is from the cursor up to the last event in it.
LEMMA PageIs ==
  ASSUME TypeOK, LogInv, NEW from \in Nat
  PROVE  LET page == Read(from, Page) IN
           /\ page = {} => \A n \in Rows : n < from
           /\ \A n \in page, m \in Rows : from <= m /\ m <= n => m \in page
           /\ \A n \in page : from <= n /\ n \in Rows
           /\ page # {} => /\ LastOf(page) \in page
                           /\ \A n \in page : n <= LastOf(page)
<1> DEFINE S == {n \in Rows : n >= from}
           page == Read(from, Page)
<1>1. page = Few(S, Page) /\ S \in SUBSET Nat /\ Page \in Nat \ {0} /\ Rows \in SUBSET Nat /\ 1 \in Nat
  BY RowsAre, CatalogueAssumption DEF Read, FirstFew, Few
<1>2. ASSUME page = {}, NEW n \in Rows PROVE n < from
  <2>1. S = {}
    <3>1. SUFFICES ASSUME S # {} PROVE FALSE
      OBVIOUS
    <3>2. PICK l \in S : \A m \in S : l <= m
      <4> HIDE DEF S
      <4> QED
        BY <1>1, <3>1, LeastExists
    <3>3. l \in Few(S, Page)
      <4> HIDE DEF S
      <4> QED
        BY <1>1, <3>2, FewOne
    <3> QED
      BY <1>1, <1>2, <3>3
  <2>2. n \in Nat /\ ~ (n >= from)
    BY <1>1, <2>1
  <2> QED
    BY <2>2
<1>3. ASSUME NEW n \in page, NEW m \in Rows, from <= m, m <= n PROVE m \in page
  <2>1. m \in S /\ n \in Few(S, Page)
    BY <1>1, <1>3
  <2> HIDE DEF S, page
  <2> QED
    BY <1>1, <1>3, <2>1, FewDown
<1>4. page \subseteq S
  BY <1>1 DEF Few
<1>5. ASSUME page # {}
      PROVE  LastOf(page) \in page /\ \A n \in page : n <= LastOf(page)
  <2>1. page \in SUBSET Nat /\ Len(past) \in Nat
    BY <1>1, <1>4, RowsAre
  <2>2. \A n \in page : n <= Len(past)
    BY <1>1, <1>4, RowsAre
  <2>3. PICK g \in page : \A n \in page : n <= g
    <3> HIDE DEF page
    <3> QED
      BY <1>5, <2>1, <2>2, GreatestExists
  <2>4. LastOf(page) = g
    <3> HIDE DEF page
    <3> QED
      BY <2>1, <2>3, LastOfIs
  <2> QED
    BY <2>3, <2>4
<1>6. \A n \in page : from <= n /\ n \in Rows
  BY <1>1, <1>4
<1> QED
  BY <1>2, <1>3, <1>5, <1>6

LEMMA ScanPageInv ==
  ASSUME IInv, NEW c \in Callers, ScanPage(c)
  PROVE  IInv'
<1> DEFINE from == ghost[c].from
           page == Read(at[c], Page)
           all == got[c] \cup {n \in page : events[n].tag}
           hits == FirstFew(all, Limit)
           wanted == {n \in Rows : n >= from /\ events[n].tag}
<1>1. /\ pc[c] = "page" /\ UNCHANGED <<backend, past, events, base, label, output, settled, on>>
      /\ got' = [got EXCEPT ![c] = hits]
      /\ IF page = {} \/ Cardinality(hits) = Limit
         THEN /\ ghost' = [ghost EXCEPT ![c].want = ByMeta(from)]
              /\ pc' = [pc EXCEPT ![c] = "found"]
              /\ UNCHANGED at
         ELSE /\ at' = [at EXCEPT ![c] = LastOf(page) + 1]
              /\ UNCHANGED <<pc, ghost>>
  BY DEF ScanPage, Goto, AfterLast, logVars, labelVars
<1>2. TypeOK /\ LogInv /\ OutputAgrees /\ ScanInv(c) /\ Limit \in Nat \ {0}
  BY CatalogueAssumption DEF IInv, CallInv
<1>3. /\ at[c] \in Nat /\ from \in Nat /\ got[c] \in SUBSET Nat /\ ghost[c] \in Ghosts
      /\ Rows \in SUBSET Nat
  BY <1>2, RowsAre DEF TypeOK, Ghosts
<1>4. got[c] = Hits(from, at[c]) /\ from <= at[c]
  BY <1>1, <1>2 DEF ScanInv
<1>5. /\ page = {} => \A n \in Rows : n < at[c]
      /\ \A n \in page, m \in Rows : at[c] <= m /\ m <= n => m \in page
      /\ \A n \in page : at[c] <= n /\ n \in Rows
      /\ page # {} => /\ LastOf(page) \in page
                      /\ \A n \in page : n <= LastOf(page)
  BY <1>2, <1>3, PageIs
<1>6. hits = Few(all, Limit) /\ ByMeta(from) = Few(wanted, Limit) /\ hits \subseteq all
  BY DEF FirstFew, ByMeta, Few
<1>7. all \in SUBSET Nat /\ wanted \in SUBSET Nat /\ all \subseteq wanted
  <2>1. \A n \in page : n \in Rows /\ n \in Nat /\ from <= n
    <3>1. ASSUME NEW n \in page PROVE n \in Rows /\ n \in Nat /\ from <= n
      <4>1. n \in Rows /\ at[c] <= n /\ n \in Nat
        BY <1>3, <1>5
      <4> QED
        BY <1>3, <1>4, <4>1
    <3> QED
      BY <3>1
  <2>2. \A n \in got[c] : n \in Rows /\ from <= n /\ events[n].tag
    BY <1>4 DEF Hits
  <2> QED
    BY <1>3, <2>1, <2>2
<1>8. ASSUME NEW n \in wanted \ all, NEW m \in all PROVE m < n
  <2>1. n \in Nat /\ m \in Nat /\ n \in Rows /\ events[n].tag /\ from <= n
    BY <1>7
  <2>2. at[c] <= n /\ n \notin page
    <3>1. ~ (n < at[c])
      BY <1>4, <2>1 DEF Hits
    <3> QED
      BY <1>3, <2>1, <3>1
  <2>3. CASE m \in got[c]
    <3>1. m < at[c]
      BY <1>4, <2>3 DEF Hits
    <3> QED
      BY <1>3, <2>1, <2>2, <3>1
  <2>4. CASE m \in page
    <3>1. ~ (n <= m)
      BY <1>5, <2>1, <2>2, <2>4
    <3> QED
      BY <2>1, <3>1
  <2> QED
    BY <2>3, <2>4
<1>9. hits \in SUBSET Nat /\ ByMeta(from) \in SUBSET Nat
  BY <1>2, <1>3, <1>6, <1>7, ReadType
<1>10. CASE page = {} \/ Cardinality(hits) = Limit
  <2>1. hits = ByMeta(from)
    <3>1. CASE page = {}
      <4>1. ASSUME NEW n \in wanted PROVE n \in all
        <5>1. n \in Rows /\ n < at[c] /\ from <= n /\ events[n].tag
          BY <1>5, <3>1
        <5> QED
          BY <1>4, <5>1 DEF Hits
      <4>2. wanted = all
        BY <1>7, <4>1
      <4> QED
        BY <1>6, <4>2
    <3>2. CASE Cardinality(hits) = Limit
      <4> HIDE DEF all, wanted, hits
      <4> QED
        BY <1>2, <1>6, <1>7, <1>8, <3>2, FewStay
    <3> QED
      BY <1>10, <3>1, <3>2
  <2>2. /\ ghost' = [ghost EXCEPT ![c].want = ByMeta(from)] /\ pc' = [pc EXCEPT ![c] = "found"]
        /\ at' = at
    BY <1>1, <1>10
  <2> HIDE DEF all, wanted, hits, page
  <2>3. ghost' \in [Callers -> Ghosts] /\ ghost'[c].want = ByMeta(from)
    BY <1>2, <1>3, <1>9, <2>2 DEF TypeOK, Ghosts
  <2>4. TypeOK' /\ OutputAgrees'
    BY <1>1, <1>2, <1>9, <2>2, <2>3 DEF TypeOK, OutputAgrees, Awaits, Answers
  <2>5. pc'[c] = "found" /\ got'[c] = hits
    BY <1>1, <1>2, <2>2 DEF TypeOK
  <2>6. CallInv(c)'
    BY <2>1, <2>3, <2>5 DEF CallInv, LabelInv, ListInv, ScanInv, Telling
  <2>7. \A d \in Callers \ {c} : pc'[d] = pc[d] /\ got'[d] = got[d] /\ ghost'[d] = ghost[d]
    BY <1>1, <1>2, <2>2 DEF TypeOK
  <2> QED
    BY <1>1, <2>2, <2>4, <2>6, <2>7, OwnStep
<1>11. CASE ~ (page = {} \/ Cardinality(hits) = Limit)
  <2> DEFINE g == LastOf(page)
  <2>1. g \in page /\ (\A n \in page : n <= g) /\ g \in Rows /\ g \in Nat /\ at[c] <= g
    BY <1>3, <1>5, <1>11
  <2>2. hits = all
    <3> HIDE DEF all, hits
    <3> QED
      BY <1>2, <1>6, <1>7, <1>11, FewAll
  <2>3. g + 1 \in Nat /\ g + 1 <= Len(past) + 1 /\ from <= g + 1
    BY <1>2, <1>3, <1>4, <2>1, RowsAre
  <2>4. all = Hits(from, g + 1)
    <3>1. ASSUME NEW n \in all PROVE n \in Hits(from, g + 1)
      <4>1. n \in Nat /\ n \in Rows /\ from <= n /\ events[n].tag
        BY <1>7
      <4>2. CASE n \in got[c]
        <5>1. n < at[c]
          BY <1>4, <4>2 DEF Hits
        <5> QED
          BY <1>3, <2>1, <4>1, <5>1 DEF Hits
      <4>3. CASE n \in page
        BY <2>1, <4>1, <4>3 DEF Hits
      <4> QED
        BY <4>2, <4>3
    <3>2. ASSUME NEW n \in Hits(from, g + 1) PROVE n \in all
      <4>1. n \in Nat /\ n \in Rows /\ from <= n /\ events[n].tag /\ n < g + 1
        BY <1>3, <3>2 DEF Hits
      <4>2. CASE n < at[c]
        BY <1>4, <4>1, <4>2 DEF Hits
      <4>3. CASE ~ (n < at[c])
        <5>1. at[c] <= n /\ n <= g
          BY <1>3, <2>1, <4>1, <4>3
        <5> QED
          BY <1>5, <2>1, <4>1, <5>1
      <4> QED
        BY <4>2, <4>3
    <3> QED
      BY <3>1, <3>2
  <2>5. at' = [at EXCEPT ![c] = g + 1] /\ pc' = pc /\ ghost' = ghost
    BY <1>1, <1>11
  <2> HIDE DEF all, wanted, hits, page, g
  <2>6. TypeOK' /\ OutputAgrees'
    BY <1>1, <1>2, <1>9, <2>3, <2>5 DEF TypeOK, OutputAgrees
  <2>7. pc'[c] = "page" /\ got'[c] = hits /\ at'[c] = g + 1
    BY <1>1, <1>2, <2>5 DEF TypeOK
  <2>8. CallInv(c)'
    <3>1. LabelInv(c)' /\ ListInv(c)'
      BY <2>7 DEF LabelInv, ListInv, Telling
    <3>2. (Hits(ghost[c].from, at[c]))' = Hits(from, g + 1)
      BY <1>1, <2>5, <2>7 DEF Hits, Rows
    <3>3. ScanInv(c)'
      BY <1>1, <1>2, <2>2, <2>3, <2>4, <2>5, <2>7, <3>2 DEF ScanInv
    <3> QED
      BY <3>1, <3>3 DEF CallInv
  <2>9. \A d \in Callers \ {c} : at'[d] = at[d] /\ got'[d] = got[d]
    BY <1>1, <1>2, <2>5 DEF TypeOK
  <2> QED
    BY <1>1, <2>5, <2>6, <2>8, <2>9, OwnStep
<1> QED
  BY <1>10, <1>11

-----------------------------------------------------------------------------
(* The theorems.                                                           *)

LEMMA NextInv ==
  ASSUME IInv, [Next]_vars
  PROVE  IInv'
<1>1. CASE UNCHANGED vars
  <2>1. UNCHANGED <<backend, past, events, base, label, output, settled, pc, on, at, got, ghost>>
    BY <1>1 DEF vars, logVars, labelVars, callVars
  <2>2. TypeOK' /\ OutputAgrees' /\ LogInv' /\ \A l \in Labels : label'[l] <= Len(past')
    BY <2>1 DEF IInv, TypeOK, OutputAgrees, LogInv, Rows
  <2>3. \A c \in Callers : CallInv(c)'
    BY <2>1, Beside
  <2> QED
    BY <2>2, <2>3 DEF IInv
<1>2. CASE \E event \in EventMenu : Commit(event)
  BY <1>2, CommitInv
<1>3. CASE \E k \in Rows : Compact(k)
  BY <1>3, CompactInv
<1>4. ASSUME NEW c \in Callers, LabelCalls(c) PROVE IInv'
  BY <1>4, LabelDeleteInv, ResolveInv, LabelSetInv, LabelRejectedInv, LabelStateInv,
     LabelEventInv, TellInv DEF LabelCalls
<1>5. ASSUME NEW c \in Callers, Listing(c) PROVE IInv'
  BY <1>5, ListStreamsInv, ListHeadInv, ListLastInv DEF Listing
<1>6. ASSUME NEW c \in Callers, Scan(c) PROVE IInv'
  BY <1>6, AskInv, ScanPageInv DEF Scan
<1>7. ASSUME NEW c \in Callers, GiveUp(c) PROVE IInv'
  BY <1>7, GiveUpInv
<1> QED
  BY <1>1, <1>2, <1>3, <1>4, <1>5, <1>6, <1>7 DEF Next

\* The inductive invariant holds, for any callers, labels, times, events, page
\* size and limit.
THEOREM Inductive == Spec => []IInv
<1>1. Init => IInv
  BY InitInv
<1>2. IInv /\ [Next]_vars => IInv'
  BY NextInv
<1> QED
  BY <1>1, <1>2, PTL DEF Spec

\* A label, and what a caller has resolved, is an event or below the boundary:
\* label_set checks that the event exists, and events only go by compaction.
THEOREM LabelsNeverDangle == Spec => []LabelsPoint
<1>1. IInv => LabelsPoint
  <2> SUFFICES ASSUME IInv,
                      NEW n \in {label[l] : l \in Labels} \cup
                                {at[c] : c \in {d \in Callers : pc[d] = "resolved"}},
                      n # 0
               PROVE  n \in Rows \/ n < base
    BY DEF LabelsPoint
  <2>1. n \in Nat /\ n <= Len(past)
    BY DEF IInv, TypeOK, CallInv, LabelInv
  <2> QED
    BY <2>1, RowsAre DEF IInv
<1> QED
  BY <1>1, Inductive, PTL

\* The sink is handed the event the label points at, unless it is compacted away.
THEOREM SinkHearsTheEvent == Spec => []NotifiedEvent
<1>1. IInv => NotifiedEvent
  BY DEF IInv, CallInv, LabelInv, NotifiedEvent
<1> QED
  BY <1>1, Inductive, PTL

\* After a call that met no other, the sink shows the label where the table has it.
THEOREM SinkShowsTheLabel == Spec => []OutputAgrees
<1>1. IInv => OutputAgrees
  BY DEF IInv
<1> QED
  BY <1>1, Inductive, PTL

\* What streams_live answers was so at some moment of the call, or the stream has
\* been compacted at its tombstone.
THEOREM ListingIsJustified == Spec => []LiveIsJustified
<1>1. IInv => LiveIsJustified
  BY DEF IInv, CallInv, ListInv, LiveIsJustified
<1> QED
  BY <1>1, Inductive, PTL

\* A paged scan beside appends gives what one query would give at its end.
THEOREM ScanIsAQuery == Spec => []ScanLikeQuery
<1>1. IInv => ScanLikeQuery
  BY DEF IInv, CallInv, ScanInv, ScanLikeQuery
<1> QED
  BY <1>1, Inductive, PTL

\* The row of the latest time up to the one asked for, and of its rows the last.
LEMMA LatestIs ==
  ASSUME TypeOK, LogInv,
         \A m, n \in 1 .. Len(past) : m <= n => past[m].at <= past[n].at,
         NEW S \in SUBSET Rows, NEW g \in S, \A m \in S : m <= g
  PROVE  (CHOOSE n \in S : \A m \in S : Ordered(m, n)) = g
<1>1. \A m \in S : m \in Rows /\ m \in 1 .. Len(past) /\ events[m].at = past[m].at
                   /\ past[m].at \in Nat
  <2>1. ASSUME NEW m \in S
        PROVE  m \in Rows /\ m \in 1 .. Len(past) /\ events[m].at = past[m].at
               /\ past[m].at \in Nat
    <3>1. m \in Rows /\ m \in 1 .. Len(past) /\ events[m].at = past[m].at
      BY RowsAre
    <3>2. past[m] \in EventMenu
      BY <3>1 DEF TypeOK
    <3> QED
      BY <3>1, <3>2, EventIs
  <2> QED
    BY <2>1
<1>2. \A m \in S : Ordered(m, g)
  BY <1>1 DEF Ordered
<1>3. PICK n \in S : /\ n = CHOOSE k \in S : \A m \in S : Ordered(m, k)
                     /\ \A m \in S : Ordered(m, n)
  BY <1>2, Zenon
<1>4. n <= g /\ past[n].at <= past[g].at /\ Ordered(g, n)
  BY <1>1, <1>3
<1>5. n = g
  BY <1>1, <1>4 DEF Ordered
<1> QED
  BY <1>3, <1>5

\* As long as times do not go back, both backends find the state of a time: a
\* snapshot has the time of the event it replaced.
THEOREM TimesAreFound == Spec => []TimeAnswers
<1>1. IInv => TimeAnswers
  <2> SUFFICES ASSUME IInv,
                      \A m, n \in 1 .. Len(past) : m <= n => past[m].at <= past[n].at,
                      NEW time \in Times
               PROVE  LET last == LastOf({n \in 1 .. Len(past) : past[n].at <= time}) IN
                        SeqAtTime(time) = IF last < base THEN 0 ELSE last
    BY DEF TimeAnswers
  <2> DEFINE Past == {n \in 1 .. Len(past) : past[n].at <= time}
             upto == {n \in Rows : events[n].at <= time}
  <2>1. TypeOK /\ LogInv /\ Len(past) \in Nat /\ base \in Nat
    BY RowsAre DEF IInv
  <2>2. upto = {n \in Past : base <= n} /\ Past \in SUBSET Nat /\ upto \in SUBSET Rows
    <3>1. \A n \in Nat : n \in Rows <=> (n \in 1 .. Len(past) /\ base <= n)
      BY <2>1, RowsAre
    <3>2. Rows \in SUBSET Nat /\ \A n \in Rows : events[n].at = past[n].at
      BY <2>1, RowsAre
    <3>3. ASSUME NEW n \in upto PROVE n \in Past /\ base <= n
      <4>1. n \in Rows /\ n \in Nat /\ past[n].at <= time
        BY <3>2
      <4> QED
        BY <3>1, <4>1
    <3>4. ASSUME NEW n \in Past, base <= n PROVE n \in upto
      <4>1. n \in Rows /\ past[n].at <= time
        BY <2>1, <3>1, <3>4
      <4> QED
        BY <3>2, <4>1
    <3>5. Past \in SUBSET Nat /\ upto \in SUBSET Rows
      BY <2>1
    <3> QED
      BY <3>3, <3>4, <3>5
  <2>3. CASE Past = {}
    <3>1. upto = {}
      BY <2>2, <2>3
    <3>2. SeqAtTime(time) = 0 /\ LastOf(Past) = 0
      BY <2>3, <3>1 DEF SeqAtTime, LastOf
    <3> QED
      BY <2>1, <3>2
  <2>4. CASE Past # {}
    <3>1. PICK g \in Past : \A m \in Past : m <= g
      <4>1. \A m \in Past : m <= Len(past)
        BY <2>1
      <4> HIDE DEF Past
      <4> QED
        BY <2>1, <2>2, <2>4, <4>1, GreatestExists
    <3>2. LastOf(Past) = g /\ g \in Nat
      <4> HIDE DEF Past
      <4> QED
        BY <2>2, <3>1, LastOfIs
    <3>3. CASE g < base
      <4>1. \A n \in Past : ~ (base <= n)
        <5>1. \A n \in Past : n \in Nat /\ n <= g
          BY <2>2, <3>1
        <5> QED
          BY <2>1, <3>2, <3>3, <5>1
      <4>2. upto = {}
        BY <2>2, <4>1
      <4>3. SeqAtTime(time) = 0
        BY <4>2 DEF SeqAtTime, LastOf
      <4> QED
        BY <3>2, <3>3, <4>3
    <3>4. CASE ~ (g < base)
      <4>1. g \in upto /\ (\A m \in upto : m <= g) /\ upto \in SUBSET Nat
        BY <2>1, <2>2, <3>1, <3>2, <3>4
      <4>2. LastOf(upto) = g
        <5> HIDE DEF upto
        <5> QED
          BY <4>1, LastOfIs
      <4>3. (CHOOSE n \in upto : \A m \in upto : Ordered(m, n)) = g
        <5> HIDE DEF upto
        <5> QED
          BY <2>1, <2>2, <4>1, LatestIs
      <4>4. SeqAtTime(time) = g
        BY <4>2, <4>3 DEF SeqAtTime
      <4> QED
        BY <3>2, <3>4, <4>4
    <3> QED
      BY <3>3, <3>4
  <2> QED
    BY <2>3, <2>4
<1> QED
  BY <1>1, Inductive, PTL
=============================================================================
