------------------------- MODULE CombinedFileProofs -------------------------
(***************************************************************************)
(* Why the combined file is right: it is written under the sink's Mutex, so*)
(* a write in progress is of the map as it is; the hash in memory is that  *)
(* of the file, but between a rename and its KeepHash; and a process that  *)
(* has caught up has reset every checkpoint its map does not account for.  *)
(***************************************************************************)
EXTENDS CombinedFile, TLAPS

Held == {"write", "rename", "hash"}
InHand == {"get", "lock", "advance"} \cup Held
Walking == {"cursor", "read", "lock", "advance"} \cup Held

Labels == {Idle, "get", "lock", "write", "rename", "hash", "advance",
           "next", "reset", "head", "cursor", "read"}

\* Every variable stays in its type.
TypeOK ==
  /\ log \in [Streams -> Seq(Values)]
  /\ kept \in [Streams -> Nat]
  /\ streams \in [Streams -> Values \cup {None}]
  /\ holder \in Procs \cup {None}
  /\ pc \in [Procs -> Labels]
  /\ on \in [Procs -> Streams \cup {None}]
  /\ ev \in [Procs -> Nat] /\ cursor \in [Procs -> Nat] /\ head \in Nat
  /\ todo \subseteq Streams
  /\ clean \in BOOLEAN /\ unhashed \in BOOLEAN /\ rebuilt \in BOOLEAN /\ reset \in BOOLEAN

\* The Mutex is held from the insert to the new hash.
MutexInv == \A p \in Procs : pc[p] \in Held <=> holder = p

FileInv ==
  /\ file # Torn
  /\ \A p \in Procs : pc[p] = "rename" => partial = streams
  /\ \A p \in Procs : pc[p] = "hash" => file = streams
  /\ holder # None => ~clean
  /\ ~unhashed /\ hash # None /\ (\A p \in Procs : pc[p] # "hash") => file = hash
  /\ clean /\ ~unhashed => file = streams

\* A process hands over an event of the log, and its section is in the map
\* before the checkpoint can say so.
HandInv(p) ==
  /\ pc[p] \in InHand => on[p] \in Streams /\ ev[p] \in 1 .. Len(log[on[p]])
  /\ pc[p] \in Held \cup {"advance"} => streams[on[p]] # None

WalkInv ==
  /\ pc[Keeper] \in Walking \cup {"reset", "head"} => on[Keeper] \in Streams
  /\ pc[Keeper] \in Walking => head <= Len(log[on[Keeper]])

Present(s) == kept[s] > 0 => streams[s] # None

\* What the first catch_up of a process has come past it has accounted for.
RebuildInv ==
  /\ \A s \in Streams : kept[s] <= Len(log[s])
  /\ rebuilt => \A s \in Streams \ unreset : Present(s)
  /\ pc[Keeper] # Idle /\ ~reset => rebuilt
  /\ pc[Keeper] # Idle /\ reset =>
       \A s \in Streams \ (unreset \cup todo) :
         Present(s) \/ (pc[Keeper] = "reset" /\ s = on[Keeper])

HandsInv == \A p \in Procs : HandInv(p)

\* The inductive invariant.
IInv == TypeOK /\ MutexInv /\ FileInv /\ HandsInv /\ WalkInv /\ RebuildInv

-----------------------------------------------------------------------------
(* What the operators do.                                                  *)

\* A step of one process leaves the others where they are.
Others(p) ==
  \A q \in Procs \ {p} : pc'[q] = pc[q] /\ on'[q] = on[q] /\ ev'[q] = ev[q]

LocalType ==
  /\ pc' \in [Procs -> Labels] /\ on' \in [Procs -> Streams \cup {None}]
  /\ ev' \in [Procs -> Nat] /\ cursor' \in [Procs -> Nat] /\ head' \in Nat
  /\ todo' \subseteq Streams /\ reset' \in BOOLEAN

\* Where a process is when its commit or its call has ended.
LEMMA AfterCall ==
  ASSUME TypeOK, NEW p \in Procs, Return(p) \/ GiveUp(p)
  PROVE  /\ Others(p) /\ LocalType
         /\ \/ pc'[p] = Idle
            \/ pc'[p] = "next" /\ p = Keeper /\ on'[p] = on[p]
         /\ p # Keeper \/ pc'[p] = "next" => UNCHANGED <<head, todo, reset>>
<1> USE DEF TypeOK, Labels, Idle, Procs
<1>1. CASE Return(p)
  <2>1. /\ pc' = [pc EXCEPT ![p] = "idle"] /\ on' = [on EXCEPT ![p] = None]
        /\ ev' = [ev EXCEPT ![p] = 0] /\ cursor' = [cursor EXCEPT ![p] = 0]
    BY <1>1 DEF Return, Goto
  <2>2. head' \in Nat /\ todo' \subseteq Streams /\ reset' \in BOOLEAN
    <3>1. CASE p = Keeper
      <4>1. head' = 0 /\ todo' = {}
        BY <1>1, <3>1 DEF Return
      <4>2. reset' \in BOOLEAN
        BY <1>1, <3>1, Zenon DEF Return
      <4> QED
        BY <4>1, <4>2
    <3>2. CASE p # Keeper
      BY <1>1, <3>2 DEF Return
    <3> QED
      BY <3>1, <3>2
  <2>3. p # Keeper => UNCHANGED <<head, todo, reset>>
    BY <1>1 DEF Return
  <2>4. Others(p) /\ LocalType /\ pc'[p] = "idle"
    BY <2>1, <2>2 DEF Others, LocalType
  <2> QED
    BY <2>3, <2>4
<1>2. CASE p = Keeper /\ Goto(p, "next") /\ UNCHANGED local
  BY <1>2 DEF Goto, Others, LocalType, local
<1> QED
  BY <1>1, <1>2 DEF GiveUp

\* A section that is inserted is a state, and the map is never None or Torn.
LEMMA InsertedIs ==
  ASSUME IInv, NEW p \in Procs, pc[p] = "lock"
  PROVE  /\ Inserted(p) \in [Streams -> Values \cup {None}] /\ on[p] \in Streams
         /\ Inserted(p) # None /\ Inserted(p)[on[p]] # None
         /\ \A s \in Streams : streams[s] # None => Inserted(p)[s] # None
<1>1. on[p] \in Streams /\ ev[p] \in 1 .. Len(log[on[p]])
  BY DEF IInv, HandsInv, HandInv, InHand
<1>2. log[on[p]][ev[p]] \in Values
  <2>1. log[on[p]] \in Seq(Values)
    BY <1>1 DEF IInv, TypeOK
  <2> QED
    BY <1>1, <2>1
<1>3. streams \in [Streams -> Values \cup {None}]
  BY DEF IInv, TypeOK
<1>4. Inserted(p) = [streams EXCEPT ![on[p]] = log[on[p]][ev[p]]]
  BY DEF Inserted
<1>5. Inserted(p) \in [Streams -> Values \cup {None}]
  BY <1>1, <1>2, <1>3, <1>4
<1>6. None \notin Values /\ None \notin [Streams -> Values \cup {None}]
  BY CombinedAssumption
<1>7. Inserted(p)[on[p]] # None /\ \A s \in Streams : streams[s] # None => Inserted(p)[s] # None
  BY <1>1, <1>2, <1>3, <1>4, <1>6
<1> QED
  BY <1>1, <1>5, <1>6, <1>7

LEMMA MapIs == IInv => streams # None /\ streams # Torn
BY CombinedAssumption DEF IInv, TypeOK

-----------------------------------------------------------------------------
(* The invariant, conjunct by conjunct.                                    *)

LEMMA TypeStep ==
  ASSUME IInv, Next
  PROVE  TypeOK'
<1>0. TypeOK
  BY DEF IInv
<1> USE DEF TypeOK, Goto, Labels, Idle
<1>1. ASSUME NEW p \in Procs, Render(p) PROVE TypeOK'
  <2>1. streams' \in [Streams -> Values \cup {None}]
    BY <1>1, InsertedIs DEF Render
  <2> QED
    BY <1>0, <1>1, <2>1 DEF Render, local
<1>2. ASSUME NEW p \in Procs, Write(p) \/ Rename(p) \/ KeepHash(p) PROVE TypeOK'
  BY <1>0, <1>2 DEF Write, Rename, KeepHash, sink, disk, local, ghosts, Release
<1>3. ASSUME NEW p \in Procs, Refuse(p) \/ Drop(p) PROVE TypeOK'
  <2>1. LocalType
    BY <1>0, <1>3, AfterCall DEF Refuse, Drop
  <2> QED
    BY <1>0, <1>3, <2>1 DEF LocalType, Refuse, Drop, Release, ghosts
<1>4. ASSUME NEW p \in Procs, Advance(p) PROVE TypeOK'
  <2>1. kept' \in [Streams -> Nat]
    BY <1>0, <1>4 DEF Advance, Covered
  <2>2. LocalType
    <3>1. CASE Return(p) \/ GiveUp(p)
      BY <1>0, <3>1, AfterCall
    <3>2. CASE /\ cursor' = [cursor EXCEPT ![p] = ev[p]] /\ Goto(p, "read")
               /\ UNCHANGED <<on, ev, head, todo, reset>>
      BY <1>0, <3>2 DEF LocalType
    <3> QED
      BY <1>4, <3>1, <3>2 DEF Advance
  <2> QED
    BY <1>0, <1>4, <2>1, <2>2 DEF LocalType, Advance, sink, ghosts
<1>5. ASSUME NEW s \in Streams, GetWriter(s) PROVE TypeOK'
  <2>1. s \in Procs
    BY DEF Procs
  <2>2. LocalType
    <3>1. CASE Return(s)
      BY <1>0, <2>1, <3>1, AfterCall
    <3>2. CASE /\ cursor' = [cursor EXCEPT ![s] = kept[s]] /\ Goto(s, "lock")
               /\ UNCHANGED <<on, ev, head, todo, reset>>
      BY <1>0, <2>1, <3>2 DEF LocalType
    <3> QED
      BY <1>5, <3>1, <3>2 DEF GetWriter
  <2> QED
    BY <1>0, <1>5, <2>2 DEF LocalType, GetWriter, sink, ghosts
<1>6. ASSUME NEW s \in Streams, NEW v \in Values, StoreAppends(s, v) PROVE TypeOK'
  BY <1>0, <1>6 DEF StoreAppends, Procs, sink, ghosts
<1>7. CASE CatchUp \/ Reset
  <2>1. CASE CatchUp
    BY <1>0, <2>1 DEF CatchUp, Escalates, Procs, sink, ghosts
  <2>2. CASE Reset
    <3>1. kept' \in [Streams -> Nat]
      <4>1. \/ kept' = [kept EXCEPT ![on[Keeper]] = 0]
            \/ kept' = kept
        BY <2>2 DEF Reset
      <4> QED
        BY <1>0, <4>1
    <3> QED
      BY <1>0, <2>2, <3>1 DEF Reset, Procs, sink, local
  <2> QED
    BY <1>7, <2>1, <2>2
<1>8. CASE NextStream
  <2>1. CASE Return(Keeper)
    <3>1. LocalType
      BY <1>0, <2>1, AfterCall DEF Procs
    <3> QED
      BY <1>0, <1>8, <3>1 DEF LocalType, NextStream, sink, ghosts
  <2>2. CASE ~Return(Keeper)
    <3>1. PICK s \in todo : /\ on' = [on EXCEPT ![Keeper] = s]
                            /\ todo' = todo \ {s}
                            /\ pc' = [pc EXCEPT ![Keeper] = IF reset THEN "reset" ELSE "head"]
                            /\ UNCHANGED <<rebuilt, ev, cursor, head, reset>>
      BY <1>8, <2>2 DEF NextStream
    <3>2. /\ on' \in [Procs -> Streams \cup {None}] /\ todo' \subseteq Streams
          /\ pc' \in [Procs -> Labels]
      BY <1>0, <3>1
    <3> QED
      BY <1>0, <1>8, <3>1, <3>2 DEF NextStream, sink, ghosts
  <2> QED
    BY <2>1, <2>2
<1>9. CASE ReadHead \/ GetKeeper \/ ReadEvent
  <2>1. \A s \in Streams : Len(log[s]) \in Nat
    BY <1>0
  <2>2. on[Keeper] \in Streams
    BY <1>9 DEF ReadHead, GetKeeper, ReadEvent, IInv, WalkInv, Walking
  <2> QED
    BY <1>0, <1>9, <2>1, <2>2 DEF ReadHead, GetKeeper, ReadEvent, Procs, sink, ghosts
<1>10. CASE Restart
  BY <1>0, <1>10 DEF Restart, NoStreams, Procs
<1> QED
  BY <1>1, <1>2, <1>3, <1>4, <1>5, <1>6, <1>7, <1>8, <1>9, <1>10 DEF Next, Commit

\* The steps that neither take the Mutex nor use it.
LEMMA Outside ==
  ASSUME IInv, Next, \A p \in Procs : ~Commit(p) /\ ~Drop(p), ~Restart
  PROVE  /\ UNCHANGED <<sink, disk, clean, unhashed>>
         /\ \A p \in Procs : pc'[p] = pc[p] \/ (pc[p] \notin Held /\ pc'[p] \notin Held)
<1> USE DEF IInv, TypeOK, Held, Idle, Goto, ghosts, sink, disk, local
<1>1. ASSUME NEW p \in Procs, Advance(p)
      PROVE  \A q \in Procs : pc'[q] = pc[q] \/ (pc[q] \notin Held /\ pc'[q] \notin Held)
  <2>1. CASE Return(p) \/ GiveUp(p)
    BY <1>1, <2>1, AfterCall DEF Others, Advance
  <2>2. CASE Goto(p, "read")
    BY <1>1, <2>2 DEF Advance
  <2> QED
    BY <1>1, <2>1, <2>2 DEF Advance
<1>2. ASSUME NEW p \in Procs, Advance(p) PROVE UNCHANGED <<sink, disk, clean, unhashed>>
  BY <1>2 DEF Advance
<1>3. ASSUME NEW s \in Streams, GetWriter(s) \/ \E v \in Values : StoreAppends(s, v)
      PROVE  /\ UNCHANGED <<sink, disk, clean, unhashed>>
             /\ \A q \in Procs : pc'[q] = pc[q] \/ (pc[q] \notin Held /\ pc'[q] \notin Held)
  BY <1>3 DEF GetWriter, StoreAppends, Return
<1>4. CASE CatchUp \/ NextStream \/ Reset
  BY <1>4 DEF CatchUp, NextStream, Reset, Return
<1>5. CASE ReadHead \/ GetKeeper \/ ReadEvent
  BY <1>5 DEF ReadHead, GetKeeper, ReadEvent
<1> QED
  BY <1>1, <1>2, <1>3, <1>4, <1>5 DEF Next

LEMMA MutexStep ==
  ASSUME IInv, Next
  PROVE  MutexInv'
<1>0. TypeOK /\ MutexInv
  BY DEF IInv
<1> USE DEF TypeOK, MutexInv, Goto, Held, Idle
<1>1. ASSUME NEW p \in Procs, Render(p) PROVE MutexInv'
  BY <1>0, <1>1, CombinedAssumption DEF Render, Unlocked, Procs
<1>2. ASSUME NEW p \in Procs, Write(p) \/ Rename(p) \/ KeepHash(p) PROVE MutexInv'
  BY <1>0, <1>2, CombinedAssumption DEF Write, Rename, KeepHash, sink, Release, Procs
<1>3. ASSUME NEW p \in Procs, Refuse(p) \/ Drop(p) PROVE MutexInv'
  <2>1. Others(p) /\ pc'[p] \in {Idle, "next"} /\ Release(p)
    BY <1>0, <1>3, AfterCall DEF Refuse, Drop
  <2> QED
    BY <1>0, <2>1, CombinedAssumption DEF Others, Release, Procs
<1>4. CASE Restart
  BY <1>4, CombinedAssumption DEF Restart, Procs
<1>5. CASE ~Restart /\ \A p \in Procs : ~Commit(p) /\ ~Drop(p)
  BY <1>0, <1>5, Outside DEF sink
<1> QED
  BY <1>1, <1>2, <1>3, <1>4, <1>5 DEF Commit

LEMMA FileStep ==
  ASSUME IInv, Next
  PROVE  FileInv'
<1>0. /\ TypeOK /\ MutexInv /\ FileInv /\ streams # None /\ streams # Torn
      /\ None \notin Procs /\ None # Torn
  BY MapIs, CombinedAssumption DEF IInv, Procs
<1> USE DEF TypeOK, MutexInv, FileInv, Goto, Held, Idle
<1>1. ASSUME NEW p \in Procs, Render(p) PROVE FileInv'
  <2>1. Inserted(p) # None /\ \A q \in Procs : pc[q] \notin Held
    BY <1>0, <1>1, InsertedIs DEF Render, Unlocked
  <2>2. CASE SameBody(Inserted(p))
    BY <1>0, <1>1, <2>1, <2>2 DEF Render, SameBody, disk, Unlocked
  <2>3. CASE ~SameBody(Inserted(p))
    BY <1>0, <1>1, <2>1, <2>3 DEF Render, disk
  <2> QED
    BY <2>2, <2>3
<1>2. ASSUME NEW p \in Procs, Write(p) PROVE FileInv'
  BY <1>0, <1>2 DEF Write, sink, ghosts
<1>3. ASSUME NEW p \in Procs, Rename(p) PROVE FileInv'
  BY <1>0, <1>3 DEF Rename, sink, ghosts
<1>4. ASSUME NEW p \in Procs, KeepHash(p) PROVE FileInv'
  BY <1>0, <1>4 DEF KeepHash, disk, Release
<1>5. ASSUME NEW p \in Procs, Refuse(p) PROVE FileInv'
  <2>1. Others(p) /\ pc'[p] \in {Idle, "next"}
    BY <1>0, <1>5, AfterCall DEF Refuse
  <2>2. pc[p] \in Held /\ holder = p /\ \A q \in Procs \ {p} : pc[q] \notin Held
    BY <1>0, <1>5 DEF Refuse
  <2>3. holder' = None /\ UNCHANGED <<streams, hash, file, clean, unhashed>> /\ pc[p] # "hash"
    BY <1>5, <2>2 DEF Refuse, Release, ghosts
  <2> QED
    BY <1>0, <2>1, <2>2, <2>3 DEF Others
<1>6. ASSUME NEW p \in Procs, Drop(p) PROVE FileInv'
  <2>1. Others(p) /\ pc'[p] \in {Idle, "next"}
    BY <1>0, <1>6, AfterCall DEF Drop
  <2>2. /\ UNCHANGED <<streams, hash, file, clean>>
        /\ unhashed' = (unhashed \/ pc[p] = "hash")
        /\ holder' = IF holder = p THEN None ELSE holder
        /\ partial' = IF pc[p] \in {"write", "rename"} THEN Torn ELSE partial
    BY <1>6 DEF Drop, Release, Abandon
  <2>3. \A q \in Procs \ {p} : pc'[q] = "rename" => partial' = streams
    <3>1. ASSUME NEW q \in Procs \ {p}, pc'[q] = "rename" PROVE pc[p] \notin Held
      BY <1>0, <2>1, <3>1 DEF Others
    <3> QED
      BY <1>0, <2>1, <2>2, <3>1 DEF Others
  <2> QED
    BY <1>0, <2>1, <2>2, <2>3 DEF Others
<1>7. CASE Restart
  BY <1>0, <1>7 DEF Restart
<1>8. CASE ~Restart /\ \A p \in Procs : ~Commit(p) /\ ~Drop(p)
  BY <1>0, <1>8, Outside DEF sink, disk
<1> QED
  BY <1>1, <1>2, <1>3, <1>4, <1>5, <1>6, <1>7, <1>8 DEF Commit

\* The log only grows, and so does the map while the process lives.
LEMMA Growth ==
  ASSUME IInv, Next
  PROVE  /\ \A s \in Streams : Len(log[s]) \in Nat /\ Len(log'[s]) \in Nat
                               /\ Len(log[s]) <= Len(log'[s])
         /\ ~Restart => \A s \in Streams : streams[s] # None => streams'[s] # None
<1>0. TypeOK /\ TypeOK'
  BY TypeStep DEF IInv
<1> USE DEF TypeOK
<1>1. \A s \in Streams : Len(log[s]) \in Nat /\ Len(log'[s]) \in Nat
  BY <1>0
<1>2. CASE \E s \in Streams, v \in Values : StoreAppends(s, v)
  <2>1. PICK s \in Streams, v \in Values : StoreAppends(s, v)
    BY <1>2
  <2>2. log' = [log EXCEPT ![s] = Append(log[s], v)] /\ streams' = streams
    BY <2>1 DEF StoreAppends, sink
  <2>3. log[s] \in Seq(Values) /\ Len(Append(log[s], v)) = Len(log[s]) + 1
    BY <1>0
  <2> QED
    BY <1>0, <1>1, <2>2, <2>3
<1>3. CASE \E p \in Procs : Render(p)
  <2>1. PICK p \in Procs : Render(p)
    BY <1>3
  <2> QED
    BY <1>1, <2>1, InsertedIs DEF Render
<1>4. ASSUME NEW p \in Procs, Commit(p) \/ Advance(p) \/ Drop(p), ~Render(p)
      PROVE  UNCHANGED <<log, streams>>
  BY <1>4 DEF Commit, Write, Rename, KeepHash, Refuse, Advance, Drop, sink
<1>5. CASE \/ CatchUp \/ NextStream \/ Reset \/ ReadHead \/ GetKeeper \/ ReadEvent
           \/ \E s \in Streams : GetWriter(s)
  BY <1>1, <1>5 DEF CatchUp, NextStream, Reset, ReadHead, GetKeeper, ReadEvent, GetWriter, sink
<1>6. CASE Restart
  BY <1>1, <1>6 DEF Restart
<1> QED
  BY <1>1, <1>2, <1>3, <1>4, <1>5, <1>6 DEF Next

LEMMA HandFrame ==
  ASSUME IInv, Next, ~Restart, NEW q \in Procs,
         pc'[q] = pc[q], on'[q] = on[q], ev'[q] = ev[q]
  PROVE  HandInv(q)'
<1>1. HandInv(q)
  BY DEF IInv, HandsInv
<1>2. pc[q] \in Held \cup {"advance"} => on[q] \in Streams
  BY <1>1 DEF HandInv, InHand
<1>3. ASSUME pc[q] \in InHand PROVE ev[q] \in 1 .. Len(log'[on[q]])
  <2>1. on[q] \in Streams /\ ev[q] \in 1 .. Len(log[on[q]])
    BY <1>1, <1>3 DEF HandInv
  <2>2. Len(log[on[q]]) \in Nat /\ Len(log'[on[q]]) \in Nat
        /\ Len(log[on[q]]) <= Len(log'[on[q]])
    BY <2>1, Growth
  <2> QED
    BY <2>1, <2>2
<1> QED
  BY <1>1, <1>2, <1>3, Growth DEF HandInv

LEMMA HandsStep ==
  ASSUME IInv, Next
  PROVE  HandsInv'
<1>0. TypeOK /\ TypeOK'
  BY TypeStep DEF IInv
<1> USE DEF Held, InHand, Idle, Goto
<1>1. CASE Restart
  BY <1>1 DEF Restart, HandsInv, HandInv
<1>2. ASSUME ~Restart, NEW p \in Procs, Others(p), HandInv(p)' PROVE HandsInv'
  BY <1>2, HandFrame DEF Others, HandsInv
<1>3. ASSUME ~Restart, NEW p \in Procs, Others(p), pc'[p] \notin InHand PROVE HandsInv'
  BY <1>2, <1>3 DEF HandInv
<1>4. ASSUME ~Restart, NEW p \in Procs, Commit(p) PROVE HandsInv'
  <2>1. CASE Render(p)
    <3>1. /\ on' = on /\ ev' = ev /\ log' = log /\ streams' = Inserted(p) /\ Others(p)
          /\ pc[p] = "lock"
      BY <1>0, <2>1 DEF Render, local, Others, TypeOK
    <3>2. HandInv(p) /\ Inserted(p)[on[p]] # None
      BY <3>1, InsertedIs DEF IInv, HandsInv
    <3>3. HandInv(p)'
      BY <3>1, <3>2 DEF HandInv
    <3> QED
      BY <1>2, <1>4, <3>1, <3>3
  <2>2. CASE Write(p) \/ Rename(p) \/ KeepHash(p)
    <3>1. /\ on' = on /\ ev' = ev /\ log' = log /\ streams' = streams /\ Others(p)
          /\ pc[p] \in Held
      BY <1>0, <2>2 DEF Write, Rename, KeepHash, local, sink, Others, TypeOK
    <3>2. HandInv(p)
      BY DEF IInv, HandsInv
    <3>3. HandInv(p)'
      BY <3>1, <3>2 DEF HandInv
    <3> QED
      BY <1>2, <1>4, <3>1, <3>3
  <2>3. CASE Refuse(p)
    BY <1>0, <1>3, <1>4, <2>3, AfterCall DEF Refuse
  <2> QED
    BY <1>4, <2>1, <2>2, <2>3 DEF Commit
<1>5. ASSUME ~Restart, NEW p \in Procs, Advance(p) \/ Drop(p) PROVE HandsInv'
  <2>1. CASE Return(p) \/ GiveUp(p)
    BY <1>0, <1>3, <1>5, <2>1, AfterCall
  <2>2. CASE Goto(p, "read") /\ UNCHANGED <<on, ev>>
    BY <1>0, <1>3, <1>5, <2>2 DEF Others, TypeOK
  <2> QED
    BY <1>5, <2>1, <2>2 DEF Advance, Drop
<1>6. ASSUME ~Restart, NEW s \in Streams, GetWriter(s) PROVE HandsInv'
  <2>1. s \in Procs
    BY DEF Procs
  <2>2. CASE Return(s)
    BY <1>0, <1>3, <1>6, <2>1, <2>2, AfterCall
  <2>3. CASE Goto(s, "lock") /\ UNCHANGED <<on, ev>>
    <3>1. HandInv(s)
      BY <2>1 DEF IInv, HandsInv
    <3>2. /\ pc[s] = "get" /\ pc'[s] = "lock" /\ log' = log /\ on' = on /\ ev' = ev /\ Others(s)
      BY <1>0, <1>6, <2>1, <2>3 DEF GetWriter, Others, TypeOK
    <3>3. HandInv(s)'
      BY <3>1, <3>2 DEF HandInv
    <3> QED
      BY <1>2, <1>6, <2>1, <3>2, <3>3
  <2> QED
    BY <1>6, <2>2, <2>3 DEF GetWriter
<1>7. ASSUME ~Restart, NEW s \in Streams, NEW v \in Values, StoreAppends(s, v) PROVE HandsInv'
  <2>1. s \in Procs
    BY DEF Procs
  <2>2. /\ pc'[s] = "get" /\ on'[s] = s /\ ev'[s] = Len(log[s]) + 1 /\ Others(s)
        /\ log' = [log EXCEPT ![s] = Append(log[s], v)]
    BY <1>0, <1>7, <2>1 DEF StoreAppends, Others, TypeOK
  <2>3. Len(log'[s]) = Len(log[s]) + 1 /\ Len(log[s]) \in Nat
    BY <1>0, <2>2 DEF TypeOK
  <2>4. HandInv(s)'
    BY <2>2, <2>3 DEF HandInv
  <2> QED
    BY <1>2, <1>7, <2>1, <2>2, <2>4
<1>8. CASE ~Restart /\ ReadEvent
  <2>1. Keeper \in Procs
    BY DEF Procs
  <2>2. /\ on[Keeper] \in Streams /\ head <= Len(log[on[Keeper]])
        /\ cursor[Keeper] \in Nat /\ head \in Nat
    BY <1>0, <1>8, <2>1 DEF ReadEvent, IInv, WalkInv, Walking, TypeOK
  <2>3. Len(log[on[Keeper]]) \in Nat
    BY <2>2, Growth
  <2>4. Others(Keeper) /\ on' = on /\ log' = log
    BY <1>0, <1>8 DEF ReadEvent, Others, TypeOK
  <2>5. \/ pc'[Keeper] = "next"
        \/ /\ pc'[Keeper] = "lock" /\ cursor[Keeper] < head
           /\ ev'[Keeper] = cursor[Keeper] + 1
    BY <1>0, <1>8, <2>1 DEF ReadEvent, TypeOK
  <2>6. HandInv(Keeper)'
    BY <2>2, <2>3, <2>4, <2>5 DEF HandInv
  <2> QED
    BY <1>2, <1>8, <2>1, <2>4, <2>6
<1>9. CASE ~Restart /\ (CatchUp \/ NextStream \/ Reset \/ ReadHead \/ GetKeeper)
  <2>1. Keeper \in Procs
    BY DEF Procs
  <2>2. CASE Return(Keeper)
    BY <1>0, <1>3, <1>9, <2>1, <2>2, AfterCall
  <2>3. CASE ~Return(Keeper)
    <3>1. Others(Keeper) /\ pc'[Keeper] \in {"next", "reset", "head", "cursor", "read"}
      BY <1>0, <1>9, <2>1, <2>3
      DEF CatchUp, NextStream, Reset, ReadHead, GetKeeper, Others, TypeOK, local
    <3> QED
      BY <1>3, <1>9, <2>1, <3>1
  <2> QED
    BY <2>2, <2>3
<1> QED
  BY <1>1, <1>4, <1>5, <1>6, <1>7, <1>8, <1>9 DEF Next

\* Where the keeper's walk can be after a step that neither begins it, nor
\* takes it to another stream, nor resets a checkpoint.
LEMMA WalkIs ==
  ASSUME IInv, Next, ~CatchUp, ~NextStream, ~Reset, ~Restart
  PROVE  /\ UNCHANGED <<rebuilt, unreset>>
         /\ \/ pc'[Keeper] = Idle
            \/ /\ UNCHANGED <<todo, reset>> /\ on'[Keeper] = on[Keeper]
               /\ \/ pc'[Keeper] = pc[Keeper] /\ head' = head
                  \/ pc'[Keeper] = "next" /\ pc[Keeper] \in Walking
                  \/ /\ pc[Keeper] = "head" /\ pc'[Keeper] = "cursor"
                     /\ head' = Len(log[on[Keeper]])
                  \/ /\ pc[Keeper] \in Walking /\ pc'[Keeper] \in Walking
                     /\ head' = head
<1>0. TypeOK /\ Keeper \in Procs /\ Keeper \notin Streams
  BY CombinedAssumption DEF IInv, Procs
<1> USE DEF Idle, Goto, Walking, Held, TypeOK
<1>1. ASSUME NEW p \in Procs, Render(p) \/ Write(p) \/ Rename(p) \/ KeepHash(p)
      PROVE  /\ UNCHANGED <<rebuilt, unreset, todo, reset, head, on>>
             /\ \/ pc'[Keeper] = pc[Keeper]
                \/ pc[Keeper] \in Walking /\ pc'[Keeper] \in Walking
  BY <1>0, <1>1 DEF Render, Write, Rename, KeepHash, local, ghosts
<1>2. ASSUME NEW p \in Procs, Refuse(p) \/ Advance(p) \/ Drop(p)
      PROVE  UNCHANGED <<rebuilt, unreset>>
  BY <1>2 DEF Refuse, Advance, Drop, ghosts
<1>3. ASSUME NEW p \in Procs, Return(p) \/ GiveUp(p)
      PROVE  \/ pc'[Keeper] = Idle
             \/ UNCHANGED <<todo, reset, head>> /\ on'[Keeper] = on[Keeper]
  BY <1>0, <1>3, AfterCall DEF Others
<1>4. ASSUME NEW p \in Procs, Return(p) \/ GiveUp(p)
      PROVE  \/ pc'[Keeper] = Idle
             \/ pc'[Keeper] = pc[Keeper]
             \/ pc'[Keeper] = "next" /\ p = Keeper
  BY <1>0, <1>4, AfterCall DEF Others
<1>5. ASSUME NEW p \in Procs, Refuse(p) \/ Advance(p)
      PROVE  /\ pc[p] \in Walking
             /\ \/ Return(p) \/ GiveUp(p)
                \/ /\ p = Keeper /\ pc'[Keeper] = "read"
                   /\ UNCHANGED <<on, head, todo, reset>>
  BY <1>0, <1>5 DEF Refuse, Advance
<1>6. ASSUME NEW p \in Procs, Drop(p)
      PROVE  \/ pc'[Keeper] = Idle
             \/ /\ UNCHANGED <<todo, reset, head>> /\ on'[Keeper] = on[Keeper]
                /\ pc'[Keeper] = pc[Keeper]
  <2>1. Return(p)
    BY <1>6 DEF Drop
  <2>2. pc'[p] = Idle /\ Others(p) /\ (p # Keeper => UNCHANGED <<todo, reset, head>>)
    BY <1>0, <2>1, AfterCall DEF Return
  <2> QED
    BY <1>0, <2>2 DEF Others
<1>7. ASSUME NEW s \in Streams, GetWriter(s) \/ \E v \in Values : StoreAppends(s, v)
      PROVE  /\ UNCHANGED <<rebuilt, unreset, todo, reset, head>>
             /\ on'[Keeper] = on[Keeper] /\ pc'[Keeper] = pc[Keeper]
  BY <1>0, <1>7 DEF GetWriter, StoreAppends, Return, ghosts
<1>8. CASE ReadHead \/ GetKeeper \/ ReadEvent
  BY <1>0, <1>8 DEF ReadHead, GetKeeper, ReadEvent, ghosts
<1>9. CASE \E p \in Procs : Refuse(p) \/ Advance(p)
  BY <1>2, <1>3, <1>4, <1>5, <1>9
<1>10. CASE \E p \in Procs : Drop(p)
  BY <1>2, <1>6, <1>10
<1> QED
  BY <1>1, <1>7, <1>8, <1>9, <1>10 DEF Next, Commit

LEMMA WalkStep ==
  ASSUME IInv, Next
  PROVE  WalkInv'
<1>0. /\ TypeOK /\ WalkInv
      /\ \A s \in Streams : Len(log[s]) <= Len(log'[s])
                            /\ Len(log[s]) \in Nat /\ Len(log'[s]) \in Nat
      /\ head \in Nat /\ Keeper \in Procs
  BY Growth DEF IInv, TypeOK, Procs
<1> USE DEF Idle, Goto, Walking, Held
<1>1. CASE Restart
  BY <1>1 DEF Restart, WalkInv, Procs
<1>2. CASE CatchUp
  BY <1>0, <1>2 DEF CatchUp, WalkInv, TypeOK
<1>3. CASE NextStream
  BY <1>0, <1>3 DEF NextStream, Return, WalkInv, TypeOK
<1>4. CASE Reset
  BY <1>0, <1>4 DEF Reset, local, WalkInv, TypeOK
<1>5. CASE ~CatchUp /\ ~NextStream /\ ~Reset /\ ~Restart
  <2>1. CASE pc'[Keeper] = Idle
    BY <2>1 DEF WalkInv
  <2>2. CASE /\ pc[Keeper] \in Walking \cup {"reset", "head"} /\ on'[Keeper] = on[Keeper]
             /\ pc[Keeper] \in Walking => head' = head
             /\ pc[Keeper] # "reset" => head' \in {head, Len(log[on[Keeper]])}
             /\ pc'[Keeper] \in Walking => pc[Keeper] \in Walking \/ head' = Len(log[on[Keeper]])
    BY <1>0, <2>2 DEF WalkInv
  <2>3. CASE pc'[Keeper] = "next"
    BY <2>3 DEF WalkInv
  <2>4. CASE pc'[Keeper] = pc[Keeper] /\ pc[Keeper] \notin Walking \cup {"reset", "head"}
    BY <2>4 DEF WalkInv
  <2> QED
    BY <1>5, <2>1, <2>2, <2>3, <2>4, WalkIs
<1> QED
  BY <1>1, <1>2, <1>3, <1>4, <1>5

\* A checkpoint moves to an event of the log whose section is in the map, or
\* back to the start.
LEMMA KeptIs ==
  ASSUME IInv, Next, NEW s \in Streams
  PROVE  \/ kept'[s] = kept[s] \/ kept'[s] = 0
         \/ kept'[s] \in 1 .. Len(log[s]) /\ streams[s] # None
<1>0. TypeOK
  BY DEF IInv
<1>1. ASSUME NEW p \in Procs, Advance(p)
      PROVE  \/ kept'[s] = kept[s]
             \/ kept'[s] \in 1 .. Len(log[s]) /\ streams[s] # None
  <2>1. pc[p] = "advance" /\ kept' \in {kept, [kept EXCEPT ![on[p]] = ev[p]]}
    BY <1>1 DEF Advance, Covered
  <2>2. on[p] \in Streams /\ ev[p] \in 1 .. Len(log[on[p]]) /\ streams[on[p]] # None
    BY <2>1 DEF IInv, HandsInv, HandInv, InHand
  <2> QED
    BY <1>0, <2>1, <2>2 DEF TypeOK
<1>2. CASE Reset
  BY <1>0, <1>2 DEF Reset, TypeOK
<1>3. CASE \E p \in Procs : Commit(p) \/ Drop(p)
  BY <1>3 DEF Commit, Render, Write, Rename, KeepHash, Refuse, Drop
<1>4. CASE \/ CatchUp \/ NextStream \/ ReadHead \/ GetKeeper \/ ReadEvent \/ Restart
           \/ \E r \in Streams : GetWriter(r) \/ \E v \in Values : StoreAppends(r, v)
  BY <1>4 DEF CatchUp, NextStream, ReadHead, GetKeeper, ReadEvent, Restart, GetWriter,
              StoreAppends
<1> QED
  BY <1>1, <1>2, <1>3, <1>4 DEF Next

LEMMA PresentStays ==
  ASSUME IInv, Next, ~Restart, NEW s \in Streams, Present(s)
  PROVE  Present(s)'
BY KeptIs, Growth DEF Present

LEMMA RebuildStep ==
  ASSUME IInv, Next
  PROVE  RebuildInv'
<1>0. TypeOK /\ RebuildInv /\ TypeOK' /\ Keeper \in Procs
  BY TypeStep DEF IInv, Procs
<1>1. \A s \in Streams : kept'[s] <= Len(log'[s])
  <2> SUFFICES ASSUME NEW s \in Streams PROVE kept'[s] <= Len(log'[s])
    OBVIOUS
  <2>1. kept[s] <= Len(log[s]) /\ kept[s] \in Nat /\ kept'[s] \in Nat
    BY <1>0 DEF RebuildInv, TypeOK
  <2> QED
    BY <2>1, KeptIs, Growth
<1> USE DEF Idle, Goto
<1>2. CASE Restart
  BY <1>1, <1>2 DEF Restart, RebuildInv, Procs
<1>3. CASE CatchUp
  <2>1. /\ reset' = ~rebuilt /\ rebuilt' = rebuilt /\ unreset' = unreset
        /\ todo' = {s \in Streams : log[s] # <<>>} /\ ~Restart
    BY <1>3 DEF CatchUp, Escalates, ghosts, Restart
  <2>2. ASSUME NEW s \in Streams \ todo' PROVE Present(s)
    <3>1. log[s] = <<>> /\ kept[s] \in Nat
      BY <1>0, <2>1, <2>2 DEF TypeOK
    <3>2. Len(log[s]) = 0 /\ kept[s] <= Len(log[s])
      BY <1>0, <3>1 DEF RebuildInv
    <3> QED
      BY <3>1, <3>2 DEF Present
  <2>3. \A s \in Streams \ todo' : Present(s)'
    BY <2>1, <2>2, PresentStays
  <2>4. rebuilt' => \A s \in Streams \ unreset' : Present(s)'
    BY <1>0, <2>1, PresentStays DEF RebuildInv
  <2> QED
    BY <1>1, <2>1, <2>3, <2>4 DEF RebuildInv
<1>4. CASE NextStream /\ ~Restart
  <2>1. pc[Keeper] = "next" /\ unreset' = unreset
    BY <1>4 DEF NextStream, ghosts
  <2>2. \A s \in Streams \ (unreset \cup todo) : reset => Present(s)'
    BY <1>0, <1>4, <2>1, PresentStays DEF RebuildInv
  <2>3. rebuilt => \A s \in Streams \ unreset : Present(s)'
    BY <1>0, <1>4, PresentStays DEF RebuildInv
  <2>4. ~reset => rebuilt
    BY <1>0, <2>1 DEF RebuildInv
  <2>5. CASE todo = {} /\ rebuilt' = TRUE /\ Return(Keeper)
    <3>1. pc'[Keeper] = Idle
      BY <1>0, <2>5 DEF Return, TypeOK
    <3> QED
      BY <1>1, <2>1, <2>2, <2>3, <2>4, <2>5, <3>1 DEF RebuildInv
  <2>6. CASE ~ (todo = {} /\ rebuilt' = TRUE /\ Return(Keeper))
    <3>1. PICK r \in todo :
            /\ on' = [on EXCEPT ![Keeper] = r] /\ todo' = todo \ {r}
            /\ pc' = [pc EXCEPT ![Keeper] = IF reset THEN "reset" ELSE "head"]
            /\ reset' = reset /\ rebuilt' = rebuilt
      BY <1>4, <2>6 DEF NextStream
    <3>2. on'[Keeper] = r /\ pc'[Keeper] = IF reset THEN "reset" ELSE "head"
      BY <1>0, <3>1 DEF TypeOK
    <3> QED
      BY <1>1, <2>1, <2>2, <2>3, <2>4, <3>1, <3>2 DEF RebuildInv
  <2> QED
    BY <2>5, <2>6
<1>5. CASE Reset /\ ~Restart
  <2>1. /\ pc[Keeper] = "reset" /\ pc'[Keeper] = "head"
        /\ reset' = reset /\ rebuilt' = rebuilt /\ todo' = todo
    BY <1>0, <1>5 DEF Reset, local, TypeOK
  <2>2. PICK r \in Streams : r = on[Keeper]
    BY <2>1 DEF IInv, WalkInv
  <2>3. r \in unreset' \/ Present(r)'
    BY <1>0, <1>5, <2>2 DEF Reset, TypeOK, Present
  <2>4. \A s \in Streams : Present(s) => Present(s)'
    BY <1>5, PresentStays
  <2>5. unreset \subseteq unreset'
    BY <1>5 DEF Reset
  <2>6. rebuilt' => \A s \in Streams \ unreset' : Present(s)'
    BY <1>0, <2>1, <2>4, <2>5 DEF RebuildInv
  <2>7. reset' => \A s \in Streams \ (unreset' \cup todo') : Present(s)'
    BY <1>0, <2>1, <2>2, <2>3, <2>4, <2>5 DEF RebuildInv
  <2>8. ~reset' => rebuilt'
    BY <1>0, <2>1 DEF RebuildInv
  <2> QED
    BY <1>1, <2>6, <2>7, <2>8 DEF RebuildInv
<1>6. CASE ~CatchUp /\ ~NextStream /\ ~Reset /\ ~Restart
  <2>1. \A s \in Streams : Present(s) => Present(s)'
    BY <1>6, PresentStays
  <2>2. UNCHANGED <<rebuilt, unreset>>
    BY <1>6, WalkIs
  <2>3. \/ pc'[Keeper] = Idle
        \/ /\ UNCHANGED <<todo, reset>> /\ on'[Keeper] = on[Keeper] /\ pc[Keeper] # Idle
           /\ pc[Keeper] = "reset" => pc'[Keeper] = "reset"
    BY <1>6, WalkIs DEF Walking, Held
  <2> QED
    BY <1>0, <1>1, <2>1, <2>2, <2>3 DEF RebuildInv
<1> QED
  BY <1>2, <1>3, <1>4, <1>5, <1>6

-----------------------------------------------------------------------------
(* What holds of the file, for any streams, states and numbers of crashes. *)

\* The inductive invariant holds.
THEOREM Inductive == Spec => []IInv
<1>1. Init => IInv
  <2> SUFFICES ASSUME Init PROVE IInv
    OBVIOUS
  <2> USE DEF Init, NoStreams, Procs, Idle
  <2>1. TypeOK
    <3>1. clean \in BOOLEAN /\ unhashed \in BOOLEAN /\ rebuilt \in BOOLEAN /\ reset \in BOOLEAN
      BY Zenon
    <3>2. /\ pc \in [Procs -> Labels] /\ log \in [Streams -> Seq(Values)]
          /\ on \in [Procs -> Streams \cup {None}]
      BY DEF Labels
    <3> QED
      BY <3>1, <3>2 DEF TypeOK
  <2>2. MutexInv /\ FileInv
    BY CombinedAssumption DEF MutexInv, FileInv, Held
  <2>3. HandsInv /\ WalkInv
    BY DEF HandsInv, HandInv, WalkInv, InHand, Walking, Held
  <2>4. RebuildInv
    BY DEF RebuildInv
  <2> QED
    BY <2>1, <2>2, <2>3, <2>4 DEF IInv
<1>2. IInv /\ [Next]_vars => IInv'
  <2>1. ASSUME IInv, Next PROVE IInv'
    BY <2>1, TypeStep, MutexStep, FileStep, HandsStep, WalkStep, RebuildStep DEF IInv
  <2>2. ASSUME IInv, UNCHANGED vars PROVE IInv'
    BY <2>2 DEF vars, sink, disk, local, ghosts, IInv, TypeOK, MutexInv, FileInv, HandsInv,
                HandInv, WalkInv, RebuildInv, Present
  <2> QED
    BY <2>1, <2>2
<1> QED
  BY <1>1, <1>2, PTL DEF Spec

\* No reader ever sees a file that is not completely written.
THEOREM FileStaysWhole == Spec => []FileIsWhole
<1>1. IInv => FileIsWhole
  BY DEF IInv, FileInv, FileIsWhole
<1> QED
  BY <1>1, Inductive, PTL

\* After a commit that succeeded the file shows the map in memory.
THEOREM FileFollowsMap == Spec => []FileShowsMap
<1>1. IInv => FileShowsMap
  BY DEF IInv, FileInv, FileShowsMap
<1> QED
  BY <1>1, Inductive, PTL

\* A process that has caught up once has a section for every stream whose
\* checkpoint says so, although its map was empty when it started.
THEOREM NothingLost == Spec => []NothingTruncated
<1>1. IInv => NothingTruncated
  BY DEF IInv, FileInv, RebuildInv, Present, NothingTruncated
<1> QED
  BY <1>1, Inductive, PTL
=============================================================================
