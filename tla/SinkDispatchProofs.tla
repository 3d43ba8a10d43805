------------------------- MODULE SinkDispatchProofs -------------------------
(***************************************************************************)
(* No checkpoint skips an event, and no event comes with a state that is   *)
(* not its own: for any number of callers, calls of any kind, batches and  *)
(* logs of any size, with failures, dropped futures, compactions and       *)
(* restarts.                                                               *)
(***************************************************************************)
EXTENDS SinkDispatch, NaturalSets, FiniteSetTheorems

\* What a process holds in its local variables stays as it is.
Still(q) ==
  /\ pc'[q] = pc[q] /\ op'[q] = op[q] /\ head'[q] = head[q] /\ cursor'[q] = cursor[q]
  /\ ev'[q] = ev[q] /\ state'[q] = state[q] /\ todo'[q] = todo[q]

\* The sink's output, the boundary and the head do not go back.
Grows ==
  /\ delivered \subseteq delivered' /\ base <= base'
  /\ Guarded => shown <= shown'
  /\ \A m \in log : \E k \in log' : m <= k

\* A process has only its own sound position to show.
Sound(p) == IF p = Writer THEN WriterSound ELSE CallerSound(p)

-----------------------------------------------------------------------------
(* Lemmas on the invariant.                                                *)

LEMMA Constants ==
  /\ Writer \notin Callers /\ None \notin Nat /\ Batch \in Nat \ {0}
  /\ MaxSeq \in Nat /\ Seqs \subseteq Nat /\ 0 \in Seqs /\ None \notin Seqs
  /\ 1 .. MaxSeq \subseteq Seqs
BY SinkAssumption DEF Seqs

\* No checkpoint fits everything.
LEMMA ZeroFits == SharedTypes => Fit(0)
BY Constants DEF SharedTypes, Fit, Seqs

LEMMA FitKept ==
  ASSUME SharedTypes, SharedTypes', Grows, NEW c \in Seqs, Fit(c)
  PROVE  Fit(c)'
<1>1. /\ base \in Nat /\ base' \in Nat /\ shown \in Nat /\ shown' \in Nat /\ c \in Nat
      /\ base <= base' /\ delivered \subseteq delivered'
  BY Constants DEF SharedTypes, Grows
<1>2. ASSUME NEW n \in 1 .. c PROVE Delivered(n)' \/ n < base'
  BY <1>1 DEF Fit, Delivered
<1>3. Guarded => shown' >= c
  BY <1>1 DEF Fit, Grows
<1> QED
  BY <1>2, <1>3 DEF Fit

LEMMA FollowsKept ==
  ASSUME SharedTypes, SharedTypes', LocalTypes, Grows, NEW p \in Procs, NEW n \in Seqs,
         Follows(p, n), todo'[p] = todo[p]
  PROVE  Follows(p, n)'
<1>1. base \in Nat /\ base' \in Nat /\ base <= base' /\ todo[p] \subseteq Nat
  BY Constants DEF SharedTypes, LocalTypes, Grows
<1> QED
  BY <1>1 DEF Follows

LEMMA CallerKept ==
  ASSUME SharedTypes, LocalTypes, SharedTypes', Grows, NEW q \in Callers,
         CallerSound(q), Still(q)
  PROVE  CallerSound(q)'
<1>1. /\ q \in Procs /\ head[q] \in Nat /\ cursor[q] \in Seqs /\ ev[q] \in Seqs
      /\ cursor[q] \in Nat /\ ev[q] \in Nat /\ log \subseteq Nat /\ log' \subseteq Nat
      /\ base \in Nat /\ base' \in Nat /\ base <= base' /\ todo[q] \subseteq Nat
  <2>1. q \in Procs
    BY DEF Procs
  <2>2. head[q] \in Seqs /\ cursor[q] \in Seqs /\ ev[q] \in Seqs /\ todo[q] \subseteq 1 .. MaxSeq
    BY <2>1 DEF LocalTypes
  <2>3. /\ log \subseteq 1 .. MaxSeq /\ log' \subseteq 1 .. MaxSeq
        /\ base \in Seqs /\ base' \in Seqs /\ base <= base'
    BY DEF SharedTypes, Grows
  <2> QED
    BY <2>1, <2>2, <2>3, Constants
<1>2. /\ Fit(cursor[q]) => Fit(cursor[q])' /\ cursor'[q] = cursor[q]
      /\ Fit(ev[q]) => Fit(ev[q])' /\ ev'[q] = ev[q]
  <2>1. cursor'[q] = cursor[q] /\ ev'[q] = ev[q]
    BY DEF Still
  <2>2. \A c \in Seqs : Fit(c) => Fit(c)'
    BY FitKept
  <2> QED
    BY <1>1, <2>1, <2>2 DEF Fit, Delivered
<1>3. /\ Follows(q, cursor[q]) => Follows(q, cursor[q])'
      /\ Follows(q, ev[q]) => Follows(q, ev[q])'
  <2>1. todo'[q] = todo[q] /\ cursor'[q] = cursor[q] /\ ev'[q] = ev[q]
    BY DEF Still
  <2> QED
    BY <1>1, <2>1 DEF Follows
<1>4. InHand(q) => InHand(q)'
  <2> SUFFICES ASSUME InHand(q) PROVE InHand(q)'
    OBVIOUS
  <2>1. ev'[q] = ev[q] /\ cursor'[q] = cursor[q]
    BY DEF Still
  <2>2. \A n \in 1 .. ev'[q] : n <= cursor'[q] \/ n = ev'[q] \/ n < base'
    <3>1. \A n \in 1 .. ev[q] : n <= cursor[q] \/ n = ev[q] \/ n < base
      BY DEF InHand
    <3> QED
      BY <1>1, <2>1, <3>1
  <2>3. Fit(cursor[q])' /\ Follows(q, ev[q])'
    BY <1>2, <1>3 DEF InHand
  <2> QED
    BY <2>2, <2>3 DEF InHand
<1>5. /\ head[q] = 0 \/ (\E m \in log : head[q] <= m) =>
           head'[q] = 0 \/ \E m \in log' : head'[q] <= m
      /\ (\E m \in log : cursor[q] < m) => \E m \in log' : cursor'[q] < m
  <2>1. head'[q] = head[q] /\ cursor'[q] = cursor[q]
    BY DEF Still
  <2>2. \A m \in log : \E k \in log' : m <= k
    BY DEF Grows
  <2>3. ASSUME NEW m \in log, NEW n \in Nat, n <= m PROVE \E k \in log' : n <= k
    BY <1>1, <2>2, <2>3
  <2>4. ASSUME NEW m \in log, NEW n \in Nat, n < m PROVE \E k \in log' : n < k
    BY <1>1, <2>2, <2>4
  <2> QED
    BY <1>1, <2>1, <2>3, <2>4
<1> QED
  BY <1>2, <1>3, <1>4, <1>5 DEF CallerSound, Still

LEMMA WriterKept ==
  ASSUME SharedTypes, LocalTypes, SharedTypes', Grows, WriterSound, Still(Writer)
  PROVE  WriterSound'
<1>1. Writer \in Procs /\ cursor[Writer] \in Seqs /\ ev[Writer] \in Seqs
  BY DEF LocalTypes, Procs
<1>2. cursor'[Writer] = cursor[Writer] /\ ev'[Writer] = ev[Writer]
  BY DEF Still
<1>3. \A c \in Seqs : Fit(c) => Fit(c)'
  BY FitKept
<1>4. /\ Fit(cursor[Writer]) => Fit(cursor[Writer])'
      /\ Fit(ev[Writer]) => Fit(ev[Writer])'
  BY <1>1, <1>2, <1>3 DEF Fit, Delivered
<1> QED
  BY <1>4 DEF WriterSound, Still

\* Where one process moves, only its own position, the checkpoints and the log
\* have to be looked at.
LEMMA OneMoves ==
  ASSUME IInv, SharedTypes', LocalTypes', Grows, NEW p \in Procs,
         \A q \in Procs \ {p} : Still(q),
         Sound(p)',
         ~Persistent => saved' = 0,
         memory' # None => Fit(memory)',
         Fit(saved)',
         UNCHANGED <<log, base>>
  PROVE  IInv'
<1>1. Gapless' /\ (base' # 0 => base' \in log')
  BY DEF IInv, Gapless
<1>2. ASSUME NEW q \in Callers PROVE CallerSound(q)'
  BY CallerKept, Constants DEF IInv, Procs, Sound
<1>3. WriterSound'
  BY WriterKept, Constants DEF IInv, Procs, Sound
<1> QED
  BY <1>1, <1>2, <1>3 DEF IInv

\* Where the checkpoints and the sink are left alone, too.
LEMMA OnlyMoves ==
  ASSUME IInv, LocalTypes', NEW p \in Procs,
         \A q \in Procs \ {p} : Still(q),
         Sound(p)',
         live' \in BOOLEAN, rebuilt' \in BOOLEAN,
         UNCHANGED <<log, base, memory, saved, delivered, shown>>
  PROVE  IInv'
<1>1. SharedTypes' /\ Grows
  BY Constants DEF IInv, SharedTypes, Grows
<1>2. (memory' # None => Fit(memory)') /\ Fit(saved)' /\ (~Persistent => saved' = 0)
  BY DEF IInv, Fit, Delivered
<1> QED
  BY <1>1, <1>2, OneMoves

-----------------------------------------------------------------------------
(* Leaving a call.                                                         *)

LEMMA Returns ==
  ASSUME LocalTypes, NEW p \in Procs, Return(p)
  PROVE  LocalTypes' /\ (\A q \in Procs \ {p} : Still(q)) /\ Sound(p)'
<1> USE DEF LocalTypes, Return, Forget
<1>1. LocalTypes'
  <2>1. Idle \in Labels
    BY DEF Labels
  <2> QED
    BY <2>1, Constants
<1>2. \A q \in Procs \ {p} : Still(q)
  BY DEF Still
<1>3. pc'[p] = "idle" /\ head'[p] = 0
  BY DEF Idle
<1> QED
  BY <1>1, <1>2, <1>3 DEF Sound, WriterSound, CallerSound, Idle

LEMMA Completes ==
  ASSUME LocalTypes, SharedTypes, NEW p \in Procs, Complete(p)
  PROVE  /\ LocalTypes' /\ (\A q \in Procs \ {p} : Still(q)) /\ Sound(p)'
         /\ rebuilt' \in BOOLEAN
BY Returns DEF Complete, SharedTypes

LEMMA ReturnSound ==
  ASSUME IInv, NEW p \in Procs, Return(p),
         UNCHANGED <<log, base, live, memory, saved, rebuilt, delivered, shown>>
  PROVE  IInv'
<1>1. live' \in BOOLEAN /\ rebuilt' \in BOOLEAN
  BY DEF IInv, SharedTypes
<1> QED
  BY <1>1, Returns, OnlyMoves DEF IInv

LEMMA CompleteSound ==
  ASSUME IInv, NEW p \in Procs, Complete(p),
         UNCHANGED <<log, base, live, memory, saved, delivered, shown>>
  PROVE  IInv'
<1>1. live' \in BOOLEAN
  BY DEF IInv, SharedTypes
<1> QED
  BY <1>1, Completes, OnlyMoves DEF IInv

-----------------------------------------------------------------------------
(* The checkpoint.                                                         *)

LEMMA GotSound ==
  ASSUME IInv, NEW p \in Procs, pc[p] \in {"get", "insert"}, NEW c \in Seqs, Fit(c),
         Got(p, c), UNCHANGED <<log, base, delivered, shown>>
  PROVE  /\ LocalTypes' /\ (\A q \in Procs \ {p} : Still(q)) /\ Sound(p)'
         /\ rebuilt' \in BOOLEAN
<1> USE Constants
<1>1. CASE p = Writer /\ ev[p] > c
  <2>1. /\ cursor' = [cursor EXCEPT ![p] = c] /\ pc' = [pc EXCEPT ![p] = "sink"]
        /\ UNCHANGED <<rebuilt, op, head, ev, state, todo>>
    BY <1>1 DEF Got, Complete, Goto, othersOfCall, IInv, LocalTypes, Seqs
  <2>2. LocalTypes' /\ rebuilt' \in BOOLEAN /\ \A q \in Procs \ {p} : Still(q)
    BY <2>1 DEF IInv, LocalTypes, SharedTypes, Labels, Still
  <2>3. cursor'[p] = c /\ pc'[p] = "sink" /\ ev[p] # 0 /\ state[p] # None
    BY <1>1, <2>1 DEF IInv, LocalTypes, WriterSound, Idle
  <2>4. WriterSound'
    BY <1>1, <2>1, <2>3 DEF WriterSound, Fit, Delivered
  <2> QED
    BY <1>1, <2>2, <2>4 DEF Sound
<1>2. CASE p # Writer /\ c < head[p]
  <2>1. /\ cursor' = [cursor EXCEPT ![p] = c] /\ pc' = [pc EXCEPT ![p] = "read"]
        /\ UNCHANGED <<rebuilt, op, head, ev, state, todo>>
    BY <1>2 DEF Got, Complete, Goto, othersOfCall, IInv, LocalTypes, Seqs
  <2>2. LocalTypes' /\ rebuilt' \in BOOLEAN /\ \A q \in Procs \ {p} : Still(q)
    BY <2>1 DEF IInv, LocalTypes, SharedTypes, Labels, Still
  <2>3. cursor'[p] = c /\ pc'[p] = "read" /\ p \in Callers
    BY <1>2, <2>1 DEF IInv, LocalTypes, Procs
  <2>4. \E m \in log : head[p] <= m
    BY <1>2, <2>3 DEF IInv, CallerSound, LocalTypes, Seqs
  <2>5. \E m \in log : c < m
    <3>1. head[p] \in Nat /\ log \subseteq Nat
      BY DEF IInv, LocalTypes, SharedTypes
    <3> QED
      BY <1>2, <2>4, <3>1
  <2>6. CallerSound(p)'
    BY <2>1, <2>3, <2>4, <2>5 DEF CallerSound, Fit, Delivered
  <2> QED
    BY <1>2, <2>2, <2>6 DEF Sound
<1>3. CASE Complete(p)
  BY <1>3, Completes DEF IInv
<1> QED
  BY <1>1, <1>2, <1>3 DEF Got

LEMMA GetHitSound ==
  ASSUME IInv, NEW p \in Procs, GetHit(p)
  PROVE  IInv'
<1>1. memory \in Seqs /\ Fit(memory) /\ live \in BOOLEAN
  BY DEF IInv, GetHit, SharedTypes
<1>2. /\ pc[p] = "get" /\ Got(p, memory)
      /\ UNCHANGED <<log, base, live, memory, saved, delivered, shown>>
  BY DEF GetHit, logVars, sinkVars
<1> QED
  BY <1>1, <1>2, GotSound, OnlyMoves

LEMMA GetSavedSound ==
  ASSUME IInv, NEW p \in Procs, GetSaved(p)
  PROVE  IInv'
<1>1. PICK c \in {0, saved} : cursor' = [cursor EXCEPT ![p] = c]
  BY DEF GetSaved
<1>2. /\ pc[p] = "get" /\ pc' = [pc EXCEPT ![p] = "insert"]
      /\ UNCHANGED <<log, base, live, memory, saved, rebuilt, delivered, shown,
                     op, head, ev, state, todo>>
  BY DEF GetSaved, Goto, logVars, sinkVars, othersOfCall
<1>3. c \in Seqs /\ Fit(c)
  BY ZeroFits, Constants DEF IInv, SharedTypes
<1>4. LocalTypes' /\ \A q \in Procs \ {p} : Still(q)
  BY <1>1, <1>2, <1>3 DEF IInv, LocalTypes, Labels, Still
<1>5. cursor'[p] = c /\ pc'[p] = "insert"
  BY <1>1, <1>2 DEF IInv, LocalTypes
<1>6. Sound(p)'
  <2>1. CASE p = Writer
    BY <2>1, <1>2, <1>3, <1>5 DEF IInv, Sound, WriterSound, Fit, Delivered, Idle
  <2>2. CASE p # Writer
    BY <2>2, <1>2, <1>3, <1>5 DEF IInv, Procs, Sound, CallerSound, Fit, Delivered
  <2> QED
    BY <2>1, <2>2
<1>7. live' \in BOOLEAN /\ rebuilt' \in BOOLEAN
  BY <1>2 DEF IInv, SharedTypes
<1> QED
  BY <1>2, <1>4, <1>6, <1>7, OnlyMoves

LEMMA InsertSound ==
  ASSUME IInv, NEW p \in Procs, Insert(p)
  PROVE  IInv'
<1>1. pc[p] = "insert" /\ cursor[p] \in Seqs /\ Fit(cursor[p])
  BY Constants DEF IInv, Insert, LocalTypes, Procs, WriterSound, CallerSound
<1>2. /\ Got(p, cursor[p]) /\ UNCHANGED <<log, base, live, saved, delivered, shown>>
      /\ memory' = IF memory = None THEN cursor[p] ELSE memory
  BY DEF Insert, logVars, sinkVars
<1>3. /\ LocalTypes' /\ (\A q \in Procs \ {p} : Still(q)) /\ Sound(p)'
      /\ rebuilt' \in BOOLEAN
  BY <1>1, <1>2, GotSound
<1>4. SharedTypes' /\ Grows
  BY <1>1, <1>2, <1>3, Constants DEF IInv, SharedTypes, Grows
<1>5. memory' # None => Fit(memory)'
  BY <1>1, <1>2 DEF IInv, Fit, Delivered
<1>6. Fit(saved)' /\ (~Persistent => saved' = 0)
  BY <1>2 DEF IInv, Fit, Delivered
<1> QED
  BY <1>2, <1>3, <1>4, <1>5, <1>6, OneMoves

LEMMA PutSound ==
  ASSUME IInv, NEW p \in Procs, Put(p)
  PROVE  IInv'
<1>1. CASE Complete(p) /\ UNCHANGED saved
  BY <1>1, CompleteSound DEF Put, logVars, sinkVars
<1>2. CASE /\ saved' = IF Persistent THEN ev[p] ELSE saved
           /\ pc' = [pc EXCEPT ![p] = "advance"]
           /\ UNCHANGED <<rebuilt, localVars>>
  <2>1. /\ pc[p] = "put" /\ UNCHANGED <<log, base, live, memory, rebuilt, delivered, shown>>
        /\ UNCHANGED <<op, head, cursor, ev, state, todo>>
    BY <1>2 DEF Put, logVars, sinkVars, localVars
  <2>2. ev[p] \in Seqs /\ Fit(ev[p])
    BY <2>1, Constants DEF IInv, LocalTypes, Procs, WriterSound, CallerSound
  <2>3. LocalTypes' /\ \A q \in Procs \ {p} : Still(q)
    BY <1>2, <2>1 DEF IInv, LocalTypes, Labels, Still
  <2>4. pc'[p] = "advance"
    BY <1>2 DEF IInv, LocalTypes
  <2>5. Sound(p)'
    <3>1. CASE p = Writer
      BY <3>1, <2>1, <2>2, <2>4 DEF IInv, Sound, WriterSound, Fit, Delivered, Idle
    <3>2. CASE p # Writer
      BY <3>2, <2>1, <2>2, <2>4 DEF IInv, Procs, Sound, CallerSound, Fit, Delivered, Follows
    <3> QED
      BY <3>1, <3>2
  <2>6. SharedTypes' /\ Grows
    BY <1>2, <2>1, <2>2, Constants DEF IInv, SharedTypes, Grows
  <2>7. (memory' # None => Fit(memory)') /\ Fit(saved)' /\ (~Persistent => saved' = 0)
    BY <1>2, <2>1, <2>2 DEF IInv, Fit, Delivered
  <2> QED
    BY <2>1, <2>3, <2>5, <2>6, <2>7, OneMoves
<1> QED
  BY <1>1, <1>2 DEF Put, Goto

LEMMA AdvanceSound ==
  ASSUME IInv, NEW p \in Procs, Advance(p)
  PROVE  IInv'
<1>1. pc[p] = "advance" /\ ev[p] \in Seqs /\ Fit(ev[p]) /\ memory' = ev[p]
  BY Constants DEF IInv, Advance, LocalTypes, Procs, WriterSound, CallerSound
<1>2. UNCHANGED <<log, base, live, saved, delivered, shown>>
  BY DEF Advance, logVars, sinkVars
<1>3. /\ LocalTypes' /\ (\A q \in Procs \ {p} : Still(q)) /\ Sound(p)'
      /\ rebuilt' \in BOOLEAN
  <2>1. CASE Complete(p)
    BY <2>1, Completes DEF IInv
  <2>2. CASE /\ p # Writer /\ (todo[p] # {} \/ ev[p] < head[p])
             /\ CursorFollows(p)
             /\ Goto(p, IF todo[p] # {} THEN "state" ELSE "read")
             /\ UNCHANGED <<rebuilt, othersOfCall>>
    <3>1. /\ p \in Callers /\ cursor' = [cursor EXCEPT ![p] = ev[p]]
          /\ pc' = [pc EXCEPT ![p] = IF todo[p] # {} THEN "state" ELSE "read"]
          /\ UNCHANGED <<rebuilt, op, head, ev, state, todo>>
      BY <2>2 DEF CursorFollows, Goto, othersOfCall, Procs
    <3>2. LocalTypes' /\ rebuilt' \in BOOLEAN /\ \A q \in Procs \ {p} : Still(q)
      BY <1>1, <3>1, Constants DEF IInv, LocalTypes, SharedTypes, Labels, Still
    <3>3. /\ cursor'[p] = ev[p] /\ ev'[p] = ev[p] /\ head'[p] = head[p] /\ todo'[p] = todo[p]
          /\ pc'[p] = IF todo[p] # {} THEN "state" ELSE "read"
      BY <3>1 DEF IInv, LocalTypes
    <3>4. /\ head[p] = 0 \/ \E m \in log : head[p] <= m
          /\ Follows(p, ev[p])
      BY <1>1, <3>1 DEF IInv, CallerSound
    <3>5. todo[p] = {} => \E m \in log : ev[p] < m
      <4>1. head[p] \in Nat /\ log \subseteq Nat /\ ev[p] \in Nat
        BY <1>1, Constants DEF IInv, LocalTypes, SharedTypes
      <4> QED
        BY <2>2, <3>4, <4>1
    <3>6. Fit(cursor[p])' /\ Follows(p, cursor[p])'
      BY <1>1, <1>2, <3>3, <3>4 DEF Fit, Delivered, Follows
    <3>7. head'[p] = 0 \/ \E m \in log' : head'[p] <= m
      BY <1>2, <3>3, <3>4
    <3>8. pc'[p] = "read" => \E m \in log' : cursor'[p] < m
      BY <1>2, <3>3, <3>5
    <3>9. pc'[p] = "state" => todo'[p] # {}
      BY <3>3
    <3>10. pc'[p] \in {"state", "read"}
      BY <3>3
    <3>11. CallerSound(p)'
      BY <3>6, <3>7, <3>8, <3>9, <3>10 DEF CallerSound
    <3> QED
      BY <2>2, <3>2, <3>11 DEF Sound
  <2> QED
    BY <2>1, <2>2 DEF Advance
<1>4. SharedTypes' /\ Grows
  BY <1>1, <1>2, <1>3, Constants DEF IInv, SharedTypes, Grows
<1>5. Fit(memory)' /\ Fit(saved)' /\ (~Persistent => saved' = 0)
  BY <1>1, <1>2 DEF IInv, Fit, Delivered
<1> QED
  BY <1>2, <1>3, <1>4, <1>5, OneMoves

LEMMA ResetSound ==
  ASSUME IInv, NEW p \in Procs, Reset(p)
  PROVE  IInv'
<1>1. /\ pc[p] = "reset" /\ memory' = None
      /\ pc' = [pc EXCEPT ![p] = IF Persistent THEN "zero" ELSE "head"]
      /\ UNCHANGED <<log, base, live, saved, rebuilt, delivered, shown,
                     op, head, cursor, ev, state, todo>>
  BY DEF Reset, Goto, logVars, sinkVars, localVars
<1>2. LocalTypes' /\ \A q \in Procs \ {p} : Still(q)
  BY <1>1 DEF IInv, LocalTypes, Labels, Still
<1>3. p # Writer /\ p \in Callers /\ pc'[p] \in {"zero", "head"}
  BY <1>1 DEF IInv, LocalTypes, WriterSound, Procs, Idle
<1>4. head[p] = 0 \/ \E m \in log : head[p] <= m
  BY <1>3 DEF IInv, CallerSound
<1>5. Sound(p)'
  BY <1>1, <1>3, <1>4 DEF Sound, CallerSound
<1>6. SharedTypes' /\ Grows
  BY <1>1, Constants DEF IInv, SharedTypes, Grows
<1>7. Fit(saved)' /\ (~Persistent => saved' = 0)
  BY <1>1 DEF IInv, Fit, Delivered
<1> QED
  BY <1>1, <1>2, <1>5, <1>6, <1>7, OneMoves

LEMMA ZeroSound ==
  ASSUME IInv, NEW p \in Procs, Zero(p)
  PROVE  IInv'
<1>1. /\ pc[p] = "zero" /\ saved' \in {0, saved} /\ pc' = [pc EXCEPT ![p] = "head"]
      /\ UNCHANGED <<log, base, live, memory, rebuilt, delivered, shown,
                     op, head, cursor, ev, state, todo>>
  BY DEF Zero, Goto, logVars, sinkVars, localVars
<1>2. LocalTypes' /\ \A q \in Procs \ {p} : Still(q)
  BY <1>1 DEF IInv, LocalTypes, Labels, Still
<1>3. p # Writer /\ p \in Callers /\ pc'[p] = "head"
  BY <1>1 DEF IInv, LocalTypes, WriterSound, Procs, Idle
<1>4. head[p] = 0 \/ \E m \in log : head[p] <= m
  BY <1>3 DEF IInv, CallerSound
<1>5. Sound(p)'
  BY <1>1, <1>3, <1>4 DEF Sound, CallerSound
<1>6. SharedTypes' /\ Grows
  BY <1>1, Constants DEF IInv, SharedTypes, Grows
<1>7. Fit(0)'
  BY <1>6, ZeroFits, Constants DEF SharedTypes, Fit, Seqs
<1>8. (memory' # None => Fit(memory)') /\ Fit(saved)' /\ (~Persistent => saved' = 0)
  BY <1>1, <1>7 DEF IInv, Fit, Delivered
<1> QED
  BY <1>1, <1>2, <1>5, <1>6, <1>8, OneMoves

-----------------------------------------------------------------------------
(* The sink.                                                               *)

LEMMA DeliverSound ==
  ASSUME IInv, NEW p \in Procs, Deliver(p)
  PROVE  IInv'
<1>1. /\ pc[p] = "sink" /\ delivered' = delivered \cup {<<ev[p], state[p]>>}
      /\ shown' = Shows(ev[p])
      /\ UNCHANGED <<log, base, live, memory, saved>>
  BY DEF Deliver, logVars
<1>2. /\ ev[p] \in Seqs /\ ev[p] # 0 /\ state[p] \in Seqs /\ cursor[p] \in Seqs
      /\ shown \in Seqs /\ base \in Seqs
  <2>1. ev[p] \in Seqs /\ state[p] \in Seqs \cup {None} /\ cursor[p] \in Seqs
    BY DEF IInv, LocalTypes
  <2>2. ev[p] # 0 /\ state[p] # None
    BY <1>1 DEF IInv, WriterSound, CallerSound, Procs, Idle
  <2> QED
    BY <2>1, <2>2 DEF IInv, SharedTypes
<1>3. rebuilt' \in BOOLEAN
  BY <1>1 DEF IInv, SharedTypes, Deliver, Complete
<1>4. SharedTypes' /\ Grows
  <2>1. ev[p] \in 1 .. MaxSeq /\ shown' \in Seqs /\ (Guarded => shown <= shown')
    BY <1>1, <1>2, Constants DEF Seqs, Shows
  <2>2. \A m \in log : m <= m
    BY Constants DEF IInv, SharedTypes
  <2>3. base <= base' /\ \A m \in log : \E k \in log' : m <= k
    BY <1>1, <1>2, <2>2, Constants
  <2> QED
    BY <1>1, <1>2, <1>3, <2>1, <2>3 DEF IInv, SharedTypes, Grows
<1>5. \A c \in Seqs : Fit(c) => Fit(c)'
  BY <1>4, FitKept DEF IInv
<1>6. (memory' # None => Fit(memory)') /\ Fit(saved)' /\ (~Persistent => saved' = 0)
  <2>1. memory' = memory /\ saved' = saved
    BY <1>1
  <2>2. memory # None => memory \in Seqs /\ Fit(memory)
    BY DEF IInv, SharedTypes
  <2>3. saved \in Seqs /\ Fit(saved) /\ (~Persistent => saved = 0)
    BY DEF IInv, SharedTypes
  <2> QED
    BY <1>5, <2>1, <2>2, <2>3 DEF Fit, Delivered
<1>7. LocalTypes' /\ (\A q \in Procs \ {p} : Still(q)) /\ Sound(p)'
  <2>1. CASE Complete(p)
    BY <2>1, Completes DEF IInv
  <2>2. CASE Advances(p) /\ Goto(p, "put") /\ UNCHANGED <<rebuilt, localVars>>
    <3>1. /\ pc' = [pc EXCEPT ![p] = "put"]
          /\ UNCHANGED <<op, head, cursor, ev, state, todo>>
      BY <2>2 DEF Goto, localVars
    <3>2. LocalTypes' /\ \A q \in Procs \ {p} : Still(q)
      BY <3>1 DEF IInv, LocalTypes, Labels, Still
    <3>3. pc'[p] = "put"
      BY <3>1 DEF IInv, LocalTypes
    <3>4. /\ Fit(cursor[p])
          /\ p # Writer => Follows(p, ev[p])
          /\ \A n \in 1 .. ev[p] : n <= cursor[p] \/ n = ev[p] \/ n < base
      <4>1. CASE p = Writer
        <5>1. Fit(cursor[p]) /\ ev[p] = cursor[p] + 1
          BY <4>1, <1>1, <2>2 DEF IInv, WriterSound, Advances, Contiguous
        <5>2. \A n \in 1 .. ev[p] : n <= cursor[p] \/ n = ev[p]
          <6>1. ev[p] = cursor[p] + 1 /\ cursor[p] \in Nat
            BY <5>1, <1>2, Constants
          <6> QED
            BY <6>1
        <5> QED
          BY <4>1, <5>1, <5>2
      <4>2. CASE p # Writer
        BY <4>2, <1>1, <2>2 DEF IInv, Procs, CallerSound, Advances, InHand
      <4> QED
        BY <4>1, <4>2
    <3>5. Fit(ev[p])'
      <4>1. ASSUME NEW n \in 1 .. ev[p] PROVE Delivered(n)' \/ n < base
        <5>1. CASE n <= cursor[p]
          <6>1. n \in 1 .. cursor[p]
            BY <5>1, <1>2, Constants
          <6>2. Delivered(n) \/ n < base
            BY <3>4, <6>1 DEF Fit
          <6> QED
            BY <6>2, <1>1 DEF Delivered
        <5>2. CASE n = ev[p]
          <6>1. <<ev[p], state[p]>> \in delivered' /\ <<ev[p], state[p]>>[1] = n
            BY <5>2, <1>1
          <6> QED
            BY <6>1 DEF Delivered
        <5> QED
          BY <3>4, <5>1, <5>2
      <4>2. Guarded => shown' >= ev[p]
        <5>1. ev[p] \in Nat /\ shown \in Nat
          BY <1>2, Constants
        <5> QED
          BY <1>1, <5>1 DEF Shows
      <4>3. ev'[p] = ev[p] /\ base' = base
        BY <1>1, <3>1
      <4> QED
        BY <4>1, <4>2, <4>3 DEF Fit, Delivered
    <3>6. Sound(p)'
      <4>1. CASE p = Writer
        BY <4>1, <1>1, <3>1, <3>3, <3>5 DEF IInv, Sound, WriterSound, Idle
      <4>2. CASE p # Writer
        <5>1. Follows(p, ev[p])'
          BY <4>2, <1>1, <3>1, <3>4 DEF Follows
        <5>2. head'[p] = 0 \/ \E m \in log' : head'[p] <= m
          BY <4>2, <1>1, <3>1 DEF IInv, Procs, CallerSound
        <5> QED
          BY <4>2, <3>3, <3>5, <5>1, <5>2 DEF Sound, CallerSound
      <4> QED
        BY <4>1, <4>2
    <3> QED
      BY <3>2, <3>6
  <2> QED
    BY <2>1, <2>2 DEF Deliver
<1> QED
  BY <1>1, <1>4, <1>6, <1>7, OneMoves

LEMMA RefuseSound ==
  ASSUME IInv, NEW p \in Procs, Refuse(p)
  PROVE  IInv'
BY CompleteSound DEF Refuse, logVars, sinkVars

LEMMA GiveUpSound ==
  ASSUME IInv, NEW p \in Procs, GiveUp(p)
  PROVE  IInv'
BY ReturnSound DEF GiveUp, logVars, sinkVars

-----------------------------------------------------------------------------
(* The operators on sets of coordinates.                                   *)

LEMMA HeadIs ==
  ASSUME NEW S \in SUBSET (1 .. MaxSeq)
  PROVE  /\ HeadOf(S) \in Seqs
         /\ S = {} => HeadOf(S) = 0
         /\ S # {} => HeadOf(S) \in S
         /\ \A m \in S : m <= HeadOf(S)
<1>1. CASE S = {}
  BY <1>1, Constants DEF HeadOf
<1>2. CASE S # {}
  <2>1. \E n \in S : \A m \in S : m <= n
    <3>1. S \in SUBSET Nat /\ MaxSeq \in Nat /\ \A m \in S : m <= MaxSeq
      BY Constants
    <3> QED
      BY <1>2, <3>1, GreatestExists
  <2>2. HeadOf(S) \in S /\ \A m \in S : m <= HeadOf(S)
    BY <1>2, <2>1 DEF HeadOf
  <2> QED
    BY <1>2, <2>2, Constants
<1> QED
  BY <1>1, <1>2

LEMMA LeastIs ==
  ASSUME NEW S \in SUBSET (1 .. MaxSeq), S # {}
  PROVE  Least(S) \in S /\ \A m \in S : Least(S) <= m
<1>1. S \in SUBSET Nat
  BY Constants
<1> QED
  BY <1>1, LeastExists DEF Least

\* A read of a batch takes the first events there are, and at least one.
LEMMA FirstFewIs ==
  ASSUME NEW S \in SUBSET (1 .. MaxSeq), NEW k \in Nat \ {0}
  PROVE  /\ FirstFew(S, k) \subseteq S
         /\ S # {} => FirstFew(S, k) # {}
         /\ \A m \in FirstFew(S, k) : \A n \in S : n <= m => n \in FirstFew(S, k)
<1> DEFINE Below(n) == {m \in S : m < n}
<1>1. S \subseteq Nat
  BY Constants
<1>2. ASSUME NEW n PROVE IsFiniteSet(Below(n)) /\ Cardinality(Below(n)) \in Nat
  <2>1. IsFiniteSet(1 .. MaxSeq)
    BY Constants, FS_Interval
  <2>2. Below(n) \in SUBSET (1 .. MaxSeq)
    OBVIOUS
  <2>3. IsFiniteSet(Below(n))
    BY <2>1, <2>2, FS_Subset
  <2> QED
    BY <2>3, FS_CardinalityType
<1>3. FirstFew(S, k) = {n \in S : Cardinality(Below(n)) < k}
  BY DEF FirstFew
<1>4. S # {} => FirstFew(S, k) # {}
  <2> SUFFICES ASSUME S # {} PROVE FirstFew(S, k) # {}
    OBVIOUS
  <2>1. PICK n \in S : \A m \in S : n <= m
    BY <1>1, LeastExists
  <2>2. Below(n) = {}
    <3>1. n \in Nat /\ \A m \in S : m \in Nat /\ n <= m
      BY <1>1, <2>1
    <3>2. \A m \in S : ~ (m < n)
      BY <3>1
    <3> QED
      BY <3>2
  <2>3. Cardinality(Below(n)) = 0
    BY <2>2, FS_EmptySet
  <2> QED
    BY <1>3, <2>3
<1>5. ASSUME NEW m \in FirstFew(S, k), NEW n \in S, n <= m PROVE n \in FirstFew(S, k)
  <2>1. m \in S /\ Cardinality(Below(m)) < k
    BY <1>3
  <2>2. Below(n) \in SUBSET Below(m)
    <3>1. n \in Nat /\ m \in Nat /\ n <= m /\ \A j \in S : j \in Nat
      BY <1>1, <1>5, <2>1
    <3>2. \A j \in S : j < n => j < m
      BY <3>1
    <3> QED
      BY <3>2
  <2>3. Cardinality(Below(n)) <= Cardinality(Below(m))
    <3> HIDE DEF Below
    <3> QED
      BY <1>2, <2>2, FS_Subset
  <2>4. Cardinality(Below(n)) < k
    <3>1. Cardinality(Below(n)) \in Nat /\ Cardinality(Below(m)) \in Nat
      BY <1>2
    <3> HIDE DEF Below
    <3> QED
      BY <2>1, <2>3, <3>1
  <2> QED
    BY <1>3, <2>4
<1> QED
  BY <1>3, <1>4, <1>5

-----------------------------------------------------------------------------
(* The live dispatch.                                                      *)

LEMMA AppendSound ==
  ASSUME IInv, Append
  PROVE  IInv'
<1> DEFINE n == HeadOf(log) + 1
<1>1. /\ pc[Writer] = Idle /\ HeadOf(log) < MaxSeq /\ log' = log \cup {n}
      /\ ev' = [ev EXCEPT ![Writer] = n] /\ state' = [state EXCEPT ![Writer] = n]
      /\ pc' = [pc EXCEPT ![Writer] = "registry"]
      /\ UNCHANGED <<base, live, memory, saved, rebuilt, delivered, shown,
                     op, head, cursor, todo>>
  BY DEF Append, Goto, sinkVars
<1>2. /\ HeadOf(log) \in Nat /\ n \in 1 .. MaxSeq /\ n \in Seqs /\ n # 0 /\ n # None
      /\ \A m \in log : m <= HeadOf(log)
      /\ log = {} => HeadOf(log) = 0
      /\ log # {} => HeadOf(log) \in log
  <2>1. log \in SUBSET (1 .. MaxSeq)
    BY DEF IInv, SharedTypes
  <2>2. HeadOf(log) \in Nat /\ MaxSeq \in Nat
    BY <2>1, HeadIs, Constants
  <2>3. n \in 1 .. MaxSeq
    BY <1>1, <2>2
  <2> QED
    BY <2>1, <2>2, <2>3, HeadIs, Constants
<1> HIDE DEF n
<1>3. SharedTypes'
  BY <1>1, <1>2 DEF IInv, SharedTypes
<1>4. Grows
  <2>1. \A m \in log : m \in log' /\ m <= m
    BY <1>1, Constants DEF IInv, SharedTypes
  <2>2. base <= base' /\ shown <= shown'
    BY <1>1, Constants DEF IInv, SharedTypes
  <2> QED
    BY <1>1, <2>1, <2>2 DEF Grows
<1>5. LocalTypes' /\ \A q \in Procs \ {Writer} : Still(q)
  BY <1>1, <1>2 DEF IInv, LocalTypes, Labels, Still
<1>6. WriterSound'
  <2>1. ev'[Writer] = n /\ state'[Writer] = n /\ pc'[Writer] = "registry"
    BY <1>1 DEF IInv, LocalTypes, Procs
  <2> QED
    BY <1>2, <2>1 DEF WriterSound, Idle
<1>7. ASSUME NEW q \in Callers PROVE CallerSound(q)'
  BY <1>3, <1>4, <1>5, CallerKept, Constants DEF IInv, Procs
<1>8. Gapless'
  <2>1. ASSUME NEW m \in log', NEW j \in 1 .. m PROVE j \in log' \/ j < base
    <3>1. CASE m \in log
      BY <1>1, <3>1 DEF IInv, Gapless
    <3>2. CASE m = n /\ j = n
      BY <1>1, <3>2
    <3>3. CASE m = n /\ j # n
      <4>1. j \in 1 .. HeadOf(log)
        BY <1>2, <3>3 DEF n
      <4>2. HeadOf(log) \in log
        BY <1>2, <4>1
      <4> QED
        BY <1>1, <4>1, <4>2 DEF IInv, Gapless
    <3> QED
      BY <1>1, <3>1, <3>2, <3>3
  <2> QED
    BY <1>1, <2>1 DEF Gapless
<1>9. /\ memory' # None => Fit(memory)'
      /\ Fit(saved)' /\ (~Persistent => saved' = 0) /\ (base' # 0 => base' \in log')
  BY <1>1 DEF IInv, Fit, Delivered
<1> QED
  BY <1>3, <1>5, <1>6, <1>7, <1>8, <1>9 DEF IInv

LEMMA RegistrySound ==
  ASSUME IInv, Registry
  PROVE  IInv'
<1>1. Writer \in Procs /\ pc[Writer] = "registry"
  BY DEF Registry, Procs
<1>2. CASE Return(Writer)
  BY <1>1, <1>2, ReturnSound DEF Registry, logVars, sinkVars
<1>3. CASE Goto(Writer, "get") /\ UNCHANGED localVars
  <2>1. /\ pc' = [pc EXCEPT ![Writer] = "get"]
        /\ UNCHANGED <<log, base, live, memory, saved, rebuilt, delivered, shown,
                       op, head, cursor, ev, state, todo>>
    BY <1>3 DEF Registry, Goto, logVars, sinkVars, localVars
  <2>2. LocalTypes' /\ \A q \in Procs \ {Writer} : Still(q)
    BY <2>1 DEF IInv, LocalTypes, Labels, Still
  <2>3. pc'[Writer] = "get"
    BY <1>1, <2>1 DEF IInv, LocalTypes
  <2>4. Sound(Writer)'
    BY <1>1, <2>1, <2>3 DEF IInv, Sound, WriterSound, Idle
  <2>5. live' \in BOOLEAN /\ rebuilt' \in BOOLEAN
    BY <2>1 DEF IInv, SharedTypes
  <2> QED
    BY <1>1, <2>1, <2>2, <2>4, <2>5, OnlyMoves
<1> QED
  BY <1>2, <1>3 DEF Registry

-----------------------------------------------------------------------------
(* The calls.                                                              *)

\* The writer makes none of them.
LEMMA IsCaller ==
  ASSUME IInv, NEW p \in Procs,
         pc[p] \in {"begin", "enter", "reset", "zero", "head", "read", "state",
                    "boundary", "replay", "target"}
  PROVE  /\ p \in Callers /\ p # Writer
         /\ head[p] = 0 \/ \E m \in log : head[p] <= m
BY Constants DEF IInv, WriterSound, CallerSound, Procs, Idle

LEMMA CallSound ==
  ASSUME IInv, NEW p \in Callers, NEW o \in Ops, Call(p, o)
  PROVE  IInv'
<1>1. /\ pc[p] = "idle" /\ live' = (live \/ o = "attach")
      /\ op' = [op EXCEPT ![p] = o]
      /\ pc' = [pc EXCEPT ![p] = IF o = "materialize" THEN "target" ELSE "begin"]
      /\ UNCHANGED <<log, base, memory, saved, rebuilt, delivered, shown,
                     head, cursor, ev, state, todo>>
  BY DEF Call, Goto, Idle, logVars, sinkVars
<1>2. p \in Procs /\ p # Writer
  BY Constants DEF Procs
<1>3. LocalTypes' /\ \A q \in Procs \ {p} : Still(q)
  BY <1>1, <1>2 DEF IInv, LocalTypes, Labels, Still
<1>4. /\ op'[p] = o /\ pc'[p] \in {"target", "begin"}
      /\ pc'[p] = "target" => o = "materialize"
  BY <1>1, <1>2 DEF IInv, LocalTypes
<1>5. head[p] = 0 \/ \E m \in log : head[p] <= m
  BY DEF IInv, CallerSound
<1>6. Sound(p)'
  BY <1>1, <1>2, <1>4, <1>5 DEF Sound, CallerSound
<1>7. live' \in BOOLEAN /\ rebuilt' \in BOOLEAN
  BY <1>1 DEF IInv, SharedTypes
<1> QED
  BY <1>1, <1>2, <1>3, <1>6, <1>7, OnlyMoves

LEMMA DecideSound ==
  ASSUME IInv, NEW p \in Procs, Decide(p)
  PROVE  IInv'
<1>1. PICK o \in {"rebuild", op[p]} : op' = [op EXCEPT ![p] = o]
  BY DEF Decide
<1>2. /\ pc[p] = "begin" /\ pc' = [pc EXCEPT ![p] = "enter"]
      /\ UNCHANGED <<log, base, live, memory, saved, rebuilt, delivered, shown,
                     head, cursor, ev, state, todo>>
  BY DEF Decide, Goto, logVars, sinkVars
<1>3. p # Writer /\ (head[p] = 0 \/ \E m \in log : head[p] <= m)
  BY <1>2, IsCaller
<1>4. LocalTypes' /\ \A q \in Procs \ {p} : Still(q)
  BY <1>1, <1>2 DEF IInv, LocalTypes, Labels, Still
<1>5. pc'[p] = "enter"
  BY <1>2 DEF IInv, LocalTypes
<1>6. Sound(p)'
  BY <1>2, <1>3, <1>5 DEF Sound, CallerSound
<1>7. live' \in BOOLEAN /\ rebuilt' \in BOOLEAN
  BY <1>2 DEF IInv, SharedTypes
<1> QED
  BY <1>2, <1>4, <1>6, <1>7, OnlyMoves

LEMMA EnterSound ==
  ASSUME IInv, NEW p \in Procs, Enter(p)
  PROVE  IInv'
<1>1. CASE Complete(p)
  BY <1>1, CompleteSound DEF Enter, logVars, sinkVars
<1>2. CASE Goto(p, IF op[p] = "rebuild" THEN "reset" ELSE "head") /\ UNCHANGED <<rebuilt, localVars>>
  <2>1. /\ pc[p] = "enter"
        /\ pc' = [pc EXCEPT ![p] = IF op[p] = "rebuild" THEN "reset" ELSE "head"]
        /\ UNCHANGED <<log, base, live, memory, saved, rebuilt, delivered, shown,
                       op, head, cursor, ev, state, todo>>
    BY <1>2 DEF Enter, Goto, logVars, sinkVars, localVars
  <2>2. p # Writer /\ (head[p] = 0 \/ \E m \in log : head[p] <= m)
    BY <2>1, IsCaller
  <2>3. LocalTypes' /\ \A q \in Procs \ {p} : Still(q)
    BY <2>1 DEF IInv, LocalTypes, Labels, Still
  <2>4. pc'[p] \in {"reset", "head"}
    BY <2>1 DEF IInv, LocalTypes
  <2>5. Sound(p)'
    BY <2>1, <2>2, <2>4 DEF Sound, CallerSound
  <2>6. live' \in BOOLEAN /\ rebuilt' \in BOOLEAN
    BY <2>1 DEF IInv, SharedTypes
  <2> QED
    BY <2>1, <2>3, <2>5, <2>6, OnlyMoves
<1> QED
  BY <1>1, <1>2 DEF Enter

LEMMA ReadHeadSound ==
  ASSUME IInv, NEW p \in Procs, ReadHead(p)
  PROVE  IInv'
<1>1. /\ pc[p] = "head" /\ head' = [head EXCEPT ![p] = HeadOf(log)]
      /\ pc' = [pc EXCEPT ![p] = "get"]
      /\ UNCHANGED <<log, base, live, memory, saved, rebuilt, delivered, shown,
                     op, cursor, ev, state, todo>>
  BY DEF ReadHead, Goto, logVars, sinkVars
<1>2. p # Writer
  BY <1>1, IsCaller
<1>3. /\ HeadOf(log) \in Seqs
      /\ HeadOf(log) = 0 \/ \E m \in log : HeadOf(log) <= m
  <2>1. log \in SUBSET (1 .. MaxSeq)
    BY DEF IInv, SharedTypes
  <2> QED
    BY <2>1, HeadIs
<1>4. LocalTypes' /\ \A q \in Procs \ {p} : Still(q)
  BY <1>1, <1>3 DEF IInv, LocalTypes, Labels, Still
<1>5. pc'[p] = "get" /\ head'[p] = HeadOf(log)
  BY <1>1 DEF IInv, LocalTypes
<1>6. Sound(p)'
  BY <1>1, <1>2, <1>3, <1>5 DEF Sound, CallerSound
<1>7. live' \in BOOLEAN /\ rebuilt' \in BOOLEAN
  BY <1>1 DEF IInv, SharedTypes
<1> QED
  BY <1>1, <1>4, <1>6, <1>7, OnlyMoves

LEMMA ReadBatchSound ==
  ASSUME IInv, NEW p \in Procs, ReadBatch(p)
  PROVE  IInv'
<1> DEFINE Newer == {n \in log : n > cursor[p]}
           Taken == FirstFew(Newer, Batch)
<1>1. /\ pc[p] = "read" /\ todo' = [todo EXCEPT ![p] = Taken]
      /\ pc' = [pc EXCEPT ![p] = "state"]
      /\ UNCHANGED <<log, base, live, memory, saved, rebuilt, delivered, shown,
                     op, head, cursor, ev, state>>
  BY DEF ReadBatch, Goto, logVars, sinkVars
<1>2. /\ p \in Callers /\ p # Writer
      /\ head[p] = 0 \/ \E m \in log : head[p] <= m
  BY <1>1, IsCaller
<1>3. Fit(cursor[p]) /\ (\E m \in log : cursor[p] < m) /\ Gapless
  BY <1>1, <1>2 DEF IInv, CallerSound
<1>4. cursor[p] \in Nat /\ base \in Nat /\ log \in SUBSET (1 .. MaxSeq) /\ log \subseteq Nat
  BY Constants DEF IInv, LocalTypes, SharedTypes
<1>5. Newer \in SUBSET (1 .. MaxSeq) /\ Newer # {}
  BY <1>3, <1>4
<1>6. /\ Taken \subseteq Newer /\ Taken # {}
      /\ \A m \in Taken : \A n \in Newer : n <= m => n \in Taken
  <2> HIDE DEF Newer
  <2> QED
    BY <1>5, FirstFewIs, Constants
<1> HIDE DEF Taken
<1>7. LocalTypes' /\ \A q \in Procs \ {p} : Still(q)
  BY <1>1, <1>5, <1>6 DEF IInv, LocalTypes, Labels, Still
<1>8. pc'[p] = "state" /\ todo'[p] = Taken /\ cursor'[p] = cursor[p]
  BY <1>1 DEF IInv, LocalTypes
<1>9. ASSUME NEW m \in Taken
      PROVE  cursor[p] < m /\ \A k \in 1 .. m : k <= cursor[p] \/ k \in Taken \/ k < base
  <2>1. m \in log /\ m \in Nat /\ cursor[p] < m
    BY <1>4, <1>6
  <2>2. ASSUME NEW k \in 1 .. m PROVE k <= cursor[p] \/ k \in Taken \/ k < base
    <3>1. k \in Nat /\ k <= m /\ (k \in log \/ k < base)
      BY <1>3, <2>1 DEF Gapless
    <3>2. k \in log /\ ~ (k <= cursor[p]) => k \in Newer
      BY <1>4, <3>1
    <3> HIDE DEF Newer
    <3> QED
      BY <1>6, <3>1, <3>2
  <2> QED
    BY <2>1, <2>2
<1>10. Follows(p, cursor[p])'
  <2>1. base' = base
    BY <1>1
  <2> QED
    BY <1>8, <1>9, <2>1 DEF Follows
<1>11. Fit(cursor[p])'
  BY <1>1, <1>3, <1>8 DEF Fit, Delivered
<1>12. Sound(p)'
  BY <1>1, <1>2, <1>6, <1>8, <1>10, <1>11 DEF Sound, CallerSound
<1>13. live' \in BOOLEAN /\ rebuilt' \in BOOLEAN
  BY <1>1 DEF IInv, SharedTypes
<1> QED
  BY <1>1, <1>7, <1>12, <1>13, OnlyMoves

LEMMA TakeEventSound ==
  ASSUME IInv, NEW p \in Procs, TakeEvent(p)
  PROVE  IInv'
<1> DEFINE n == Least(todo[p])
<1>1. /\ pc[p] = "state"
      /\ UNCHANGED <<log, base, live, memory, saved, delivered, shown>>
  BY DEF TakeEvent, logVars, sinkVars
<1>2. /\ p \in Callers /\ p # Writer
      /\ head[p] = 0 \/ \E m \in log : head[p] <= m
  BY <1>1, IsCaller
<1>3. todo[p] # {} /\ Follows(p, cursor[p]) /\ Fit(cursor[p])
  BY <1>1, <1>2 DEF IInv, CallerSound
<1>4. todo[p] \in SUBSET (1 .. MaxSeq) /\ cursor[p] \in Nat /\ base \in Nat
  BY Constants DEF IInv, LocalTypes, SharedTypes
<1>5. n \in todo[p] /\ (\A m \in todo[p] : n <= m) /\ n \in Nat /\ n # 0 /\ n \in Seqs
  BY <1>3, <1>4, LeastIs, Constants
<1>6. \A m \in todo[p] : m \in Nat
  BY <1>4, Constants
<1>7. CASE Complete(p)
  BY <1>1, <1>7, CompleteSound
<1>8. CASE /\ ev' = [ev EXCEPT ![p] = n]
           /\ todo' = [todo EXCEPT ![p] = @ \ {n}]
           /\ IF state[p] = None
              THEN Goto(p, "boundary") /\ UNCHANGED state
              ELSE Goto(p, "sink") /\ state' = [state EXCEPT ![p] = StateFor(p, n)]
           /\ UNCHANGED <<rebuilt, op, head, cursor, snap>>
  <2> HIDE DEF n
  <2>1. /\ pc' = [pc EXCEPT ![p] = IF state[p] = None THEN "boundary" ELSE "sink"]
        /\ state' = [state EXCEPT ![p] = IF state[p] = None THEN None ELSE StateFor(p, n)]
    BY <1>8 DEF IInv, LocalTypes, Goto
  <2>2. StateFor(p, n) \in Seqs /\ StateFor(p, n) # None
    BY <1>5, Constants DEF StateFor
  <2>3. LocalTypes'
    BY <1>4, <1>5, <1>8, <2>1, <2>2 DEF IInv, LocalTypes, Labels
  <2>4. \A q \in Procs \ {p} : Still(q)
    BY <1>8, <2>1 DEF Still
  <2>5. /\ ev'[p] = n /\ todo'[p] = todo[p] \ {n} /\ cursor'[p] = cursor[p]
        /\ pc'[p] \in {"boundary", "sink"} /\ head'[p] = head[p]
        /\ pc'[p] = "sink" => state'[p] # None
    BY <1>8, <2>1, <2>2 DEF IInv, LocalTypes
  <2>6. \A j \in 1 .. n : j <= cursor[p] \/ j = n \/ j < base
    <3> SUFFICES ASSUME NEW j \in 1 .. n PROVE j <= cursor[p] \/ j = n \/ j < base
      OBVIOUS
    <3>1. j <= cursor[p] \/ j \in todo[p] \/ j < base
      BY <1>3, <1>5 DEF Follows
    <3>2. j \in todo[p] => j = n
      BY <1>5
    <3> QED
      BY <3>1, <3>2
  <2>7. ASSUME NEW m \in todo[p] \ {n}
        PROVE  n < m /\ \A k \in 1 .. m : k <= n \/ k \in todo[p] \ {n} \/ k < base
    <3>1. n < m
      BY <1>5, <1>6
    <3>2. ASSUME NEW k \in 1 .. m PROVE k <= n \/ k \in todo[p] \ {n} \/ k < base
      <4>1. k <= cursor[p] \/ k \in todo[p] \/ k < base
        BY <1>3 DEF Follows
      <4>2. cursor[p] < n
        BY <1>3, <1>5 DEF Follows
      <4>3. k <= cursor[p] => k <= n
        BY <1>4, <1>5, <4>2
      <4>4. k = n => k <= n
        BY <1>5
      <4> QED
        BY <4>1, <4>3, <4>4
    <3> QED
      BY <3>1, <3>2
  <2>8. InHand(p)'
    <3>1. Fit(cursor[p])'
      BY <1>1, <1>3, <2>5 DEF Fit, Delivered
    <3>2. Follows(p, ev[p])'
      BY <1>1, <2>5, <2>7 DEF Follows
    <3>3. \A j \in 1 .. ev'[p] : j <= cursor'[p] \/ j = ev'[p] \/ j < base'
      BY <1>1, <2>5, <2>6
    <3> QED
      BY <3>1, <3>2, <3>3 DEF InHand
  <2>9. Sound(p)'
    BY <1>1, <1>2, <1>5, <2>5, <2>8 DEF Sound, CallerSound
  <2>10. live' \in BOOLEAN /\ rebuilt' \in BOOLEAN
    BY <1>1, <1>8 DEF IInv, SharedTypes
  <2> QED
    BY <1>1, <2>3, <2>4, <2>9, <2>10, OnlyMoves
<1> QED
  BY <1>7, <1>8 DEF TakeEvent

LEMMA CheckBoundarySound ==
  ASSUME IInv, NEW p \in Procs, CheckBoundary(p)
  PROVE  IInv'
<1>1. CASE Return(p)
  BY <1>1, ReturnSound DEF CheckBoundary, logVars, sinkVars
<1>2. CASE Goto(p, "replay") /\ UNCHANGED localVars
  <2>1. /\ pc[p] = "boundary" /\ pc' = [pc EXCEPT ![p] = "replay"]
        /\ UNCHANGED <<log, base, live, memory, saved, rebuilt, delivered, shown,
                       op, head, cursor, ev, state, todo>>
    BY <1>2 DEF CheckBoundary, Goto, logVars, sinkVars, localVars
  <2>2. p \in Callers /\ p # Writer /\ (head[p] = 0 \/ \E m \in log : head[p] <= m)
    BY <2>1, IsCaller
  <2>3. LocalTypes' /\ \A q \in Procs \ {p} : Still(q)
    BY <2>1 DEF IInv, LocalTypes, Labels, Still
  <2>4. pc'[p] = "replay"
    BY <2>1 DEF IInv, LocalTypes
  <2>5. ev[p] # 0 /\ (op[p] # "materialize" => InHand(p))
    BY <2>1, <2>2 DEF IInv, CallerSound
  <2>6. InHand(p) => InHand(p)'
    BY <2>1 DEF InHand, Fit, Delivered, Follows
  <2>7. Sound(p)'
    BY <2>1, <2>2, <2>4, <2>5, <2>6 DEF Sound, CallerSound
  <2>8. live' \in BOOLEAN /\ rebuilt' \in BOOLEAN
    BY <2>1 DEF IInv, SharedTypes
  <2> QED
    BY <2>1, <2>3, <2>7, <2>8, OnlyMoves
<1> QED
  BY <1>1, <1>2 DEF CheckBoundary

LEMMA ReplaySound ==
  ASSUME IInv, NEW p \in Procs, Replay(p)
  PROVE  IInv'
<1>1. PICK s \in {ev[p], 0} : state' = [state EXCEPT ![p] = s]
  BY DEF Replay
<1>2. /\ pc[p] = "replay" /\ pc' = [pc EXCEPT ![p] = "sink"]
      /\ UNCHANGED <<log, base, live, memory, saved, rebuilt, delivered, shown,
                     op, head, cursor, ev, todo>>
  BY DEF Replay, Goto, logVars, sinkVars
<1>3. p \in Callers /\ p # Writer /\ (head[p] = 0 \/ \E m \in log : head[p] <= m)
  BY <1>2, IsCaller
<1>4. s \in Seqs /\ s # None
  BY Constants DEF IInv, LocalTypes
<1>5. LocalTypes' /\ \A q \in Procs \ {p} : Still(q)
  BY <1>1, <1>2, <1>4 DEF IInv, LocalTypes, Labels, Still
<1>6. pc'[p] = "sink" /\ state'[p] = s
  BY <1>1, <1>2 DEF IInv, LocalTypes
<1>7. ev[p] # 0 /\ (op[p] # "materialize" => InHand(p))
  BY <1>2, <1>3 DEF IInv, CallerSound
<1>8. InHand(p) => InHand(p)'
  BY <1>2 DEF InHand, Fit, Delivered, Follows
<1>9. Sound(p)'
  BY <1>2, <1>3, <1>4, <1>6, <1>7, <1>8 DEF Sound, CallerSound
<1>10. live' \in BOOLEAN /\ rebuilt' \in BOOLEAN
  BY <1>2 DEF IInv, SharedTypes
<1> QED
  BY <1>2, <1>5, <1>9, <1>10, OnlyMoves

LEMMA TargetSound ==
  ASSUME IInv, NEW p \in Procs, Target(p)
  PROVE  IInv'
<1>1. CASE Return(p)
  BY <1>1, ReturnSound DEF Target, logVars, sinkVars
<1>2. CASE /\ \E n \in 1 .. HeadOf(log) : ev' = [ev EXCEPT ![p] = n]
           /\ Goto(p, "boundary")
           /\ UNCHANGED <<op, head, cursor, state, todo, snap>>
  <2>1. PICK n \in 1 .. HeadOf(log) : ev' = [ev EXCEPT ![p] = n]
    BY <1>2
  <2>2. /\ pc[p] = "target" /\ pc' = [pc EXCEPT ![p] = "boundary"]
        /\ UNCHANGED <<log, base, live, memory, saved, rebuilt, delivered, shown,
                       op, head, cursor, state, todo>>
    BY <1>2 DEF Target, Goto, logVars, sinkVars
  <2>3. p \in Callers /\ p # Writer /\ (head[p] = 0 \/ \E m \in log : head[p] <= m)
    BY <2>2, IsCaller
  <2>4. n \in Seqs /\ n # 0
    <3>1. log \in SUBSET (1 .. MaxSeq)
      BY DEF IInv, SharedTypes
    <3>2. HeadOf(log) \in Seqs
      BY <3>1, HeadIs
    <3> QED
      BY <3>2, Constants DEF Seqs
  <2>5. LocalTypes' /\ \A q \in Procs \ {p} : Still(q)
    BY <2>1, <2>2, <2>4 DEF IInv, LocalTypes, Labels, Still
  <2>6. pc'[p] = "boundary" /\ ev'[p] = n
    BY <2>1, <2>2 DEF IInv, LocalTypes
  <2>7. op[p] = "materialize"
    BY <2>2, <2>3 DEF IInv, CallerSound
  <2>8. Sound(p)'
    BY <2>2, <2>3, <2>4, <2>6, <2>7 DEF Sound, CallerSound
  <2>9. live' \in BOOLEAN /\ rebuilt' \in BOOLEAN
    BY <2>2 DEF IInv, SharedTypes
  <2> QED
    BY <2>2, <2>5, <2>8, <2>9, OnlyMoves
<1> QED
  BY <1>1, <1>2 DEF Target

-----------------------------------------------------------------------------
(* What else happens.                                                      *)

LEMMA CompactSound ==
  ASSUME IInv, NEW k \in log, Compact(k)
  PROVE  IInv'
<1>1. /\ k > base /\ log' = {n \in log : n >= k} /\ base' = k
      /\ UNCHANGED <<live, memory, saved, rebuilt, delivered, shown, pc,
                     op, head, cursor, ev, state, todo>>
  BY DEF Compact, sinkVars, localVars
<1>2. k \in Nat /\ base \in Nat /\ k \in Seqs /\ \A n \in log : n \in Nat
  BY Constants DEF IInv, SharedTypes
<1>3. SharedTypes' /\ LocalTypes'
  BY <1>1, <1>2 DEF IInv, SharedTypes, LocalTypes
<1>4. Grows
  <2>1. \A m \in log : \E j \in log' : m <= j
    <3> SUFFICES ASSUME NEW m \in log PROVE \E j \in log' : m <= j
      OBVIOUS
    <3>1. CASE m >= k
      BY <1>1, <1>2, <3>1
    <3>2. CASE m < k
      <4>1. k \in log' /\ m <= k
        BY <1>1, <1>2, <3>2
      <4> QED
        BY <4>1
    <3> QED
      BY <1>2, <3>1, <3>2
  <2>2. shown <= shown'
    BY <1>1, Constants DEF IInv, SharedTypes
  <2> QED
    BY <1>1, <1>2, <2>1, <2>2 DEF Grows
<1>5. \A q \in Procs : Still(q)
  BY <1>1 DEF Still
<1>6. WriterSound' /\ \A q \in Callers : CallerSound(q)'
  BY <1>3, <1>4, <1>5, WriterKept, CallerKept DEF IInv, Procs
<1>7. Gapless' /\ (base' # 0 => base' \in log')
  <2>1. ASSUME NEW m \in log', NEW n \in 1 .. m PROVE n \in log' \/ n < k
    <3>1. m \in log /\ n \in Nat
      BY <1>1, <1>2
    <3>2. n \in log \/ n < base
      BY <3>1 DEF IInv, Gapless
    <3> QED
      BY <1>1, <1>2, <3>1, <3>2
  <2>2. k \in log'
    BY <1>1, <1>2
  <2> QED
    BY <1>1, <2>1, <2>2 DEF Gapless
<1>8. \A c \in Seqs : Fit(c) => Fit(c)'
  BY <1>3, <1>4, FitKept DEF IInv
<1>9. (memory' # None => Fit(memory)') /\ Fit(saved)' /\ (~Persistent => saved' = 0)
  <2>1. memory # None => memory \in Seqs /\ Fit(memory)
    BY DEF IInv, SharedTypes
  <2>2. saved \in Seqs /\ Fit(saved) /\ (~Persistent => saved = 0)
    BY DEF IInv, SharedTypes
  <2>3. memory' = memory /\ saved' = saved
    BY <1>1
  <2> QED
    BY <1>8, <2>1, <2>2, <2>3 DEF Fit, Delivered
<1> QED
  BY <1>3, <1>6, <1>7, <1>9 DEF IInv

\* A sink whose output goes with the process must not have a checkpoint that
\* stays.
LEMMA CrashSound ==
  ASSUME IInv, Crash, Static \in BOOLEAN, ~ (Ephemeral /\ Persistent)
  PROVE  IInv'
<1>1. /\ live' = Static /\ memory' = None /\ rebuilt' = FALSE
      /\ IF Ephemeral THEN delivered' = {} /\ shown' = 0
                      ELSE UNCHANGED <<delivered, shown>>
      /\ UNCHANGED <<log, base, saved>>
  BY DEF Crash, logVars, sinkVars
<1>2. /\ pc' = [p \in Procs |-> "idle"] /\ op' = [p \in Procs |-> "none"]
      /\ head' = [p \in Procs |-> 0] /\ cursor' = [p \in Procs |-> 0]
      /\ ev' = [p \in Procs |-> 0] /\ state' = [p \in Procs |-> None]
      /\ todo' = [p \in Procs |-> {}]
  BY DEF Crash, Idle
<1>3. SharedTypes'
  BY <1>1, Constants DEF IInv, SharedTypes
<1>4. LocalTypes'
  BY <1>2, Constants DEF LocalTypes, Labels, Idle
<1>5. WriterSound' /\ \A q \in Callers : CallerSound(q)'
  BY <1>2 DEF Procs, WriterSound, CallerSound, Idle
<1>6. Gapless' /\ (base' # 0 => base' \in log') /\ memory' = None
      /\ (~Persistent => saved' = 0)
  BY <1>1 DEF IInv, Gapless
<1>7. Fit(saved)'
  <2>1. CASE Ephemeral
    <3>1. saved' = 0
      BY <1>1, <2>1 DEF IInv
    <3> QED
      BY <1>3, <3>1, Constants DEF SharedTypes, Fit, Seqs
  <2>2. CASE ~Ephemeral
    BY <1>1, <2>2 DEF IInv, Fit, Delivered
  <2> QED
    BY <2>1, <2>2
<1> QED
  BY <1>3, <1>4, <1>5, <1>6, <1>7 DEF IInv

-----------------------------------------------------------------------------
(* The invariant, and what it says.                                        *)

LEMMA InitSound ==
  ASSUME Init
  PROVE  IInv
<1>1. SharedTypes
  BY SinkAssumption, Constants DEF Init, SharedTypes
<1>2. LocalTypes
  BY Constants DEF Init, LocalTypes, Labels, Idle
<1>3. WriterSound /\ \A q \in Callers : CallerSound(q)
  BY DEF Init, Procs, WriterSound, CallerSound, Idle
<1>4. Fit(0)
  BY <1>1, ZeroFits
<1> QED
  BY <1>1, <1>2, <1>3, <1>4 DEF Init, IInv, Gapless

LEMMA NextSound ==
  ASSUME IInv, [Next]_vars, ~ (Ephemeral /\ Persistent)
  PROVE  IInv'
<1>1. CASE UNCHANGED vars
  BY <1>1 DEF vars, logVars, sinkVars, localVars, IInv, SharedTypes, LocalTypes, Fit,
     Delivered, Gapless, WriterSound, CallerSound, InHand, Follows
<1>2. ASSUME NEW p \in Procs, Proceed(p) PROVE IInv'
  BY <1>2, GetHitSound, GetSavedSound, InsertSound, PutSound, AdvanceSound, ResetSound,
     ZeroSound, DeliverSound, RefuseSound, DecideSound, EnterSound, ReadHeadSound,
     ReadBatchSound, TakeEventSound, CheckBoundarySound, ReplaySound, TargetSound,
     RegistrySound DEF Proceed
<1>3. Static \in BOOLEAN
  BY SinkAssumption
<1> QED
  BY <1>1, <1>2, <1>3, GiveUpSound, CallSound, AppendSound, CompactSound, CrashSound
  DEF Next

\* The inductive invariant: the checkpoints, what every call has read and the
\* rest of its batch fit together at every await (dispatcher.rs, lifecycle.rs).
THEOREM SinkSound ==
  ASSUME ~ (Ephemeral /\ Persistent)
  PROVE  Spec => []IInv
<1>1. Init => IInv
  BY InitSound
<1>2. IInv /\ [Next]_vars => IInv'
  BY NextSound
<1> QED
  BY <1>1, <1>2, PTL DEF Spec

\* Neither the checkpoint in memory nor the saved one ever covers an event that
\* the sink has not taken and that is still in the log (dispatch_commit,
\* catch_up_inner), for any callers, batch size, failures, compactions and
\* restarts.
THEOREM SinkSkipsNothing ==
  ASSUME ~ (Ephemeral /\ Persistent)
  PROVE  Spec => []NothingSkipped
<1>1. IInv => NothingSkipped
  BY DEF IInv, NothingSkipped, Checkpoints, Fit
<1> QED
  BY <1>1, SinkSound, PTL

\* The output of a sink that ignores older events, as SqliteReadModel's upsert
\* does, is never behind the checkpoint.
THEOREM SinkOutputCovers ==
  ASSUME ~ (Ephemeral /\ Persistent), Guarded
  PROVE  Spec => []OutputCovers
<1>1. IInv => OutputCovers
  BY DEF IInv, OutputCovers, Checkpoints, Fit
<1> QED
  BY <1>1, SinkSound, PTL

\* Type correctness.
THEOREM SinkTypes ==
  ASSUME ~ (Ephemeral /\ Persistent)
  PROVE  Spec => []TypeOK
<1>1. IInv => TypeOK
  BY DEF IInv, SharedTypes, LocalTypes, TypeOK, Seqs
<1> QED
  BY <1>1, SinkSound, PTL

-----------------------------------------------------------------------------
(* The states the sink gets.                                               *)

Others(p) == \A q \in Procs \ {p} : Still(q) /\ snap'[q] = snap[q]

OwnState(p) ==
  IF p = Writer THEN pc[Writer] # Idle => state[Writer] = ev[Writer] ELSE StateSound(p)

LEMMA Numbers ==
  ASSUME IInv, NEW p \in Procs
  PROVE  /\ cursor[p] \in Nat /\ ev[p] \in Nat /\ ev[p] \in Seqs /\ cursor[p] \in Seqs
         /\ todo[p] \subseteq Nat /\ todo[p] \in SUBSET (1 .. MaxSeq)
         /\ base \in Nat /\ log \subseteq Nat
         /\ \A d \in delivered : d[1] \in Nat /\ d[2] \in Nat
         /\ (state[p] \in Nat \/ state[p] = None) /\ None \notin Nat
<1>1. /\ cursor[p] \in Seqs /\ ev[p] \in Seqs /\ todo[p] \in SUBSET (1 .. MaxSeq)
      /\ state[p] \in Seqs \cup {None}
  BY DEF IInv, LocalTypes
<1>2. base \in Seqs /\ log \subseteq 1 .. MaxSeq /\ delivered \subseteq (1 .. MaxSeq) \X Seqs
  BY DEF IInv, SharedTypes
<1>3. \A d \in delivered : d[1] \in 1 .. MaxSeq /\ d[2] \in Seqs
  BY <1>2
<1> QED
  BY <1>1, <1>2, <1>3, Constants

\* An excuse stays one.
LEMMA ExcuseStays ==
  ASSUME IInv, IInv', delivered \subseteq delivered', base <= base', NEW n, Excused(n)
  PROVE  \E e \in delivered' : e[1] <= n /\ e[1] # e[2] /\ e[1] < base'
<1>1. PICK e \in delivered : e[1] <= n /\ e[1] # e[2] /\ e[1] < base
  BY DEF Excused
<1>2. e[1] \in Nat /\ base \in Nat /\ base' \in Nat
  <2>1. e \in (1 .. MaxSeq) \X Seqs /\ base \in Seqs /\ base' \in Seqs
    BY DEF IInv, SharedTypes
  <2> QED
    BY <2>1, Constants
<1>3. e[1] < base'
  BY <1>1, <1>2
<1> QED
  BY <1>1, <1>3

LEMMA StateStays ==
  ASSUME IInv, IInv', delivered \subseteq delivered', base <= base', NEW q \in Callers,
         StateSound(q), Still(q), snap'[q] = snap[q]
  PROVE  StateSound(q)'
<1>1. \A n : Excused(n) => \E e \in delivered' : e[1] <= n /\ e[1] # e[2] /\ e[1] < base'
  BY ExcuseStays
<1>2. ev[q] < base => ev'[q] < base'
  <2>1. q \in Procs /\ ev'[q] = ev[q]
    BY DEF Still, Procs
  <2>2. ev[q] \in Nat /\ base \in Nat /\ base' \in Nat
    <3>1. base' \in Seqs
      BY DEF IInv, SharedTypes
    <3> QED
      BY <2>1, <3>1, Numbers, Constants
  <2> QED
    BY <2>1, <2>2
<1>3. /\ Excused(cursor[q]) => Excused(cursor[q])'
      /\ Excused(ev[q]) => Excused(ev[q])'
  BY <1>1 DEF Excused, Still
<1>4. /\ NoGap(q, cursor[q]) => NoGap(q, cursor[q])'
      /\ NoGap(q, ev[q]) => NoGap(q, ev[q])'
  BY DEF NoGap, Still
<1> QED
  BY <1>2, <1>3, <1>4 DEF StateSound, Still

LEMMA OnlyOwnState ==
  ASSUME IInv, IInv', StatesInv, NEW p \in Procs, Others(p), OwnState(p)',
         snap' \in [Procs -> Seqs], UNCHANGED <<log, base>>,
         delivered \subseteq delivered', RightState'
  PROVE  StatesInv'
<1>1. base <= base'
  BY Constants DEF IInv, SharedTypes
<1>2. ASSUME NEW q \in Callers PROVE StateSound(q)'
  <2>1. CASE q = p
    BY <2>1, Constants DEF OwnState
  <2>2. CASE q # p
    BY <1>1, <2>2, StateStays DEF StatesInv, Others, Procs
  <2> QED
    BY <2>1, <2>2
<1>3. (pc[Writer] # Idle => state[Writer] = ev[Writer])'
  <2>1. CASE p = Writer
    BY <2>1 DEF OwnState
  <2>2. CASE p # Writer
    BY <2>2 DEF StatesInv, Others, Still, Procs
  <2> QED
    BY <2>1, <2>2
<1>4. \A m \in log' : base' <= m
  BY DEF StatesInv
<1> QED
  BY <1>2, <1>3, <1>4 DEF StatesInv

LEMMA StateMove ==
  ASSUME IInv, IInv', StatesInv, NEW p \in Procs, Others(p), OwnState(p)',
         snap' \in [Procs -> Seqs], UNCHANGED <<log, base, delivered>>
  PROVE  StatesInv'
<1>1. RightState'
  BY DEF StatesInv, RightState
<1> QED
  BY <1>1, OnlyOwnState

\* A process goes on to another await.
LEMMA GoesTo ==
  ASSUME IInv, StatesInv, NEW p \in Procs, NEW label, pc' = [pc EXCEPT ![p] = label],
         UNCHANGED <<op, head, ev, state, todo, snap>>,
         UNCHANGED cursor \/ \E c : cursor' = [cursor EXCEPT ![p] = c]
  PROVE  Others(p) /\ pc'[p] = label /\ snap' \in [Procs -> Seqs]
BY DEF IInv, LocalTypes, StatesInv, Others, Still

LEMMA ReturnOwn ==
  ASSUME IInv, StatesInv, NEW p \in Procs, Return(p)
  PROVE  Others(p) /\ OwnState(p)' /\ snap' \in [Procs -> Seqs]
<1>1. Others(p) /\ snap' \in [Procs -> Seqs] /\ pc'[p] = Idle /\ state'[p] = None
  <2>1. \A q \in Procs \ {p} : Still(q)
    BY Returns DEF IInv
  <2> QED
    BY <2>1, Constants DEF IInv, LocalTypes, StatesInv, Others, Return, Forget
<1> QED
  BY <1>1 DEF OwnState, StateSound, Idle

LEMMA ReturnStates ==
  ASSUME IInv, IInv', StatesInv, NEW p \in Procs, Return(p), UNCHANGED <<log, base, delivered>>
  PROVE  StatesInv'
BY ReturnOwn, StateMove

LEMMA GotStates ==
  ASSUME IInv, IInv', StatesInv, NEW p \in Procs, pc[p] \in {"get", "insert"}, NEW c,
         Got(p, c), UNCHANGED <<log, base, delivered>>
  PROVE  StatesInv'
<1>1. CASE Complete(p)
  BY <1>1, ReturnStates DEF Complete
<1>2. CASE p = Writer /\ cursor' = [cursor EXCEPT ![p] = c] /\ Goto(p, "sink") /\ UNCHANGED othersOfCall
  <2>1. Others(p) /\ snap' \in [Procs -> Seqs]
    BY <1>2, GoesTo DEF Goto, othersOfCall
  <2>2. OwnState(p)'
    BY <1>2 DEF OwnState, StatesInv, othersOfCall, Idle
  <2> QED
    BY <2>1, <2>2, StateMove
<1>3. CASE p # Writer /\ cursor' = [cursor EXCEPT ![p] = c] /\ Goto(p, "read") /\ UNCHANGED othersOfCall
  <2>1. Others(p) /\ snap' \in [Procs -> Seqs] /\ pc'[p] = "read"
    BY <1>3, GoesTo DEF Goto, othersOfCall
  <2>2. state'[p] = None
    BY <1>3 DEF StatesInv, StateSound, Procs, othersOfCall
  <2>3. OwnState(p)'
    BY <1>3, <2>1, <2>2 DEF OwnState, StateSound, Idle
  <2> QED
    BY <2>1, <2>3, StateMove
<1> QED
  BY <1>1, <1>2, <1>3 DEF Got

\* Up to the first event of a batch there is no state in hand.
LEMMA BeforeTheBatch ==
  ASSUME IInv, IInv', StatesInv, NEW p \in Procs,
         NEW from \in {Idle, "begin", "enter", "reset", "zero", "head", "get", "target"},
         NEW to \in {"begin", "enter", "reset", "zero", "head", "get", "insert", "target"},
         pc[p] = from, p = Writer => from # Idle,
         Others(p), pc'[p] = to, snap' \in [Procs -> Seqs], state' = state, ev' = ev,
         UNCHANGED <<log, base, delivered>>
  PROVE  StatesInv'
<1>1. OwnState(p)'
  <2>1. CASE p = Writer
    BY <2>1 DEF StatesInv, OwnState
  <2>2. CASE p # Writer
    <3>1. state'[p] = None
      BY <2>2 DEF StatesInv, StateSound, Procs
    <3> QED
      BY <2>2, <3>1 DEF OwnState, StateSound, Idle
  <2> QED
    BY <2>1, <2>2
<1> QED
  BY <1>1, StateMove

LEMMA GetHitStates ==
  ASSUME IInv, IInv', StatesInv, NEW p \in Procs, GetHit(p)
  PROVE  StatesInv'
BY GotStates DEF GetHit, logVars, sinkVars

LEMMA GetSavedStates ==
  ASSUME IInv, IInv', StatesInv, NEW p \in Procs, GetSaved(p)
  PROVE  StatesInv'
<1>1. /\ pc[p] = "get" /\ pc' = [pc EXCEPT ![p] = "insert"]
      /\ \E c : cursor' = [cursor EXCEPT ![p] = c]
      /\ UNCHANGED <<log, base, delivered, op, head, ev, state, todo, snap>>
  BY DEF GetSaved, Goto, logVars, sinkVars, othersOfCall
<1>2. Others(p) /\ pc'[p] = "insert" /\ snap' \in [Procs -> Seqs]
  BY <1>1, GoesTo
<1> QED
  BY <1>1, <1>2, BeforeTheBatch DEF Idle

LEMMA InsertStates ==
  ASSUME IInv, IInv', StatesInv, NEW p \in Procs, Insert(p)
  PROVE  StatesInv'
BY GotStates DEF Insert, logVars, sinkVars

LEMMA PutStates ==
  ASSUME IInv, IInv', StatesInv, NEW p \in Procs, Put(p)
  PROVE  StatesInv'
<1>1. pc[p] = "put" /\ UNCHANGED <<log, base, delivered>>
  BY DEF Put, logVars, sinkVars
<1>2. CASE Complete(p)
  BY <1>1, <1>2, ReturnStates DEF Complete
<1>3. CASE Goto(p, "advance") /\ UNCHANGED localVars
  <2>1. Others(p) /\ pc'[p] = "advance" /\ snap' \in [Procs -> Seqs]
    BY <1>3, GoesTo DEF Goto, localVars
  <2>2. OwnState(p)'
    <3>1. CASE p = Writer
      BY <1>1, <1>3, <3>1 DEF StatesInv, OwnState, localVars, Idle
    <3>2. CASE p # Writer
      <4>1. (state[p] = ev[p] \/ Excused(ev[p])) /\ NoGap(p, ev[p])
        BY <1>1, <3>2 DEF StatesInv, StateSound, Procs
      <4>2. (state'[p] = ev'[p] \/ Excused(ev[p])') /\ NoGap(p, ev[p])'
        BY <1>1, <1>3, <4>1 DEF localVars, Excused, NoGap
      <4> QED
        BY <2>1, <3>2, <4>2 DEF OwnState, StateSound, Idle
    <3> QED
      BY <3>1, <3>2
  <2> QED
    BY <1>1, <2>1, <2>2, StateMove
<1> QED
  BY <1>2, <1>3 DEF Put

LEMMA AdvanceStates ==
  ASSUME IInv, IInv', StatesInv, NEW p \in Procs, Advance(p)
  PROVE  StatesInv'
<1>1. pc[p] = "advance" /\ UNCHANGED <<log, base, delivered>>
  BY DEF Advance, logVars, sinkVars
<1>2. CASE Complete(p)
  BY <1>1, <1>2, ReturnStates DEF Complete
<1>3. CASE /\ p # Writer /\ CursorFollows(p)
           /\ Goto(p, IF todo[p] # {} THEN "state" ELSE "read")
           /\ UNCHANGED othersOfCall
  <2>1. /\ Others(p) /\ snap' \in [Procs -> Seqs]
        /\ pc'[p] = IF todo[p] # {} THEN "state" ELSE "read"
    BY <1>3, GoesTo DEF Goto, CursorFollows, othersOfCall
  <2>2. cursor'[p] = ev[p] /\ UNCHANGED <<state, todo, snap>>
    BY <1>3 DEF CursorFollows, othersOfCall, IInv, LocalTypes
  <2>3. (state[p] = ev[p] \/ Excused(ev[p])) /\ NoGap(p, ev[p])
    BY <1>1, <1>3 DEF StatesInv, StateSound, Procs
  <2>4. (state'[p] = cursor'[p] \/ Excused(cursor[p])') /\ NoGap(p, cursor[p])'
    BY <1>1, <2>2, <2>3 DEF Excused, NoGap
  <2>5. OwnState(p)'
    BY <1>3, <2>1, <2>4 DEF OwnState, StateSound, Idle
  <2> QED
    BY <1>1, <2>1, <2>5, StateMove
<1> QED
  BY <1>2, <1>3 DEF Advance

LEMMA ResetStates ==
  ASSUME IInv, IInv', StatesInv, NEW p \in Procs, Reset(p)
  PROVE  StatesInv'
<1> DEFINE to == IF Persistent THEN "zero" ELSE "head"
<1>1. pc[p] = "reset" /\ Goto(p, to) /\ UNCHANGED <<log, base, delivered, localVars>>
  BY DEF Reset, logVars, sinkVars
<1>2. Others(p) /\ pc'[p] = to /\ snap' \in [Procs -> Seqs]
  BY <1>1, GoesTo DEF Goto, localVars
<1> QED
  BY <1>1, <1>2, BeforeTheBatch DEF localVars, Idle

LEMMA ZeroStates ==
  ASSUME IInv, IInv', StatesInv, NEW p \in Procs, Zero(p)
  PROVE  StatesInv'
<1>1. pc[p] = "zero" /\ Goto(p, "head") /\ UNCHANGED <<log, base, delivered, localVars>>
  BY DEF Zero, logVars, sinkVars
<1>2. Others(p) /\ pc'[p] = "head" /\ snap' \in [Procs -> Seqs]
  BY <1>1, GoesTo DEF Goto, localVars
<1> QED
  BY <1>1, <1>2, BeforeTheBatch DEF localVars, Idle

LEMMA CallStates ==
  ASSUME IInv, IInv', StatesInv, NEW p \in Callers, NEW o \in Ops, Call(p, o)
  PROVE  StatesInv'
<1> DEFINE to == IF o = "materialize" THEN "target" ELSE "begin"
<1>1. /\ pc[p] = Idle /\ pc' = [pc EXCEPT ![p] = to] /\ op' = [op EXCEPT ![p] = o]
      /\ UNCHANGED <<log, base, delivered, head, cursor, ev, state, todo, snap>>
  BY DEF Call, Goto, logVars, sinkVars
<1>2. p \in Procs /\ p # Writer
  BY Constants DEF Procs
<1>3. Others(p) /\ pc'[p] = to /\ snap' \in [Procs -> Seqs]
  BY <1>1, <1>2 DEF IInv, LocalTypes, StatesInv, Others, Still
<1> QED
  BY <1>1, <1>2, <1>3, BeforeTheBatch

LEMMA DecideStates ==
  ASSUME IInv, IInv', StatesInv, NEW p \in Procs, Decide(p)
  PROVE  StatesInv'
<1>1. PICK o \in {"rebuild", op[p]} : op' = [op EXCEPT ![p] = o]
  BY DEF Decide
<1>2. /\ pc[p] = "begin" /\ pc' = [pc EXCEPT ![p] = "enter"]
      /\ UNCHANGED <<log, base, delivered, head, cursor, ev, state, todo, snap>>
  BY DEF Decide, Goto, logVars, sinkVars
<1>3. Others(p) /\ pc'[p] = "enter" /\ snap' \in [Procs -> Seqs]
  BY <1>1, <1>2 DEF IInv, LocalTypes, StatesInv, Others, Still
<1> QED
  BY <1>2, <1>3, BeforeTheBatch DEF Idle

LEMMA EnterStates ==
  ASSUME IInv, IInv', StatesInv, NEW p \in Procs, Enter(p)
  PROVE  StatesInv'
<1> DEFINE to == IF op[p] = "rebuild" THEN "reset" ELSE "head"
<1>1. pc[p] = "enter" /\ UNCHANGED <<log, base, delivered>>
  BY DEF Enter, logVars, sinkVars
<1>2. CASE Complete(p)
  BY <1>1, <1>2, ReturnStates DEF Complete
<1>3. CASE Goto(p, to) /\ UNCHANGED localVars
  <2>1. Others(p) /\ pc'[p] = to /\ snap' \in [Procs -> Seqs]
    BY <1>3, GoesTo DEF Goto, localVars
  <2> QED
    BY <1>1, <1>3, <2>1, BeforeTheBatch DEF localVars, Idle
<1> QED
  BY <1>2, <1>3 DEF Enter

LEMMA ReadHeadStates ==
  ASSUME IInv, IInv', StatesInv, NEW p \in Procs, ReadHead(p)
  PROVE  StatesInv'
<1>1. /\ pc[p] = "head" /\ head' = [head EXCEPT ![p] = HeadOf(log)]
      /\ pc' = [pc EXCEPT ![p] = "get"]
      /\ UNCHANGED <<log, base, delivered, op, cursor, ev, state, todo, snap>>
  BY DEF ReadHead, Goto, logVars, sinkVars
<1>2. Others(p) /\ pc'[p] = "get" /\ snap' \in [Procs -> Seqs]
  BY <1>1 DEF IInv, LocalTypes, StatesInv, Others, Still
<1> QED
  BY <1>1, <1>2, BeforeTheBatch DEF Idle

-----------------------------------------------------------------------------
(* The states of a batch.                                                  *)

LEMMA RegistryStates ==
  ASSUME IInv, IInv', StatesInv, Registry
  PROVE  StatesInv'
<1>1. Writer \in Procs /\ pc[Writer] = "registry" /\ UNCHANGED <<log, base, delivered>>
  BY DEF Registry, Procs, logVars, sinkVars
<1>2. CASE Return(Writer)
  BY <1>1, <1>2, ReturnStates
<1>3. CASE Goto(Writer, "get") /\ UNCHANGED localVars
  <2>1. Others(Writer) /\ snap' \in [Procs -> Seqs]
    BY <1>1, <1>3, GoesTo DEF Goto, localVars
  <2>2. OwnState(Writer)'
    BY <1>1, <1>3 DEF StatesInv, OwnState, localVars, Idle
  <2> QED
    BY <1>1, <2>1, <2>2, StateMove
<1> QED
  BY <1>2, <1>3 DEF Registry

LEMMA AppendStates ==
  ASSUME IInv, IInv', StatesInv, Append
  PROVE  StatesInv'
<1> DEFINE n == HeadOf(log) + 1
<1>1. /\ log' = log \cup {n}
      /\ ev' = [ev EXCEPT ![Writer] = n] /\ state' = [state EXCEPT ![Writer] = n]
      /\ pc' = [pc EXCEPT ![Writer] = "registry"]
      /\ UNCHANGED <<base, delivered, op, head, cursor, todo, snap>>
  BY DEF Append, Goto, sinkVars
<1>2. ev'[Writer] = state'[Writer]
  BY <1>1 DEF IInv, LocalTypes, Procs
<1>3. ASSUME NEW q \in Callers PROVE StateSound(q)'
  <2>1. Still(q) /\ snap'[q] = snap[q]
    BY <1>1, Constants DEF IInv, LocalTypes, Procs, Still
  <2>2. base <= base'
    BY <1>1, Constants DEF IInv, SharedTypes
  <2> QED
    BY <1>1, <2>1, <2>2, StateStays DEF StatesInv
<1>4. \A m \in log' : base' <= m
  <2>1. log \in SUBSET (1 .. MaxSeq) /\ base \in Nat /\ log \subseteq Nat
    BY Constants DEF IInv, SharedTypes
  <2>2. HeadOf(log) \in Nat /\ (log # {} => HeadOf(log) \in log) /\ (base # 0 => base \in log)
    BY <2>1, HeadIs, Constants DEF IInv
  <2>3. base <= n
    <3>1. CASE log = {}
      BY <2>1, <2>2, <3>1
    <3>2. CASE log # {}
      <4>1. base <= HeadOf(log)
        BY <2>2, <3>2 DEF StatesInv
      <4> QED
        BY <2>1, <2>2, <4>1
    <3> QED
      BY <3>1, <3>2
  <2> QED
    BY <1>1, <2>3 DEF StatesInv
<1>5. RightState' /\ snap' \in [Procs -> Seqs]
  BY <1>1 DEF StatesInv, RightState
<1> QED
  BY <1>2, <1>3, <1>4, <1>5 DEF StatesInv

\* A batch has no gap after the cursor but the one before the snapshot.
LEMMA ReadBatchStates ==
  ASSUME IInv, IInv', StatesInv, NEW p \in Procs, ReadBatch(p)
  PROVE  StatesInv'
<1> DEFINE Newer == {n \in log : n > cursor[p]}
           Taken == FirstFew(Newer, Batch)
<1>1. /\ pc[p] = "read" /\ todo' = [todo EXCEPT ![p] = Taken]
      /\ pc' = [pc EXCEPT ![p] = "state"] /\ snap' = [snap EXCEPT ![p] = base]
      /\ UNCHANGED <<log, base, delivered, op, head, cursor, ev, state>>
  BY DEF ReadBatch, Goto, logVars, sinkVars
<1>2. p \in Callers /\ p # Writer
  BY <1>1, IsCaller
<1>3. /\ cursor[p] \in Nat /\ base \in Nat /\ base \in Seqs
      /\ log \in SUBSET (1 .. MaxSeq) /\ log \subseteq Nat /\ \A m \in log : m >= 1
  <2>1. cursor[p] \in Nat /\ base \in Nat /\ log \subseteq Nat
    BY Numbers
  <2>2. base \in Seqs /\ log \in SUBSET (1 .. MaxSeq)
    BY DEF IInv, SharedTypes
  <2>3. \A m \in 1 .. MaxSeq : m >= 1
    BY Constants
  <2> QED
    BY <2>1, <2>2, <2>3
<1>4. Newer \in SUBSET (1 .. MaxSeq)
  BY <1>3
<1>5. /\ Taken \subseteq Newer
      /\ \A m \in Taken : \A n \in Newer : n <= m => n \in Taken
  <2> HIDE DEF Newer
  <2> QED
    BY <1>4, FirstFewIs, Constants
<1> HIDE DEF Taken
<1>6. ASSUME NEW m \in Taken PROVE m = cursor[p] + 1 \/ m = base \/ m - 1 \in Taken
  <2>1. m \in log /\ m \in Nat /\ m >= 1 /\ cursor[p] < m /\ base <= m
    BY <1>3, <1>5 DEF StatesInv
  <2>2. SUFFICES ASSUME m # cursor[p] + 1, m # base PROVE m - 1 \in Taken
    OBVIOUS
  <2>3. m - 1 \in 1 .. m /\ ~ (m - 1 < base) /\ m - 1 > cursor[p] /\ m - 1 <= m
    BY <1>3, <2>1, <2>2
  <2>4. m - 1 \in log
    BY <2>1, <2>3 DEF IInv, Gapless
  <2>5. m - 1 \in Newer
    BY <2>3, <2>4
  <2> HIDE DEF Newer
  <2> QED
    BY <1>5, <2>3, <2>5
<1>7. Others(p) /\ snap' \in [Procs -> Seqs]
  BY <1>1, <1>3 DEF IInv, LocalTypes, StatesInv, Others, Still
<1>8. /\ pc'[p] = "state" /\ todo'[p] = Taken /\ snap'[p] = base
      /\ cursor'[p] = cursor[p] /\ state'[p] = state[p]
  BY <1>1 DEF IInv, LocalTypes, StatesInv
<1>9. NoGap(p, cursor[p])'
  BY <1>6, <1>8 DEF NoGap
<1>10. state'[p] \in {None, cursor'[p]} \/ Excused(cursor[p])'
  BY <1>1, <1>2, <1>8 DEF StatesInv, StateSound, Excused
<1>11. OwnState(p)'
  BY <1>2, <1>8, <1>9, <1>10 DEF OwnState, StateSound, Idle
<1> QED
  BY <1>1, <1>7, <1>11, StateMove

LEMMA TakeEventStates ==
  ASSUME IInv, IInv', StatesInv, NEW p \in Procs, TakeEvent(p)
  PROVE  StatesInv'
<1> DEFINE n == Least(todo[p])
<1>1. pc[p] = "state" /\ UNCHANGED <<log, base, delivered>>
  BY DEF TakeEvent, logVars, sinkVars
<1>2. p \in Callers /\ p # Writer
  BY <1>1, IsCaller
<1>3. CASE Complete(p)
  BY <1>1, <1>3, ReturnStates DEF Complete
<1>4. CASE /\ ev' = [ev EXCEPT ![p] = n]
           /\ todo' = [todo EXCEPT ![p] = @ \ {n}]
           /\ IF state[p] = None
              THEN Goto(p, "boundary") /\ UNCHANGED state
              ELSE Goto(p, "sink") /\ state' = [state EXCEPT ![p] = StateFor(p, n)]
           /\ UNCHANGED <<rebuilt, op, head, cursor, snap>>
  <2>1. /\ todo[p] # {} /\ \A m \in todo[p] : cursor[p] < m
        /\ cursor[p] \in Nat /\ todo[p] \subseteq Nat /\ todo[p] \in SUBSET (1 .. MaxSeq)
        /\ \A d \in delivered : d[1] \in Nat
    BY <1>1, <1>2, Numbers DEF IInv, CallerSound, Follows
  <2>2. n \in todo[p] /\ (\A m \in todo[p] : n <= m) /\ n \in Nat /\ cursor[p] < n
    BY <2>1, LeastIs
  <2>3. /\ state[p] \in {None, cursor[p]} \/ Excused(cursor[p])
        /\ NoGap(p, cursor[p])
    BY <1>1, <1>2 DEF StatesInv, StateSound
  <2> HIDE DEF n
  <2>4. n = cursor[p] + 1 \/ n = snap[p]
    <3>1. n - 1 \notin todo[p]
      BY <2>2
    <3> QED
      BY <2>2, <2>3, <3>1 DEF NoGap
  <2>5. ASSUME NEW m \in todo[p] \ {n}
        PROVE  m = n + 1 \/ m = snap[p] \/ m - 1 \in todo[p] \ {n}
    <3>1. m \in Nat /\ n < m
      BY <2>1, <2>2
    <3>2. m # cursor[p] + 1
      BY <2>1, <2>2, <3>1
    <3>3. m = snap[p] \/ m - 1 \in todo[p]
      BY <2>3, <3>2 DEF NoGap
    <3>4. m - 1 = n => m = n + 1
      BY <2>2, <3>1
    <3> QED
      BY <3>3, <3>4
  <2>6. /\ ev'[p] = n /\ todo'[p] = todo[p] \ {n} /\ snap' = snap
        /\ pc'[p] = IF state[p] = None THEN "boundary" ELSE "sink"
        /\ state'[p] = IF state[p] = None THEN None ELSE StateFor(p, n)
    BY <1>4 DEF Goto, IInv, LocalTypes
  <2>7. NoGap(p, ev[p])'
    BY <2>5, <2>6 DEF NoGap
  <2>8. Excused(cursor[p]) => Excused(n)
    <3>1. \A d \in delivered : d[1] <= cursor[p] => d[1] <= n
      BY <2>1, <2>2
    <3> QED
      BY <3>1 DEF Excused
  <2>9. state[p] # None => StateFor(p, n) = n \/ Excused(n)
    BY <2>3, <2>4, <2>8 DEF StateFor
  <2>10. Excused(n) => Excused(ev[p])'
    BY <1>1, <2>6 DEF Excused
  <2>11. OwnState(p)'
    BY <1>2, <2>6, <2>7, <2>9, <2>10 DEF OwnState, StateSound, Idle
  <2>12. Others(p)
    <3>1. CASE state[p] = None
      BY <1>4, <3>1 DEF Goto, Others, Still, IInv, LocalTypes
    <3>2. CASE state[p] # None
      BY <1>4, <3>2 DEF Goto, Others, Still, IInv, LocalTypes
    <3> QED
      BY <3>1, <3>2
  <2>13. snap' \in [Procs -> Seqs]
    BY <2>6 DEF StatesInv
  <2> QED
    BY <1>1, <2>11, <2>12, <2>13, StateMove
<1> QED
  BY <1>3, <1>4 DEF TakeEvent

LEMMA CheckBoundaryStates ==
  ASSUME IInv, IInv', StatesInv, NEW p \in Procs, CheckBoundary(p)
  PROVE  StatesInv'
<1>1. pc[p] = "boundary" /\ UNCHANGED <<log, base, delivered>>
  BY DEF CheckBoundary, logVars, sinkVars
<1>2. p \in Callers /\ p # Writer
  BY <1>1, IsCaller
<1>3. CASE Return(p)
  BY <1>1, <1>3, ReturnStates
<1>4. CASE Goto(p, "replay") /\ UNCHANGED localVars
  <2>1. Others(p) /\ pc'[p] = "replay" /\ snap' \in [Procs -> Seqs]
    BY <1>4, GoesTo DEF Goto, localVars
  <2>2. state[p] = None /\ (op[p] # "materialize" => NoGap(p, ev[p]))
    BY <1>1, <1>2 DEF StatesInv, StateSound
  <2>3. state'[p] = None /\ (op'[p] # "materialize" => NoGap(p, ev[p])')
    BY <1>4, <2>2 DEF localVars, NoGap
  <2>4. OwnState(p)'
    BY <1>2, <2>1, <2>3 DEF OwnState, StateSound, Idle
  <2> QED
    BY <1>1, <2>1, <2>4, StateMove
<1> QED
  BY <1>3, <1>4 DEF CheckBoundary

LEMMA ReplayStates ==
  ASSUME IInv, IInv', StatesInv, NEW p \in Procs, Replay(p)
  PROVE  StatesInv'
<1>1. PICK s : state' = [state EXCEPT ![p] = s] /\ (s = ev[p] \/ ev[p] < base)
  BY DEF Replay
<1>2. /\ pc[p] = "replay" /\ pc' = [pc EXCEPT ![p] = "sink"]
      /\ UNCHANGED <<log, base, delivered, op, head, cursor, ev, todo, snap>>
  BY DEF Replay, Goto, logVars, sinkVars
<1>3. p \in Callers /\ p # Writer
  BY <1>2, IsCaller
<1>4. Others(p) /\ pc'[p] = "sink" /\ state'[p] = s /\ snap' \in [Procs -> Seqs]
  BY <1>1, <1>2 DEF IInv, LocalTypes, StatesInv, Others, Still
<1>5. state'[p] = ev'[p] \/ ev'[p] < base'
  BY <1>1, <1>2, <1>4
<1>6. op'[p] # "materialize" => NoGap(p, ev[p])'
  BY <1>2, <1>3 DEF StatesInv, StateSound, NoGap
<1>7. OwnState(p)'
  BY <1>3, <1>4, <1>5, <1>6 DEF OwnState, StateSound, Idle
<1> QED
  BY <1>2, <1>4, <1>7, StateMove

LEMMA TargetStates ==
  ASSUME IInv, IInv', StatesInv, NEW p \in Procs, Target(p)
  PROVE  StatesInv'
<1>1. pc[p] = "target" /\ UNCHANGED <<log, base, delivered>>
  BY DEF Target, logVars, sinkVars
<1>2. p \in Callers /\ p # Writer
  BY <1>1, IsCaller
<1>3. CASE Return(p)
  BY <1>1, <1>3, ReturnStates
<1>4. CASE /\ \E n \in 1 .. HeadOf(log) : ev' = [ev EXCEPT ![p] = n]
           /\ Goto(p, "boundary")
           /\ UNCHANGED <<op, head, cursor, state, todo, snap>>
  <2>1. Others(p) /\ pc'[p] = "boundary" /\ snap' \in [Procs -> Seqs]
    BY <1>4 DEF Goto, IInv, LocalTypes, StatesInv, Others, Still
  <2>2. op'[p] = "materialize"
    BY <1>1, <1>2, <1>4 DEF IInv, CallerSound
  <2>3. state'[p] = None
    BY <1>1, <1>2, <1>4 DEF StatesInv, StateSound
  <2>4. OwnState(p)'
    BY <1>2, <2>1, <2>2, <2>3 DEF OwnState, StateSound, Idle
  <2> QED
    BY <1>1, <2>1, <2>4, StateMove
<1> QED
  BY <1>3, <1>4 DEF Target

\* A wrong state is delivered of an event that has been compacted, or after one.
LEMMA DeliverStates ==
  ASSUME IInv, IInv', StatesInv, NEW p \in Procs, Deliver(p)
  PROVE  StatesInv'
<1> DEFINE new == <<ev[p], state[p]>>
<1>1. pc[p] = "sink" /\ delivered' = delivered \cup {new} /\ UNCHANGED <<log, base>>
  BY DEF Deliver, logVars
<1>2. state[p] = ev[p] \/ ev[p] < base \/ Excused(ev[p])
  BY <1>1 DEF StatesInv, StateSound, Procs, Idle
<1>3. ev[p] \in Nat /\ ev[p] <= ev[p] /\ new[1] = ev[p] /\ new[2] = state[p]
  BY Numbers
<1>4. state[p] = ev[p] \/ \E e \in delivered' : e[1] <= ev[p] /\ e[1] # e[2] /\ e[1] < base'
  <2>1. CASE state[p] = ev[p]
    BY <2>1
  <2>2. CASE ev[p] < base /\ state[p] # ev[p]
    <3>1. new \in delivered' /\ new[1] <= ev[p] /\ new[1] # new[2] /\ new[1] < base'
      BY <1>1, <1>3, <2>2
    <3> QED
      BY <3>1
  <2>3. CASE Excused(ev[p])
    BY <1>1, <2>3 DEF Excused
  <2> QED
    BY <1>2, <2>1, <2>2, <2>3
<1>5. RightState'
  <2> SUFFICES ASSUME NEW d \in delivered', d[1] # d[2]
               PROVE  \E e \in delivered' : e[1] <= d[1] /\ e[1] # e[2] /\ e[1] < base'
    BY DEF RightState
  <2>1. CASE d \in delivered
    BY <1>1, <2>1 DEF StatesInv, RightState
  <2>2. CASE d = new
    BY <1>3, <1>4, <2>2
  <2> QED
    BY <1>1, <2>1, <2>2
<1>6. Others(p) /\ OwnState(p)' /\ snap' \in [Procs -> Seqs]
  <2>1. CASE Complete(p)
    BY <2>1, ReturnOwn DEF Complete
  <2>2. CASE Advances(p) /\ Goto(p, "put") /\ UNCHANGED localVars
    <3>1. Others(p) /\ pc'[p] = "put" /\ snap' \in [Procs -> Seqs]
      BY <2>2, GoesTo DEF Goto, localVars
    <3>2. CASE p = Writer
      BY <1>1, <2>2, <3>1, <3>2 DEF StatesInv, OwnState, localVars, Idle
    <3>3. CASE p # Writer
      <4>1. NoGap(p, ev[p])
        BY <1>1, <2>2, <3>3 DEF StatesInv, StateSound, Procs, Advances
      <4>2. NoGap(p, ev[p])' /\ (state'[p] = ev'[p] \/ Excused(ev[p])')
        BY <1>4, <2>2, <4>1 DEF localVars, NoGap, Excused
      <4>3. OwnState(p)'
        BY <3>1, <3>3, <4>2 DEF OwnState, StateSound, Idle
      <4> QED
        BY <3>1, <4>3
    <3> QED
      BY <3>1, <3>2, <3>3
  <2> QED
    BY <2>1, <2>2 DEF Deliver
<1> QED
  BY <1>1, <1>5, <1>6, OnlyOwnState

LEMMA RefuseStates ==
  ASSUME IInv, IInv', StatesInv, NEW p \in Procs, Refuse(p) \/ GiveUp(p)
  PROVE  StatesInv'
BY ReturnStates DEF Refuse, GiveUp, Complete, logVars, sinkVars

LEMMA CompactStates ==
  ASSUME IInv, IInv', StatesInv, NEW k \in log, Compact(k)
  PROVE  StatesInv'
<1>1. /\ k > base /\ log' = {n \in log : n >= k} /\ base' = k
      /\ UNCHANGED <<delivered, pc, op, head, cursor, ev, state, todo, snap>>
  BY DEF Compact, sinkVars, localVars
<1>2. /\ k \in Nat /\ base \in Nat /\ (\A n \in log : n \in Nat)
      /\ \A d \in delivered : d[1] \in Nat
  BY Numbers DEF Procs
<1>3. \A m \in log' : base' <= m
  BY <1>1, <1>2
<1>4. RightState'
  <2>1. \A d \in delivered : d[1] < base => d[1] < k
    BY <1>1, <1>2
  <2> QED
    BY <1>1, <2>1 DEF StatesInv, RightState
<1>5. ASSUME NEW q \in Callers PROVE StateSound(q)'
  <2>1. Still(q) /\ snap'[q] = snap[q] /\ base <= base'
    BY <1>1, <1>2 DEF Still
  <2> QED
    BY <1>1, <2>1, StateStays DEF StatesInv
<1> QED
  BY <1>1, <1>3, <1>4, <1>5 DEF StatesInv

LEMMA CrashStates ==
  ASSUME IInv, StatesInv, Crash
  PROVE  StatesInv'
<1>1. delivered' = {} \/ delivered' = delivered
  BY DEF Crash, sinkVars
<1>2. RightState' /\ \A m \in log' : base' <= m
  BY <1>1 DEF Crash, StatesInv, RightState, logVars
<1>3. snap' \in [Procs -> Seqs] /\ \A p \in Procs : pc'[p] = Idle /\ state'[p] = None
  BY Constants DEF Crash
<1> QED
  BY <1>2, <1>3 DEF StatesInv, StateSound, Procs, Idle

LEMMA InitStates ==
  ASSUME Init
  PROVE  StatesInv
<1>1. snap \in [Procs -> Seqs] /\ \A p \in Procs : pc[p] = Idle /\ state[p] = None
  BY Constants DEF Init
<1>2. RightState /\ \A m \in log : base <= m
  BY DEF Init, RightState
<1> QED
  BY <1>1, <1>2 DEF StatesInv, StateSound, Procs, Idle

LEMMA NextStates ==
  ASSUME IInv, IInv', StatesInv, [Next]_vars
  PROVE  StatesInv'
<1>1. CASE UNCHANGED vars
  BY <1>1 DEF vars, logVars, sinkVars, localVars, StatesInv, RightState, StateSound,
     Excused, NoGap
<1>2. ASSUME NEW p \in Procs, Proceed(p) PROVE StatesInv'
  BY <1>2, GetHitStates, GetSavedStates, InsertStates, PutStates, AdvanceStates,
     ResetStates, ZeroStates, DeliverStates, RefuseStates, DecideStates, EnterStates,
     ReadHeadStates, ReadBatchStates, TakeEventStates, CheckBoundaryStates, ReplayStates,
     TargetStates, RegistryStates DEF Proceed
<1> QED
  BY <1>1, <1>2, RefuseStates, CallStates, AppendStates, CompactStates, CrashStates
  DEF Next

\* A sink gets every event with the state the event led to, whether it is
\* dispatched live, starts a catch_up or is patched forward within a batch; a
\* wrong one always goes back to an event that a compaction has taken between
\* the read of the batch and the read of the state (dispatch_commit,
\* catch_up_inner): for any callers, batch size, failures and restarts.
THEOREM StatesAreRight ==
  ASSUME ~ (Ephemeral /\ Persistent)
  PROVE  Spec => []RightState
<1>1. Init => StatesInv
  BY InitStates
<1>2. IInv /\ IInv' /\ StatesInv /\ [Next]_vars => StatesInv'
  BY NextStates
<1>3. StatesInv => RightState
  BY DEF StatesInv
<1>4. Spec => []IInv
  BY SinkSound
<1> QED
  BY <1>1, <1>2, <1>3, <1>4, PTL DEF Spec
=============================================================================
