-------------------------- MODULE StoreWriteProofs --------------------------
(***************************************************************************)
(* The invariants of StoreWrite, for any number of tasks and instances, any*)
(* menus, gates and upcasters, logs of any length, with failures anywhere. *)
(* Then what a caller sees of the past: that the store implements a        *)
(* versioned document, and what a read and a revert find there while       *)
(* nothing is compacted.                                                   *)
(***************************************************************************)
EXTENDS StoreInvariant, StoreRefinement, NaturalSets, SequenceTheorems

-----------------------------------------------------------------------------
(* What the log and cache queries of EventLog return, for every log.       *)

\* MAX(seq) of a log that ends at b is b.
LEMMA HeadSeqIs ==
  ASSUME NEW log, NEW b \in Nat, DOMAIN log \subseteq 1 .. b,
         b # 0 => b \in DOMAIN log
  PROVE  HeadSeq(log) = b /\ (DOMAIN log = {} <=> b = 0)
<1>1. CASE b = 0
  BY <1>1, SMT DEF HeadSeq, Seq0
<1>2. CASE b # 0
  <2>1. \E n \in DOMAIN log : \A m \in DOMAIN log : m <= n
    BY <1>2, SMT
  <2>2. PICK h \in DOMAIN log : h = HeadSeq(log) /\ \A m \in DOMAIN log : m <= h
    BY <2>1, <1>2, Zenon DEF HeadSeq
  <2> QED
    BY <2>2, <1>2, SMT
<1> QED
  BY <1>1, <1>2

\* A read with limit 1 that can find an event finds one, at or after the
\* coordinate asked for, and that coordinate's own event if it is there.
LEMMA FirstFromIs ==
  ASSUME NEW log, DOMAIN log \subseteq Nat, NEW n \in Nat,
         \E m \in DOMAIN log : m >= n
  PROVE  /\ FirstFrom(log, n) \in DOMAIN log
         /\ FirstFrom(log, n) >= n
         /\ n \in DOMAIN log => FirstFrom(log, n) = n
<1> DEFINE S == {m \in DOMAIN log : m >= n}
<1>1. PICK h \in S : h = FirstFrom(log, n) /\ \A m \in S : h <= m
  <2>1. \E h \in S : \A m \in S : h <= m
    <3>1. S \in SUBSET Nat /\ S # {}
      OBVIOUS
    <3> QED
      BY <3>1, LeastExists
  <2> QED
    BY <2>1, Zenon DEF FirstFrom
<1> QED
  BY <1>1, SMT

\* The nearest snapshot is one at or before the coordinate asked for.
LEMMA NearestIs ==
  ASSUME NEW snapshots, DOMAIN snapshots \subseteq Nat \ {0}, NEW n \in Nat
  PROVE  /\ Nearest(snapshots, n) \in 0 .. n
         /\ Nearest(snapshots, n) # 0 => Nearest(snapshots, n) \in DOMAIN snapshots
<1>1. CASE Cached(snapshots, n) = {}
  BY <1>1, SMT DEF Nearest, Seq0
<1>2. CASE Cached(snapshots, n) # {}
  <2>1. \E h \in Cached(snapshots, n) : \A m \in Cached(snapshots, n) : m <= h
    <3>1. Cached(snapshots, n) \in SUBSET Nat /\ \A m \in Cached(snapshots, n) : m <= n
      BY DEF Cached
    <3> QED
      BY <3>1, <1>2, GreatestExists
  <2>2. Nearest(snapshots, n) \in Cached(snapshots, n)
    BY <2>1, <1>2, Zenon DEF Nearest
  <2> QED
    BY <2>2, SMT DEF Cached
<1> QED
  BY <1>1, <1>2

-----------------------------------------------------------------------------
(* Documents, patches and events.                                          *)

\* A document is never the mark of a failed replay.
LEMMA DocNotPoison == Poison \notin Doc
BY DocumentsAssumption DEF Doc

\* A patch that applies to a document yields a document.
LEMMA ApplyType ==
  ASSUME NEW d \in Doc, NEW p \in Patch, Applies(d, p)
  PROVE  Apply(d, p) \in Doc
<1>1. CASE p.type = "replace"
  BY <1>1 DEF Patch, Apply
<1>2. CASE p = Nop /\ p.type # "replace"
  BY <1>2 DEF Apply
<1>3. CASE p # Nop /\ p.type # "replace"
  <2>1. d \in Object /\ p.remove \in Object /\ p.add \in Object
    BY <1>3 DEF Applies, Doc, Patch
  <2>2. (d \ p.remove) \cup p.add \in Object
    BY <2>1 DEF Object
  <2> QED
    BY <1>3, <2>2 DEF Apply, Doc
<1> QED
  BY <1>1, <1>2, <1>3

\* A step of the replay from a document is the patch applied, if it applies.
LEMMA StepIs ==
  ASSUME NEW d \in Doc, NEW p
  PROVE  Step(d, p) = IF Applies(d, p) THEN Apply(d, p) ELSE Poison
BY DocNotPoison DEF Step

LEMMA StepType ==
  ASSUME NEW d \in Doc \cup {Poison}, NEW p \in Patch
  PROVE  Step(d, p) \in Doc \cup {Poison}
<1>1. CASE d # Poison /\ Applies(d, p)
  BY <1>1, ApplyType DEF Step
<1>2. CASE ~ (d # Poison /\ Applies(d, p))
  BY <1>2 DEF Step
<1> QED
  BY <1>1, <1>2

LEMMA DiffType ==
  ASSUME NEW d \in Doc, NEW e \in Doc
  PROVE  Diff(d, e) \in Patch
<1>1. CASE d = e
  <2>1. {} \in Object
    BY DEF Object
  <2> QED
    BY <1>1, <2>1 DEF Diff, Nop, Edit, Patch
<1>2. CASE d # e /\ (d = Null \/ e = Null)
  BY <1>2 DEF Diff, Replace, Patch
<1>3. CASE d # e /\ d # Null /\ e # Null
  <2>1. d \in Object /\ e \in Object
    BY <1>3 DEF Doc
  <2>2. d \ e \in Object /\ e \ d \in Object
    BY <2>1 DEF Object
  <2> QED
    BY <1>3, <2>2 DEF Diff, Edit, Patch
<1> QED
  BY <1>1, <1>2, <1>3

\* Upcasting keeps an event's type and kind, leaves the kinds of the store's
\* own events alone, and does nothing when no upcaster is registered.
LEMMA UpcastIs ==
  ASSUME NEW ev \in Event
  PROVE  /\ Upcast(ev) \in Event
         /\ Upcast(ev).kind = ev.kind
         /\ ev.kind # EditKind => Upcast(ev) = ev
         /\ ~HasUpcasters => Upcast(ev).patch = ev.patch
BY StoreAssumption DEF Upcast, Event

\* Replacing the root makes any document the given one.
LEMMA ReplaceIs ==
  ASSUME NEW d, NEW e
  PROVE  Applies(e, Replace(d)) /\ Apply(e, Replace(d)) = d
BY DEF Applies, Apply, Replace

-----------------------------------------------------------------------------
(* The two halves of the typing: what the tasks share, what each holds.    *)

SharedType ==
  /\ DOMAIN events \subseteq Nat \ {0}
  /\ \A n \in DOMAIN events : events[n] \in Event
  /\ DOMAIN cache \subseteq Nat \ {0}
  /\ \A n \in DOMAIN cache : cache[n] \in Doc
  /\ sent \in [Instances -> Seq(SentState)]
  /\ history \in Seq(CommittedEvent)
  /\ floor \in Nat

TaskType ==
  /\ lock \in [Instances -> Tasks \cup {NoTask}]
  /\ pc \in [Tasks -> Pcs]
  /\ req \in [Tasks -> Request]
  /\ goal \in [Tasks -> Goals]
  /\ at \in [Tasks -> Nat] /\ pos \in [Tasks -> Nat]
  /\ acc \in [Tasks -> Doc] /\ from \in [Tasks -> Doc]
  /\ DOMAIN todo = Tasks
  /\ \A t \in Tasks : /\ DOMAIN todo[t] \subseteq Nat \ {0}
                       /\ \A n \in DOMAIN todo[t] : todo[t][n] \in Event
  /\ reply \in [Tasks -> [status: Statuses, at: Nat, doc: Doc]]

LEMMA TypeSplit == TypeOK <=> SharedType /\ TaskType
BY DEF TypeOK, SharedType, TaskType

\* What a step of another task leaves task u with.
Same(u) ==
  /\ pc'[u] = pc[u] /\ req'[u] = req[u] /\ goal'[u] = goal[u]
  /\ at'[u] = at[u] /\ acc'[u] = acc[u] /\ pos'[u] = pos[u]
  /\ todo'[u] = todo[u] /\ reply'[u] = reply[u]
  /\ lock[Home[u]] = u => lock'[Home[u]] = u

Others(t) == \A u \in Tasks \ {t} : Same(u)

\* Commits extend the past and compactions extend what is given up of it.
Grows ==
  /\ Committed' \in Nat /\ Committed <= Committed'
  /\ \A n \in 1 .. Committed : history'[n].doc = history[n].doc
  /\ floor' \in Nat /\ floor <= floor'

\* What u's lock protects is not disturbed.
Calm(u) ==
  Writing(u) /\ pc[u] \notin {Idle, "lock"} =>
    /\ sent'[Home[u]] = sent[Home[u]]
    /\ \/ Committed' = Committed
       \/ req[u].mode = "append_if_head" /\ ~HasUpcasters

LEMMA HomeType == \A t \in Tasks : Home[t] \in Instances
BY StoreAssumption

LEMMA NumberTypes ==
  ASSUME TypeOK
  PROVE  /\ Committed \in Nat /\ floor \in Nat
         /\ \A t \in Tasks : at[t] \in Nat /\ pos[t] \in Nat
         /\ \A t \in Tasks : reply[t].at \in Nat
         /\ \A i \in Instances : Len(sent[i]) \in Nat
         /\ \A i \in Instances : \A k \in 1 .. Len(sent[i]) : sent[i][k].seq \in Nat
<1>1. Committed \in Nat
  BY DEF TypeOK, Committed
<1>2. \A i \in Instances : sent[i] \in Seq(SentState)
  BY DEF TypeOK
<1>3. \A i \in Instances : Len(sent[i]) \in Nat
  BY <1>2
<1>4. \A i \in Instances : \A k \in 1 .. Len(sent[i]) : sent[i][k].seq \in Nat
  <2>1. ASSUME NEW i \in Instances, NEW k \in 1 .. Len(sent[i])
        PROVE  sent[i][k] \in SentState
    BY <1>2, ElementOfSeq
  <2> QED
    BY <2>1 DEF SentState
<1> QED
  BY <1>1, <1>3, <1>4 DEF TypeOK

\* An invariant of a task survives any step of another one that leaves alone
\* what its lock protects: the past and what it holds do not change.
LEMMA TaskFrame ==
  ASSUME TypeOK, NEW u \in Tasks, TaskInv(u), Same(u), Grows, Calm(u)
  PROVE  TaskInv(u)'
<1>1. ModeInv(u)'
  BY DEF TaskInv, ModeInv, Same, Writing
<1>2. ReadInv(u)'
  <2> USE NumberTypes
  <2>1. pc[u] = "replay" /\ at[u] >= floor' => \E q \in 0 .. at[u] : Leads(u, q)'
    <3>1. SUFFICES ASSUME pc[u] = "replay", at[u] >= floor'
                   PROVE  \E q \in 0 .. at[u] : Leads(u, q)'
      OBVIOUS
    <3>2. at[u] >= floor /\ at[u] <= Committed
      BY <3>1 DEF TaskInv, ReadInv, Grows
    <3>3. PICK q \in 0 .. at[u] : Leads(u, q)
      BY <3>1, <3>2 DEF TaskInv, ReadInv
    <3>4. \A n \in 1 .. at[u] : history'[n].doc = history[n].doc
      BY <3>2 DEF Grows
    <3>5. Leads(u, q)'
      <4>1. ASSUME NEW r \in q + 1 .. at[u]
            PROVE  (/\ r \in DOMAIN todo[u]
                    /\ Step(Truth(r - 1), Upcast(todo[u][r]).patch) = Truth(r))'
        BY <3>3, <3>4 DEF Leads, Same, Truth, Seq0
      <4>2. (\/ q = pos[u] /\ acc[u] = Truth(q)
             \/ /\ q \in DOMAIN todo[u]
                /\ Upcast(todo[u][q]).patch = Replace(Truth(q))
                /\ Truth(q) \in Doc)'
        BY <3>3, <3>4 DEF Leads, Same, Truth, Seq0
      <4> QED
        BY <4>1, <4>2 DEF Leads, Same
    <3> QED
      BY <3>5
  <2> QED
    BY <2>1 DEF TaskInv, ReadInv, Same, Grows, Truth, Seq0
<1>3. CommittedInv(u)'
  BY NumberTypes DEF TaskInv, CommittedInv, Same, Grows, Writing, Truth, Seq0
<1>4. LockInv(u)'
  BY DEF TaskInv, LockInv, ModeInv, Same, Calm, Writing
<1> QED
  BY <1>1, <1>2, <1>3, <1>4 DEF TaskInv

-----------------------------------------------------------------------------
(* Steps that touch nothing the tasks share but the lock.                  *)

Quiet == UNCHANGED <<logVars, cache, sent>>

\* Such a step preserves the invariant if it does so for its own task.
LEMMA QuietStep ==
  ASSUME IInv, NEW t \in Tasks, Quiet, Others(t), TaskType', TaskInv(t)'
  PROVE  IInv'
<1> USE DEF Quiet, logVars
<1>1. TypeOK'
  <2>1. SharedType'
    BY TypeSplit DEF IInv, SharedType
  <2> QED
    BY <2>1 DEF TypeOK, SharedType, TaskType
<1>2. LogInv' /\ CacheSound' /\ SentInv'
  BY DEF IInv, LogInv, CacheSound, SentInv, Committed, Truth, Upcast
<1>3. ASSUME NEW u \in Tasks PROVE TaskInv(u)'
  <2>1. CASE u = t
    BY <2>1
  <2>2. CASE u # t
    <3>1. Grows
      BY NumberTypes DEF IInv, Grows, Committed
    <3>2. Calm(u)
      BY DEF Calm, Committed
    <3> QED
      BY <2>2, <3>1, <3>2, TaskFrame DEF IInv, Others
  <2> QED
    BY <2>1, <2>2
<1> QED
  BY <1>1, <1>2, <1>3 DEF IInv

\* A call that returns leaves nothing behind but its reply, and the lock.
LEMMA FinishStep ==
  ASSUME TypeOK, NEW t \in Tasks,
         NEW status \in Statuses, NEW n \in Nat, NEW d \in Doc,
         Finish(t, status, n, d),
         status = "state" =>
           /\ n <= Committed'
           /\ d = (IF n = Seq0 THEN Null ELSE history'[n].doc) \/ n < floor'
  PROVE  TaskType' /\ Others(t) /\ TaskInv(t)'
<1> USE DEF Finish
<1>1. TaskType'
  <2>1. NoRequest \in Request
    <3>1. {} \in Object
      BY DEF Object
    <3> QED
      BY <3>1 DEF NoRequest, Request, Patch, Nop, Edit, WriteModes, ReadModes,
                  OtherModes, Kinds
  <2>2. Null \in Doc
    BY DEF Doc
  <2>3. lock' \in [Instances -> Tasks \cup {NoTask}]
    BY DEF Unlock, TypeOK
  <2> QED
    BY <2>1, <2>2, <2>3 DEF TaskType, TypeOK, Pcs, Idle, Goals, Seq0
<1>2. Others(t)
  <2>1. ASSUME NEW u \in Tasks \ {t}
        PROVE  lock[Home[u]] = u => lock'[Home[u]] = u
    BY HomeType DEF Unlock, TypeOK
  <2> QED
    BY <2>1 DEF Others, Same, TypeOK
<1>3. TaskInv(t)'
  <2>1. /\ pc'[t] = Idle /\ req'[t] = NoRequest /\ goal'[t] = "none"
        /\ acc'[t] = Null /\ pos'[t] = Seq0 /\ DOMAIN todo'[t] = {}
        /\ reply'[t] = [status |-> status, at |-> n, doc |-> d]
    BY DEF TypeOK
  <2>2. ModeInv(t)'
    BY <2>1 DEF ModeInv, NoRequest, Idle, Writing, WriteModes
  <2>3. ReadInv(t)'
    BY <2>1 DEF ReadInv, Idle, Truth
  <2>4. CommittedInv(t)' /\ LockInv(t)'
    BY <2>1 DEF CommittedInv, LockInv, NoRequest, Idle, Writing, WriteModes
  <2> QED
    BY <2>2, <2>3, <2>4 DEF TaskInv
<1> QED
  BY <1>1, <1>2, <1>3

\* Every way to return without a state, all at once.
LEMMA ErrorStep ==
  ASSUME IInv, NEW t \in Tasks, NEW status \in Statuses \ {"state"}, NEW n \in Nat,
         Finish(t, status, n, Null), Quiet
  PROVE  IInv'
<1>1. Null \in Doc
  BY DEF Doc
<1>2. TaskType' /\ Others(t) /\ TaskInv(t)'
  BY <1>1, FinishStep DEF IInv
<1> QED
  BY <1>2, QuietStep

LEMMA BeginStep ==
  ASSUME IInv, NEW t \in Tasks, NEW r \in Menu[t], Begin(t, r)
  PROVE  IInv'
<1> USE DEF Begin
<1>1. r \in Request
  BY StoreAssumption
<1>2. pc[t] = Idle /\ DOMAIN todo[t] = {} /\ acc[t] = Null /\ pos[t] = Seq0
  BY DEF IInv, TaskInv, ReadInv, Idle
<1>3. TaskType'
  BY <1>1 DEF IInv, TypeOK, TaskType, Request, Pcs, Goals, NoReply, Statuses, Seq0,
              Goto, Doc
<1>4. Others(t)
  BY DEF IInv, TypeOK, Others, Same, Goto
<1>5. /\ req'[t] = r /\ reply'[t] = NoReply /\ todo'[t] = todo[t]
      /\ acc'[t] = acc[t] /\ pos'[t] = pos[t]
  BY DEF IInv, TypeOK
<1>6. CASE r.mode \in WriteModes
  <2>1. /\ pc'[t] = "lock"
        /\ goal'[t] = IF r.mode = "revert" THEN "revert_from" ELSE "write"
        /\ r.mode = "append_if_head" => at'[t] = r.arg
    <3>1. r.mode \in {"append", "append_if_head", "revert"}
      BY <1>6 DEF WriteModes
    <3>2. pc'[t] = "lock" /\ (r.mode = "append_if_head" => at'[t] = r.arg)
      BY <1>6, <3>1 DEF IInv, TypeOK, Goto
    <3>3. goal'[t] = IF r.mode = "revert" THEN "revert_from" ELSE "write"
      BY <1>6, <3>1 DEF IInv, TypeOK
    <3> QED
      BY <3>2, <3>3
  <2> QED
    BY <1>2, <1>3, <1>4, <1>5, <1>6, <2>1, QuietStep
    DEF Quiet, TaskInv, ModeInv, ReadInv, CommittedInv, LockInv, Writing,
        WriteModes, Idle, NoReply
<1>7. CASE r.mode \notin WriteModes
  <2>1. /\ pc'[t] = CASE r.mode = "state" -> "state"
                      [] r.mode = "prune_cache" -> "prune"
                      [] OTHER -> "head"
        /\ goal'[t] = IF r.mode = "compact" THEN "snapshot" ELSE "answer"
        /\ r.mode = "compact" => at'[t] = r.arg /\ r.arg # Seq0
    BY <1>7 DEF IInv, TypeOK, Goto, WriteModes
  <2>2. pc'[t] \in {"state", "prune", "head"}
    BY <2>1
  <2> QED
    BY <1>2, <1>3, <1>4, <1>5, <1>7, <2>1, <2>2, QuietStep
    DEF Quiet, TaskInv, ModeInv, ReadInv, CommittedInv, LockInv, Writing,
        WriteModes, Idle, NoReply
<1> QED
  BY <1>6, <1>7

-----------------------------------------------------------------------------
(* The error paths and the steps of state_at.                              *)

LEMMA ErrorSteps ==
  ASSUME IInv, NEW t \in Tasks,
         \/ PastHead(t) \/ BelowBoundary(t) \/ ReplayFails(t) \/ GateRejects(t)
         \/ HeadConflict(t) \/ BackendFails(t) \/ Drop(t)
  PROVE  IInv'
<1>1. ASSUME NEW s \in Statuses \ {"state"}, NEW n \in Nat,
             Finish(t, s, n, Null), UNCHANGED <<logVars, cache, sent>>
      PROVE  IInv'
  BY <1>1, ErrorStep DEF Quiet
<1>2. pos[t] \in Nat /\ Seq0 \in Nat
  BY DEF IInv, TypeOK, Seq0
<1>3. {"unknown_stream", "out_of_range", "compacted", "head_conflict", "patch",
       "schema", "busy", "dropped"} \subseteq Statuses \ {"state"}
  BY DEF Statuses
<1>4. CASE PastHead(t)
  BY <1>1, <1>2, <1>3, <1>4 DEF PastHead
<1>5. CASE BelowBoundary(t)
  BY <1>1, <1>2, <1>3, <1>5 DEF BelowBoundary
<1>6. CASE ReplayFails(t)
  BY <1>1, <1>2, <1>3, <1>6 DEF ReplayFails
<1>7. CASE GateRejects(t)
  BY <1>1, <1>2, <1>3, <1>7 DEF GateRejects
<1>8. CASE HeadConflict(t)
  BY <1>1, <1>2, <1>3, <1>8 DEF HeadConflict
<1>9. CASE BackendFails(t)
  BY <1>1, <1>2, <1>3, <1>9 DEF BackendFails
<1>10. CASE Drop(t)
  BY <1>1, <1>2, <1>3, <1>10 DEF Drop
<1> QED
  BY <1>4, <1>5, <1>6, <1>7, <1>8, <1>9, <1>10

\* The head query returns the number of events ever committed.
LEMMA HeadIsCommitted ==
  ASSUME IInv
  PROVE  /\ HeadSeq(events) = Committed
         /\ DOMAIN events = {} <=> Committed = 0
<1>1. Committed \in Nat /\ floor \in Nat
  BY NumberTypes DEF IInv
<1>2. DOMAIN events \subseteq 1 .. Committed
  BY DEF IInv, LogInv
<1>3. Committed # 0 => Committed \in DOMAIN events
  BY <1>1 DEF IInv, LogInv
<1> QED
  BY <1>1, <1>2, <1>3, HeadSeqIs

LEMMA AcquireStep ==
  ASSUME IInv, NEW t \in Tasks, Acquire(t)
  PROVE  IInv'
<1> USE DEF Acquire
<1>1. TaskType'
  BY HomeType DEF IInv, TypeOK, TaskType, Pcs, Goto, readVars
<1>2. Others(t)
  <2>1. ASSUME NEW u \in Tasks \ {t}, lock[Home[u]] = u
        PROVE  lock'[Home[u]] = u
    <3>1. Home[u] # Home[t]
      BY <2>1, StoreAssumption DEF LockFree
    <3> QED
      BY <2>1, <3>1, HomeType DEF IInv, TypeOK
  <2> QED
    BY <2>1 DEF IInv, TypeOK, Others, Same, Goto, readVars
<1>3. TaskInv(t)'
  <2>1. /\ pc'[t] \in {"state", "replay", "head"}
        /\ pc'[t] = "state" <=> req[t].mode # "append_if_head"
        /\ pc'[t] = "replay" => at[t] = Seq0
        /\ lock'[Home[t]] = t
    BY HomeType DEF IInv, TypeOK, Goto
  <2>2. /\ pc[t] = "lock" /\ Writing(t) /\ acc[t] = Null /\ pos[t] = Seq0
        /\ DOMAIN todo[t] = {} /\ goal[t] \in {"write", "revert_from"}
    BY DEF IInv, TypeOK, TaskInv, ReadInv, ModeInv, Writing, WriteModes, Goals, Idle
  <2> USE NumberTypes
  <2>3. ModeInv(t)'
    BY <2>1, <2>2 DEF IInv, TaskInv, ModeInv, Writing, readVars, Idle
  <2>4. ReadInv(t)'
    <3>1. pc'[t] = "replay" => Leads(t, 0)'
      BY <2>1, <2>2 DEF Leads, Truth, Seq0, readVars
    <3> QED
      BY <2>1, <2>2, <3>1
      DEF IInv, TaskInv, ReadInv, readVars, logVars, Seq0, Idle, Committed, Truth
  <2>5. CommittedInv(t)'
    BY <2>1 DEF CommittedInv
  <2>6. LockInv(t)'
    BY <2>1, <2>2 DEF IInv, TaskInv, ModeInv, LockInv, Writing, readVars, Idle
  <2> QED
    BY <2>3, <2>4, <2>5, <2>6 DEF TaskInv
<1> QED
  BY <1>1, <1>2, <1>3, QuietStep DEF Quiet

LEMMA ReadHeadStep ==
  ASSUME IInv, NEW t \in Tasks, ReadHead(t)
  PROVE  IInv'
<1> USE DEF ReadHead
<1>1. HeadSeq(events) = Committed /\ Committed \in Nat
      /\ (DOMAIN events = {} => Committed = 0)
  BY HeadIsCommitted, NumberTypes DEF IInv
<1>2. TaskType'
  BY <1>1 DEF IInv, TypeOK, TaskType, Pcs, Goto, Seq0, Doc
<1>3. Others(t)
  BY DEF IInv, TypeOK, Others, Same, Goto
<1>4. TaskInv(t)'
  <2>1. /\ pc'[t] \in {"replay", "head"}
        /\ pc'[t] = "replay" => Committed = 0
        /\ at'[t] = Committed /\ acc'[t] = Null /\ pos'[t] = Seq0
    BY <1>1 DEF IInv, TypeOK, Goto
  <2>2. pc[t] = "state" /\ DOMAIN todo[t] = {}
        /\ goal[t] \in {"answer", "revert_from", "write"}
        /\ req[t].mode # "append_if_head"
    BY DEF IInv, TaskInv, ReadInv, ModeInv
  <2>3. ModeInv(t)'
    BY <2>1, <2>2 DEF IInv, TaskInv, ModeInv, Writing, Idle
  <2>4. ReadInv(t)'
    <3>1. pc'[t] = "replay" => Leads(t, 0)'
      BY <2>1, <2>2 DEF Leads, Truth, Seq0
    <3> QED
      BY <1>1, <2>1, <2>2, <3>1
      DEF IInv, TaskInv, ReadInv, logVars, Seq0, Idle, Committed, Truth
  <2>5. CommittedInv(t)'
    BY <2>1 DEF CommittedInv
  <2>6. LockInv(t)'
    BY <2>1, <2>2 DEF IInv, TaskInv, LockInv, Writing, Idle, logVars, Committed
  <2> QED
    BY <2>3, <2>4, <2>5, <2>6 DEF TaskInv
<1> QED
  BY <1>2, <1>3, <1>4, QuietStep DEF Quiet

LEMMA CheckStep ==
  ASSUME IInv, NEW t \in Tasks, CheckHead(t) \/ CheckBoundary(t)
  PROVE  IInv'
<1>1. \/ /\ pc[t] = "head" /\ pc' = [pc EXCEPT ![t] = "boundary"]
         /\ at[t] <= Committed
      \/ pc[t] = "boundary" /\ pc' = [pc EXCEPT ![t] = "nearest"]
  BY HeadIsCommitted DEF CheckHead, CheckBoundary, Goto
<1>2. UNCHANGED <<logVars, cache, sent, at, acc, pos, todo, lock, req, goal, from,
                  reply>>
  BY DEF CheckHead, CheckBoundary, readVars
<1>3. TaskType'
  BY <1>1, <1>2 DEF IInv, TypeOK, TaskType, Pcs
<1>4. Others(t)
  BY <1>1, <1>2 DEF IInv, TypeOK, Others, Same
<1>5. TaskInv(t)'
  <2>1. pc'[t] \in {"boundary", "nearest"} /\ pc[t] \in {"head", "boundary"}
    BY <1>1 DEF IInv, TypeOK
  <2>2. ModeInv(t)'
    BY <1>2, <2>1 DEF IInv, TaskInv, ModeInv, Writing, Idle
  <2>3. at[t] <= Committed
    BY <1>1 DEF IInv, TaskInv, ReadInv
  <2>4. ReadInv(t)'
    BY <1>2, <2>1, <2>3
    DEF IInv, TaskInv, ReadInv, logVars, Seq0, Idle, Committed, Truth
  <2>5. CommittedInv(t)'
    BY <2>1 DEF CommittedInv
  <2>6. LockInv(t)'
    BY <1>2, <2>1 DEF IInv, TaskInv, LockInv, Writing, Idle, logVars, Committed
  <2> QED
    BY <2>2, <2>4, <2>5, <2>6 DEF TaskInv
<1> QED
  BY <1>2, <1>3, <1>4, <1>5, QuietStep DEF Quiet

LEMMA LookUpStep ==
  ASSUME IInv, NEW t \in Tasks, LookUp(t)
  PROVE  IInv'
<1>1. PICK n : /\ n = Nearest(cache, at[t])
               /\ n \in 0 .. at[t] /\ at[t] \in Nat
               /\ n # 0 => n \in DOMAIN cache
  <2>1. at[t] \in Nat /\ DOMAIN cache \subseteq Nat \ {0}
    BY DEF IInv, TypeOK
  <2> QED
    BY <2>1, NearestIs
<1>2. /\ pc[t] = "nearest"
      /\ pos' = [pos EXCEPT ![t] = n]
      /\ acc' = [acc EXCEPT ![t] = IF n = Seq0 THEN Null ELSE cache[n]]
      /\ pc' = [pc EXCEPT ![t] = IF n = at[t] THEN "replay" ELSE "read"]
      /\ UNCHANGED <<logVars, cache, lock, req, goal, at, from, todo, reply, sent>>
  BY <1>1 DEF LookUp, Goto
<1>3. (IF n = Seq0 THEN Null ELSE cache[n]) \in Doc
  BY <1>1 DEF IInv, TypeOK, Doc, Seq0
<1>4. (IF n = Seq0 THEN Null ELSE cache[n]) = Truth(n)
  BY <1>1 DEF IInv, CacheSound, Truth, Seq0
<1>5. TaskType'
  BY <1>1, <1>2, <1>3 DEF IInv, TypeOK, TaskType, Pcs
<1>6. Others(t)
  BY <1>2 DEF IInv, TypeOK, Others, Same
<1>7. TaskInv(t)'
  <2>1. /\ pos'[t] = n /\ acc'[t] = Truth(n)
        /\ pc'[t] = IF n = at[t] THEN "replay" ELSE "read"
    BY <1>2, <1>4 DEF IInv, TypeOK
  <2>2. DOMAIN todo[t] = {} /\ at[t] <= Committed
    BY <1>2 DEF IInv, TaskInv, ReadInv
  <2>3. ModeInv(t)'
    BY <1>2, <2>1 DEF IInv, TaskInv, ModeInv, Writing, Idle
  <2>4. ReadInv(t)'
    <3>1. n = at[t] => Leads(t, n)'
      BY <1>1, <1>2, <2>1 DEF Leads, Truth, logVars
    <3> QED
      BY <1>1, <1>2, <2>1, <2>2, <3>1
      DEF IInv, TaskInv, ReadInv, logVars, Idle, Committed, Truth
  <2>5. CommittedInv(t)'
    BY <2>1 DEF CommittedInv
  <2>6. LockInv(t)'
    BY <1>2, <2>1 DEF IInv, TaskInv, LockInv, Writing, Idle, logVars, Committed
  <2> QED
    BY <2>3, <2>4, <2>5, <2>6 DEF TaskInv
<1> QED
  BY <1>2, <1>5, <1>6, <1>7, QuietStep DEF Quiet

\* At or above the largest compacted coordinate, the events read lead to the
\* state wanted, whatever snapshot the replay starts from.
LEMMA ReadEventsStep ==
  ASSUME IInv, NEW t \in Tasks, ReadEvents(t)
  PROVE  IInv'
<1> DEFINE w == Window(events, pos[t] + 1, at[t])
<1>1. /\ pc[t] = "read" /\ pc' = [pc EXCEPT ![t] = "replay"]
      /\ todo' = [todo EXCEPT ![t] = w]
      /\ UNCHANGED <<logVars, cache, lock, req, goal, at, acc, pos, from, reply, sent>>
  BY DEF ReadEvents, Goto
<1>2. /\ DOMAIN w = DOMAIN events \cap (pos[t] + 1 .. at[t])
      /\ \A n \in DOMAIN w : w[n] = events[n]
  BY DEF Window
<1>3. TaskType'
  BY <1>1, <1>2 DEF IInv, TypeOK, TaskType, Pcs
<1>4. Others(t)
  BY <1>1 DEF IInv, TypeOK, Others, Same
<1>5. TaskInv(t)'
  <2>1. pc'[t] = "replay" /\ todo'[t] = w
    BY <1>1 DEF IInv, TypeOK
  <2>2. /\ pos[t] < at[t] /\ at[t] <= Committed /\ acc[t] = Truth(pos[t])
        /\ pos[t] \in Nat /\ at[t] \in Nat /\ floor \in Nat
    BY <1>1, NumberTypes DEF IInv, TaskInv, ReadInv
  <2>3. ModeInv(t)'
    BY <1>1, <2>1 DEF IInv, TaskInv, ModeInv, Writing, Idle
  <2>4. at[t] >= floor => \E q \in 0 .. at[t] : Leads(t, q)'
    <3>1. SUFFICES ASSUME at[t] >= floor
                   PROVE  \E q \in 0 .. at[t] : Leads(t, q)'
      OBVIOUS
    <3> HIDE DEF w
    <3>2. ASSUME NEW q \in Nat, q >= floor, q >= pos[t], NEW r \in q + 1 .. at[t]
          PROVE  /\ r \in DOMAIN w
                 /\ Step(Truth(r - 1), Upcast(w[r]).patch) = Truth(r)
      <4>1. r \in 1 .. Committed /\ r > floor /\ r \in pos[t] + 1 .. at[t]
        BY <2>2, <3>2, NumberTypes DEF IInv
      <4>2. /\ r \in DOMAIN events
            /\ Step(Truth(r - 1), Upcast(events[r]).patch) = Truth(r)
        BY <2>2, <4>1 DEF IInv, LogInv
      <4> QED
        BY <1>2, <4>1, <4>2
    <3>3. CASE floor <= pos[t]
      <4>1. PICK q \in Nat : q = pos[t]
        BY <2>2
      <4>2. Leads(t, q)'
        BY <1>1, <2>1, <2>2, <3>2, <3>3, <4>1 DEF Leads, Truth, logVars
      <4> QED
        BY <2>2, <4>1, <4>2
    <3>4. CASE floor > pos[t]
      <4>1. /\ floor \in DOMAIN w
            /\ Upcast(w[floor]).patch = Replace(Truth(floor))
            /\ Truth(floor) \in Doc
        <5>1. floor \in DOMAIN events /\ events[floor] \in Event
          BY <2>2, <3>1, <3>4, NumberTypes DEF IInv, TypeOK, LogInv
        <5>2. events[floor] = [kind |-> SnapshotKind, patch |-> Replace(Truth(floor))]
          BY <2>2, <3>4 DEF IInv, LogInv
        <5>3. Upcast(events[floor]) = events[floor]
          BY <5>1, <5>2, UpcastIs DEF SnapshotKind, EditKind
        <5> QED
          BY <1>2, <2>2, <3>1, <3>4, <5>1, <5>2, <5>3 DEF IInv, LogInv
      <4>2. PICK q \in Nat : q = floor
        BY <2>2
      <4>3. Leads(t, q)'
        BY <1>1, <2>1, <2>2, <3>2, <3>4, <4>1, <4>2 DEF Leads, Truth, logVars
      <4> QED
        BY <2>2, <3>1, <4>2, <4>3
    <3> QED
      BY <2>2, <3>3, <3>4
  <2>5. ReadInv(t)'
    BY <1>1, <1>2, <2>1, <2>2, <2>4
    DEF IInv, TaskInv, ReadInv, logVars, Idle, Committed, Truth
  <2>6. CommittedInv(t)'
    BY <2>1 DEF CommittedInv
  <2>7. LockInv(t)'
    BY <1>1, <2>1 DEF IInv, TaskInv, LockInv, Writing, Idle, logVars, Committed
  <2> QED
    BY <2>3, <2>5, <2>6, <2>7 DEF TaskInv
<1> QED
  BY <1>1, <1>3, <1>4, <1>5, QuietStep DEF Quiet

\* One iteration of the replay keeps what is left of it leading to the state
\* wanted, even if it starts below the snapshot it is about to reach.
LEMMA ReplayStep ==
  ASSUME IInv, NEW t \in Tasks, Replay(t)
  PROVE  IInv'
<1>1. PICK n \in DOMAIN todo[t] :
        LET p == Upcast(todo[t][n]).patch IN
        /\ \A m \in DOMAIN todo[t] : n <= m
        /\ Applies(acc[t], p)
        /\ acc' = [acc EXCEPT ![t] = Apply(acc[t], p)]
        /\ pos' = [pos EXCEPT ![t] = n]
        /\ todo' = [todo EXCEPT ![t] = Window(todo[t], n + 1, at[t])]
  BY DEF Replay
<1> DEFINE p == Upcast(todo[t][n]).patch
           w == Window(todo[t], n + 1, at[t])
<1>2. pc[t] = "replay" /\ UNCHANGED <<logVars, cache, lock, pc, req, goal, at, from,
                                      reply, sent>>
  BY DEF Replay
<1>3. /\ DOMAIN w = DOMAIN todo[t] \cap (n + 1 .. at[t])
      /\ \A m \in DOMAIN w : w[m] = todo[t][m]
  BY DEF Window
<1>4. /\ todo[t][n] \in Event /\ n \in Nat /\ pos[t] \in Nat /\ at[t] \in Nat
      /\ acc[t] \in Doc /\ floor \in Nat
  BY NumberTypes DEF IInv, TypeOK
<1>5. p \in Patch
  BY <1>4, UpcastIs DEF Event
<1>6. Apply(acc[t], p) \in Doc /\ Step(acc[t], p) = Apply(acc[t], p)
  BY <1>1, <1>4, <1>5, ApplyType, StepIs
<1>7. TaskType'
  BY <1>1, <1>2, <1>3, <1>4, <1>6 DEF IInv, TypeOK, TaskType
<1>8. Others(t)
  BY <1>1, <1>2 DEF IInv, TypeOK, Others, Same
<1>9. TaskInv(t)'
  <2>1. pos'[t] = n /\ acc'[t] = Apply(acc[t], p) /\ todo'[t] = w
    BY <1>1 DEF IInv, TypeOK
  <2>2. n \in pos[t] + 1 .. at[t] /\ at[t] <= Committed
    BY <1>2 DEF IInv, TaskInv, ReadInv
  <2> HIDE DEF p, w
  <2>3. ModeInv(t)'
    BY <1>2 DEF IInv, TaskInv, ModeInv, Writing
  <2>4. at[t] >= floor => \E q \in 0 .. at[t] : Leads(t, q)'
    <3>1. SUFFICES ASSUME at[t] >= floor
                   PROVE  \E q \in 0 .. at[t] : Leads(t, q)'
      OBVIOUS
    <3>2. PICK q \in 0 .. at[t] : Leads(t, q)
      BY <3>1, <1>2 DEF IInv, TaskInv, ReadInv
    <3>3. CASE q > n
      <4>1. q \in DOMAIN w /\ w[q] = todo[t][q]
        BY <3>2, <3>3, <1>3, <1>4, <2>2 DEF Leads
      <4>2. \A r \in q + 1 .. at[t] : r \in DOMAIN w /\ w[r] = todo[t][r]
        BY <3>2, <3>3, <1>3, <1>4, <2>2 DEF Leads
      <4>3. Leads(t, q)'
        BY <3>2, <3>3, <4>1, <4>2, <1>2, <2>1, <1>4, <2>2 DEF Leads, Truth, logVars
      <4> QED
        BY <4>3
    <3>4. CASE q <= n
      <4>1. Apply(acc[t], p) = Truth(n)
        <5>1. CASE q \in DOMAIN todo[t] /\ Upcast(todo[t][q]).patch = Replace(Truth(q))
          <6>1. q = n
            BY <5>1, <3>4, <1>1, <1>4
          <6> QED
            BY <5>1, <6>1, ReplaceIs DEF p
        <5>2. CASE q = pos[t] /\ acc[t] = Truth(q)
          <6>1. q + 1 \in q + 1 .. at[t]
            BY <5>2, <1>4, <2>2
          <6>2. /\ q + 1 \in DOMAIN todo[t]
                /\ Step(Truth(q + 1 - 1), Upcast(todo[t][q + 1]).patch) = Truth(q + 1)
            BY <6>1, <3>2 DEF Leads
          <6>3. n = q + 1 /\ q + 1 - 1 = q
            BY <5>2, <6>2, <1>1, <1>4, <2>2
          <6> QED
            BY <5>2, <6>2, <6>3, <1>6 DEF p
        <5> QED
          BY <5>1, <5>2, <3>2 DEF Leads
      <4>2. \A r \in n + 1 .. at[t] :
              /\ r \in DOMAIN w
              /\ w[r] = todo[t][r]
              /\ Step(Truth(r - 1), Upcast(todo[t][r]).patch) = Truth(r)
        BY <3>2, <3>4, <1>3, <1>4, <2>2 DEF Leads
      <4>3. Leads(t, n)'
        BY <4>1, <4>2, <1>2, <1>4, <2>1, <2>2 DEF Leads, Truth, logVars
      <4> QED
        BY <4>3, <1>4, <2>2
    <3> QED
      BY <3>3, <3>4, <1>4
  <2>5. ReadInv(t)'
    BY <1>2, <1>3, <1>4, <2>1, <2>2, <2>4
    DEF IInv, TaskInv, ReadInv, logVars, Idle, Committed, Truth
  <2>6. CommittedInv(t)' /\ LockInv(t)'
    BY <1>2 DEF IInv, TaskInv, CommittedInv, LockInv, Writing, Idle, logVars, Committed
  <2> QED
    BY <2>3, <2>5, <2>6 DEF TaskInv
<1> QED
  BY <1>2, <1>7, <1>8, <1>9, QuietStep DEF Quiet

\* state_at's answer.
LEMMA ReadyIs ==
  ASSUME IInv, NEW t \in Tasks, pc[t] = "replay", DOMAIN todo[t] = {}
  PROVE  /\ at[t] <= Committed
         /\ at[t] >= floor => acc[t] = Truth(at[t])
<1>1. at[t] <= Committed /\ at[t] \in Nat /\ pos[t] \in Nat /\ floor \in Nat
  BY NumberTypes DEF IInv, TaskInv, ReadInv
<1>2. ASSUME at[t] >= floor PROVE acc[t] = Truth(at[t])
  <2>1. PICK q \in 0 .. at[t] : Leads(t, q)
    BY <1>2 DEF IInv, TaskInv, ReadInv
  <2>2. q = pos[t] /\ acc[t] = Truth(q) /\ q + 1 .. at[t] = {}
    BY <2>1 DEF Leads
  <2>3. q = at[t]
    BY <1>1, <2>2
  <2> QED
    BY <2>2, <2>3
<1> QED
  BY <1>1, <1>2

LEMMA AnswerStep ==
  ASSUME IInv, NEW t \in Tasks, Answer(t)
  PROVE  IInv'
<1>1. /\ Finish(t, "state", at[t], acc[t])
      /\ UNCHANGED <<logVars, cache, sent>>
      /\ pc[t] = "replay" /\ DOMAIN todo[t] = {}
  BY DEF Answer, Ready
<1>2. at[t] \in Nat /\ acc[t] \in Doc /\ floor \in Nat
  BY DEF IInv, TypeOK
<1>3. PICK n \in Nat, d \in Doc : n = at[t] /\ d = acc[t]
  BY <1>2
<1>4. /\ n <= Committed
      /\ d = (IF n = Seq0 THEN Null ELSE history[n].doc) \/ n < floor
  BY <1>1, <1>2, <1>3, ReadyIs DEF Truth
<1>5. TaskType' /\ Others(t) /\ TaskInv(t)'
  BY <1>1, <1>3, <1>4, FinishStep DEF IInv, logVars, Committed, Statuses
<1> QED
  BY <1>1, <1>5, QuietStep DEF Quiet

LEMMA RevertSourceStep ==
  ASSUME IInv, NEW t \in Tasks, RevertSource(t)
  PROVE  IInv'
<1>1. /\ pc[t] = "replay" /\ DOMAIN todo[t] = {} /\ goal[t] = "revert_from"
      /\ pc' = [pc EXCEPT ![t] = "head"]
      /\ goal' = [goal EXCEPT ![t] = "revert_to"]
      /\ at' = [at EXCEPT ![t] = req[t].arg]
      /\ from' = [from EXCEPT ![t] = acc[t]]
      /\ UNCHANGED <<logVars, cache, lock, req, acc, pos, todo, reply, sent>>
  BY DEF RevertSource, Ready, Goto
<1>2. TaskType'
  BY <1>1 DEF IInv, TypeOK, TaskType, Pcs, Goals, Request
<1>3. Others(t)
  BY <1>1 DEF IInv, TypeOK, Others, Same
<1>4. TaskInv(t)'
  <2>1. pc'[t] = "head" /\ goal'[t] = "revert_to"
    BY <1>1 DEF IInv, TypeOK
  <2>2. ModeInv(t)'
    BY <1>1, <2>1 DEF IInv, TaskInv, ModeInv, Writing, WriteModes, Idle
  <2>3. ReadInv(t)'
    BY <1>1, <2>1 DEF IInv, TaskInv, ReadInv, logVars, Idle, Committed, Truth
  <2>4. CommittedInv(t)' /\ LockInv(t)'
    BY <1>1, <2>1 DEF IInv, TaskInv, CommittedInv, LockInv, Writing, Idle
  <2> QED
    BY <2>2, <2>3, <2>4 DEF TaskInv
<1> QED
  BY <1>1, <1>2, <1>3, <1>4, QuietStep DEF Quiet

LEMMA RevertTargetStep ==
  ASSUME IInv, NEW t \in Tasks, RevertTarget(t)
  PROVE  IInv'
<1>1. /\ pc[t] = "replay" /\ DOMAIN todo[t] = {} /\ goal[t] = "revert_to"
      /\ pc' = [pc EXCEPT ![t] = "state"]
      /\ goal' = [goal EXCEPT ![t] = "write"]
      /\ req' = [req EXCEPT ![t].patch = Diff(from[t], acc[t])]
      /\ UNCHANGED <<logVars, cache, lock, at, acc, pos, todo, from, reply, sent>>
  BY DEF RevertTarget, Ready, Goto, readVars
<1>2. /\ Diff(from[t], acc[t]) \in Patch /\ req[t] \in Request
      /\ req'[t] = [req[t] EXCEPT !.patch = Diff(from[t], acc[t])]
  BY <1>1, DiffType DEF IInv, TypeOK
<1>3. req'[t] \in Request /\ req'[t].mode = req[t].mode
  BY <1>2 DEF Request
<1>4. TaskType'
  BY <1>1, <1>3 DEF IInv, TypeOK, TaskType, Pcs, Goals
<1>5. Others(t)
  BY <1>1 DEF IInv, TypeOK, Others, Same
<1>6. TaskInv(t)'
  <2>1. pc'[t] = "state" /\ goal'[t] = "write" /\ req[t].mode = "revert"
    BY <1>1 DEF IInv, TypeOK, TaskInv, ModeInv
  <2>2. ModeInv(t)'
    BY <1>3, <2>1 DEF ModeInv, Writing, WriteModes, Idle
  <2>3. ReadInv(t)'
    BY <1>1, <2>1 DEF IInv, TaskInv, ReadInv, logVars, Idle, Committed, Truth
  <2>4. CommittedInv(t)' /\ LockInv(t)'
    BY <1>1, <1>3, <2>1 DEF IInv, TaskInv, CommittedInv, LockInv, Writing, Idle
  <2> QED
    BY <2>2, <2>3, <2>4 DEF TaskInv
<1> QED
  BY <1>1, <1>4, <1>5, <1>6, QuietStep DEF Quiet

-----------------------------------------------------------------------------
(* Steps that change the log, the cache or what was sent.                  *)

\* Any step preserves the invariant that preserves its shared parts, treats
\* its own task right, and leaves alone what the locks of others protect.
LEMMA SharedStep ==
  ASSUME IInv, NEW t \in Tasks, Others(t), TaskType', TaskInv(t)',
         SharedType', LogInv', CacheSound', SentInv',
         Grows, \A u \in Tasks \ {t} : Calm(u)
  PROVE  IInv'
<1>1. TypeOK'
  BY DEF TypeOK, SharedType, TaskType
<1>2. ASSUME NEW u \in Tasks PROVE TaskInv(u)'
  <2>1. CASE u = t
    BY <2>1
  <2>2. CASE u # t
    BY <2>2, TaskFrame DEF IInv, Others
  <2> QED
    BY <2>1, <2>2
<1> QED
  BY <1>1, <1>2 DEF IInv

\* Reading back the committed event gives the state after it: the lock keeps
\* other writers out, and a compaction that covers it leaves that very state.
LEMMA ReloadStep ==
  ASSUME IInv, NEW t \in Tasks, Reload(t)
  PROVE  IInv'
<1> DEFINE p == ReadBack(pos[t]).patch
<1>1. /\ pc[t] = "reload" /\ UNCHANGED <<logVars, cache, sent>>
      /\ \/ /\ Applies(acc[t], p)
            /\ acc' = [acc EXCEPT ![t] = Apply(acc[t], p)]
            /\ pc' = [pc EXCEPT ![t] = IF CacheHit(pos[t]) THEN "put" ELSE "dispatch"]
            /\ UNCHANGED <<lock, req, goal, at, pos, from, todo, reply>>
         \/ Finish(t, "patch", pos[t], Null)
  BY DEF Reload, Goto
<1>2. /\ Writing(t) /\ pos[t] = Committed /\ pos[t] \in 1 .. Committed
      /\ acc[t] = Truth(pos[t] - 1)
      /\ floor \in Nat /\ Committed \in Nat /\ acc[t] \in Doc
  BY <1>1, NumberTypes
  DEF IInv, TypeOK, TaskInv, ModeInv, CommittedInv, LockInv, Idle
<1>3. PICK n \in Nat : n = pos[t]
  BY <1>2
<1>4. n \in DOMAIN events /\ events[n] \in Event /\ FirstFrom(events, n) = n
  <2>1. n \in DOMAIN events /\ events[n] \in Event /\ DOMAIN events \subseteq Nat
    BY <1>2, <1>3 DEF IInv, LogInv, TypeOK
  <2> QED
    BY <2>1, FirstFromIs
<1>5. p = Upcast(events[n]).patch
  BY <1>3, <1>4 DEF ReadBack
<1>6. p \in Patch
  BY <1>4, <1>5, UpcastIs DEF Event
<1> HIDE DEF p
<1>7. CASE Finish(t, "patch", pos[t], Null)
  BY <1>1, <1>3, <1>7, ErrorStep DEF Quiet, Statuses
<1>8. CASE /\ Applies(acc[t], p)
           /\ acc' = [acc EXCEPT ![t] = Apply(acc[t], p)]
           /\ pc' = [pc EXCEPT ![t] = IF CacheHit(pos[t]) THEN "put" ELSE "dispatch"]
           /\ UNCHANGED <<lock, req, goal, at, pos, from, todo, reply>>
  <2>1. Apply(acc[t], p) \in Doc
    BY <1>2, <1>6, <1>8, ApplyType
  <2>2. Apply(acc[t], p) = Truth(n)
    <3>1. CASE n > floor
      <4>1. Step(acc[t], p) = Truth(n)
        BY <1>2, <1>3, <1>5, <3>1 DEF IInv, LogInv
      <4> QED
        BY <1>2, <1>8, <4>1, StepIs
    <3>2. CASE n = floor
      <4>1. events[n] = [kind |-> SnapshotKind, patch |-> Replace(Truth(n))]
        BY <1>2, <1>3, <3>2 DEF IInv, LogInv
      <4>2. p = Replace(Truth(n))
        BY <1>4, <1>5, <4>1, UpcastIs DEF SnapshotKind, EditKind
      <4> QED
        BY <4>2, ReplaceIs
    <3> QED
      BY <1>2, <1>3, <3>1, <3>2 DEF IInv, LogInv
  <2>3. TaskType'
    BY <1>8, <2>1 DEF IInv, TypeOK, TaskType, Pcs
  <2>4. Others(t)
    BY <1>8 DEF IInv, TypeOK, Others, Same
  <2>5. TaskInv(t)'
    <3>1. pc'[t] \in {"put", "dispatch"} /\ acc'[t] = Truth(n)
      BY <1>8, <2>2 DEF IInv, TypeOK
    <3>2. ModeInv(t)'
      BY <1>1, <1>2, <1>8, <3>1 DEF IInv, TaskInv, ModeInv, Writing, Idle
    <3>3. ReadInv(t)'
      BY <1>1, <1>8, <3>1
      DEF IInv, TaskInv, ReadInv, logVars, Idle, Committed, Truth
    <3>4. CommittedInv(t)'
      BY <1>1, <1>2, <1>3, <1>8, <3>1
      DEF CommittedInv, logVars, Committed, Truth
    <3>5. LockInv(t)'
      BY <1>1, <1>2, <1>8, <3>1 DEF IInv, TaskInv, LockInv, Writing, Idle
    <3> QED
      BY <3>2, <3>3, <3>4, <3>5 DEF TaskInv
  <2> QED
    BY <1>1, <2>3, <2>4, <2>5, QuietStep DEF Quiet
<1> QED
  BY <1>1, <1>7, <1>8

\* A step that changes no more than the cache, and keeps it sound.
LEMMA CacheStep ==
  ASSUME IInv, NEW t \in Tasks, UNCHANGED <<logVars, sent>>,
         Others(t), TaskType', TaskInv(t)',
         DOMAIN cache' \subseteq Nat \ {0},
         \A n \in DOMAIN cache' : /\ cache'[n] \in Doc
                                  /\ n <= Committed /\ cache'[n] = Truth(n)
  PROVE  IInv'
<1> USE DEF logVars
<1>1. SharedType' /\ LogInv' /\ SentInv'
  BY TypeSplit
  DEF IInv, SharedType, LogInv, SentInv, Committed, Truth, Upcast
<1>2. CacheSound'
  BY DEF CacheSound, Committed, Truth
<1>3. Grows
  BY NumberTypes DEF IInv, Grows, Committed
<1>4. \A u \in Tasks \ {t} : Calm(u)
  BY DEF Calm, Committed
<1> QED
  BY <1>1, <1>2, <1>3, <1>4, SharedStep

\* A write goes on, with what it committed still in hand.
LEMMA GoOnStep ==
  ASSUME IInv, NEW t \in Tasks, UNCHANGED <<logVars, sent>>,
         NEW label \in {"prune", "dispatch"}, pc[t] \in {"put", "prune"}, Writing(t),
         pc' = [pc EXCEPT ![t] = label],
         UNCHANGED <<lock, req, goal, readVars, from, reply>>
  PROVE  Others(t) /\ TaskType' /\ TaskInv(t)'
<1> USE DEF readVars
<1>1. TaskType'
  BY DEF IInv, TypeOK, TaskType, Pcs
<1>2. Others(t)
  BY DEF IInv, TypeOK, Others, Same
<1>3. TaskInv(t)'
  <2>1. pc'[t] \in {"prune", "dispatch"}
    BY DEF IInv, TypeOK
  <2>2. ModeInv(t)'
    BY <2>1 DEF IInv, TaskInv, ModeInv, Writing, Idle
  <2>3. ReadInv(t)'
    BY <2>1 DEF IInv, TaskInv, ReadInv, logVars, Idle, Committed, Truth
  <2>4. CommittedInv(t)'
    BY <2>1 DEF IInv, TaskInv, CommittedInv, Writing, logVars, Committed, Truth
  <2>5. LockInv(t)'
    BY <2>1 DEF IInv, TaskInv, LockInv, Writing, Idle
  <2> QED
    BY <2>2, <2>3, <2>4, <2>5 DEF TaskInv
<1> QED
  BY <1>1, <1>2, <1>3

LEMMA PutCacheStep ==
  ASSUME IInv, NEW t \in Tasks, PutCache(t)
  PROVE  IInv'
<1>1. /\ pc[t] = "put" /\ UNCHANGED <<logVars, sent>>
      /\ cache' = Put(cache, pos[t], acc[t])
  BY DEF PutCache
<1>2. /\ Writing(t) /\ pos[t] \in 1 .. Committed /\ pos[t] \in Nat
      /\ acc[t] = Truth(pos[t]) /\ acc[t] \in Doc
  BY <1>1 DEF IInv, TypeOK, TaskInv, ModeInv, CommittedInv
<1>3. /\ DOMAIN cache' \subseteq Nat \ {0}
      /\ \A n \in DOMAIN cache' : /\ cache'[n] \in Doc
                                  /\ n <= Committed /\ cache'[n] = Truth(n)
  BY <1>1, <1>2 DEF IInv, TypeOK, CacheSound, Put, Committed
<1>4. CASE Finish(t, "ok", pos[t], Null)
  <2>1. Null \in Doc
    BY DEF Doc
  <2>2. Others(t) /\ TaskType' /\ TaskInv(t)'
    BY <1>2, <1>4, <2>1, FinishStep DEF IInv, Statuses
  <2> QED
    BY <1>1, <1>3, <2>2, CacheStep
<1>5. CASE /\ Goto(t, IF CacheKeep > 0 THEN "prune" ELSE "dispatch")
           /\ UNCHANGED <<lock, req, goal, readVars, from, reply>>
  <2>1. Others(t) /\ TaskType' /\ TaskInv(t)'
    BY <1>1, <1>2, <1>5, GoOnStep DEF Goto
  <2> QED
    BY <1>1, <1>3, <2>1, CacheStep
<1> QED
  BY <1>4, <1>5 DEF PutCache

LEMMA PruneCacheStep ==
  ASSUME IInv, NEW t \in Tasks, PruneCache(t)
  PROVE  IInv'
<1>1. PICK ok \in BOOLEAN :
        LET explicit == req[t].mode = "prune_cache"
            keep == IF explicit THEN req[t].arg ELSE CacheKeep
        IN
        /\ cache' = IF ok THEN Pruned(cache, keep) ELSE cache
        /\ IF HasSinks /\ ~explicit
           THEN /\ Goto(t, "dispatch")
                /\ UNCHANGED <<lock, req, goal, readVars, from, reply>>
           ELSE Finish(t, IF ok \/ ~explicit THEN "ok" ELSE "busy", pos[t], Null)
  BY StoreAssumption DEF PruneCache
<1>2. pc[t] = "prune" /\ UNCHANGED <<logVars, sent>>
  BY DEF PruneCache
<1>3. /\ DOMAIN cache' \subseteq Nat \ {0}
      /\ \A n \in DOMAIN cache' : /\ cache'[n] \in Doc
                                  /\ n <= Committed /\ cache'[n] = Truth(n)
  <2>1. /\ DOMAIN cache' \subseteq DOMAIN cache
        /\ \A n \in DOMAIN cache' : cache'[n] = cache[n]
    BY <1>1 DEF Pruned, Without
  <2> QED
    BY <2>1 DEF IInv, TypeOK, CacheSound, Committed
<1>4. ASSUME NEW s \in {"ok", "busy"}, Finish(t, s, pos[t], Null)
      PROVE  IInv'
  <2>1. Null \in Doc /\ pos[t] \in Nat
    BY DEF Doc, IInv, TypeOK
  <2>2. Others(t) /\ TaskType' /\ TaskInv(t)'
    BY <1>4, <2>1, FinishStep DEF IInv, Statuses
  <2> QED
    BY <1>2, <1>3, <2>2, CacheStep
<1>5. CASE /\ req[t].mode # "prune_cache" /\ Goto(t, "dispatch")
           /\ UNCHANGED <<lock, req, goal, readVars, from, reply>>
  <2>1. Writing(t)
    BY <1>2, <1>5 DEF IInv, TaskInv, ModeInv
  <2>2. Others(t) /\ TaskType' /\ TaskInv(t)'
    BY <1>2, <1>5, <2>1, GoOnStep DEF Goto
  <2> QED
    BY <1>2, <1>3, <2>2, CacheStep
<1> QED
  BY <1>1, <1>4, <1>5

\* The lock makes the sinks of an instance see its events once and in order.
LEMMA DispatchStep ==
  ASSUME IInv, NEW t \in Tasks, Dispatch(t)
  PROVE  IInv'
<1> DEFINE i == Home[t]
           new == [seq |-> pos[t], doc |-> acc[t]]
<1>1. /\ pc[t] = "dispatch" /\ UNCHANGED <<logVars, cache>>
      /\ sent' = [sent EXCEPT ![i] = Append(sent[i], new)]
      /\ Finish(t, "ok", pos[t], Null)
  BY DEF Dispatch
<1>2. /\ Writing(t) /\ pos[t] \in 1 .. Committed /\ pos[t] \in Nat
      /\ acc[t] = Truth(pos[t]) /\ acc[t] \in Doc /\ lock[i] = t
      /\ \A k \in 1 .. Len(sent[i]) : sent[i][k].seq < pos[t]
      /\ i \in Instances /\ Committed \in Nat /\ floor \in Nat
  BY <1>1, HomeType, NumberTypes
  DEF IInv, TypeOK, TaskInv, ModeInv, CommittedInv, LockInv, Idle
<1>3. new \in SentState
  BY <1>2 DEF SentState
<1> HIDE DEF new
<1>4. PICK e \in SentState : e = new /\ e.seq = pos[t] /\ e.doc = acc[t]
  BY <1>3 DEF new
<1>5. /\ sent[i] \in Seq(SentState)
      /\ Append(sent[i], e) \in Seq(SentState)
      /\ Len(sent[i]) \in Nat /\ Len(Append(sent[i], e)) = Len(sent[i]) + 1
      /\ \A k \in 1 .. Len(sent[i]) : Append(sent[i], e)[k] = sent[i][k]
      /\ Append(sent[i], e)[Len(sent[i]) + 1] = e
  <2>1. sent[i] \in Seq(SentState)
    BY <1>2 DEF IInv, TypeOK
  <2> QED
    BY <2>1, AppendProperties
<1>6. /\ sent'[i] = Append(sent[i], e)
      /\ \A j \in Instances \ {i} : sent'[j] = sent[j]
      /\ sent' \in [Instances -> Seq(SentState)]
  BY <1>1, <1>2, <1>4, <1>5 DEF IInv, TypeOK
<1>7. SharedType'
  BY <1>1, <1>6 DEF IInv, TypeOK, SharedType, logVars
<1>8. LogInv' /\ CacheSound'
  BY <1>1 DEF IInv, LogInv, CacheSound, Committed, Truth, Upcast, logVars
<1>9. SentInv'
  <2>1. ASSUME NEW j \in Instances, NEW k \in 1 .. Len(sent'[j])
        PROVE  /\ sent'[j][k].seq \in 1 .. Committed
               /\ sent'[j][k].doc = Truth(sent'[j][k].seq)
               /\ k > 1 => sent'[j][k - 1].seq < sent'[j][k].seq
    <3>1. CASE j # i
      BY <1>6, <2>1, <3>1 DEF IInv, SentInv
    <3>2. CASE j = i /\ k \in 1 .. Len(sent[i])
      <4>1. k > 1 => k - 1 \in 1 .. Len(sent[i])
        BY <1>5, <3>2
      <4>2. /\ sent'[j][k] = sent[i][k]
            /\ k > 1 => sent'[j][k - 1] = sent[i][k - 1]
        BY <1>5, <1>6, <3>2, <4>1
      <4> QED
        BY <1>2, <3>2, <4>2 DEF IInv, SentInv
    <3>3. CASE j = i /\ k = Len(sent[i]) + 1
      <4>1. k > 1 => k - 1 \in 1 .. Len(sent[i])
        BY <1>5, <3>3
      <4>2. /\ sent'[j][k] = e
            /\ k > 1 => sent'[j][k - 1] = sent[i][k - 1]
        BY <1>5, <1>6, <3>3, <4>1
      <4>3. k > 1 => sent[i][k - 1].seq < pos[t]
        BY <1>2, <4>1
      <4>4. e.seq \in 1 .. Committed /\ e.doc = Truth(e.seq)
        BY <1>2, <1>4
      <4> QED
        BY <1>4, <4>2, <4>3, <4>4
    <3> QED
      BY <1>5, <1>6, <2>1, <3>1, <3>2, <3>3
  <2> QED
    BY <1>1, <2>1 DEF SentInv, Committed, Truth, logVars
<1>10. Others(t) /\ TaskType' /\ TaskInv(t)'
  <2>1. Null \in Doc
    BY DEF Doc
  <2> QED
    BY <1>1, <1>2, <2>1, FinishStep DEF IInv, Statuses
<1>11. Grows
  BY <1>1, <1>2 DEF Grows, Committed, logVars
<1>12. ASSUME NEW u \in Tasks \ {t} PROVE Calm(u)
  <2>1. CASE Writing(u) /\ pc[u] \notin {Idle, "lock"}
    <3>1. lock[Home[u]] = u
      BY <2>1 DEF IInv, TaskInv, LockInv
    <3>2. Home[u] \in Instances \ {i}
      BY <1>2, <3>1, HomeType
    <3> QED
      BY <1>1, <1>6, <3>2 DEF Calm, Committed, logVars
  <2> QED
    BY <2>1 DEF Calm
<1> QED
  BY <1>7, <1>8, <1>9, <1>10, <1>11, <1>12, SharedStep

\* A compaction, which takes no lock, may put a wrong snapshot only below a
\* coordinate that is compacted already.
LEMMA CompactStep ==
  ASSUME IInv, NEW t \in Tasks, CompactTx(t)
  PROVE  IInv'
<1>1. /\ pc[t] = "replay" /\ DOMAIN todo[t] = {} /\ goal[t] = "snapshot"
      /\ events' = Compacted(events, req[t].arg, acc[t])
      /\ cache' = Without(cache, 1 .. (req[t].arg - 1))
      /\ floor' = IF req[t].arg > floor THEN req[t].arg ELSE floor
      /\ Finish(t, "ok", req[t].arg, Null)
      /\ UNCHANGED <<history, sent>>
  BY DEF CompactTx, Ready
<1>2. req[t].arg = at[t] /\ at[t] \in Nat /\ at[t] # 0 /\ acc[t] \in Doc
  BY <1>1 DEF IInv, TypeOK, TaskInv, ModeInv, Seq0
<1>3. PICK k \in Nat, d \in Doc : k = req[t].arg /\ d = acc[t]
  BY <1>2
<1>4. /\ k # 0 /\ k \in 1 .. Committed /\ (k >= floor => d = Truth(k))
      /\ floor \in Nat /\ Committed \in Nat
  BY <1>1, <1>2, <1>3, ReadyIs, NumberTypes DEF IInv
<1>5. /\ DOMAIN events' = (DOMAIN events \ (1 .. k)) \cup {k}
      /\ events'[k] = [kind |-> SnapshotKind, patch |-> Replace(d)]
      /\ \A n \in DOMAIN events : n > k => events'[n] = events[n]
  <2>1. DOMAIN events \subseteq Nat \ {0}
    BY DEF IInv, TypeOK
  <2>2. events' = Compacted(events, k, d)
    BY <1>1, <1>3
  <2>3. \A n \in DOMAIN events : n > k => n # k /\ n \in DOMAIN events \ (1 .. k)
    BY <2>1
  <2> QED
    BY <2>2, <2>3 DEF Compacted
<1>6. SharedType'
  <2>1. events'[k] \in Event
    BY <1>5 DEF Event, Patch, Replace, SnapshotKind, Kinds
  <2>2. floor' \in Nat
    BY <1>1, <1>3, <1>4
  <2>3. /\ DOMAIN cache' \subseteq DOMAIN cache
        /\ \A n \in DOMAIN cache' : cache'[n] = cache[n]
    BY <1>1 DEF Without
  <2> QED
    BY <1>1, <1>4, <1>5, <2>1, <2>2, <2>3 DEF IInv, TypeOK, SharedType
<1>7. LogInv'
  <2>1. /\ floor' <= Committed /\ floor' \in Nat /\ floor <= floor' /\ k <= floor'
        /\ Committed' = Committed
    BY <1>1, <1>3, <1>4 DEF IInv, LogInv, Committed
  <2>2. DOMAIN events' \subseteq 1 .. Committed
    BY <1>4, <1>5 DEF IInv, LogInv
  <2>3. \A n \in 1 .. Committed : n >= floor' => n \in DOMAIN events'
    BY <1>4, <1>5, <2>1 DEF IInv, LogInv
  <2>4. ASSUME NEW n \in 1 .. Committed, n > floor'
        PROVE  Step(Truth(n - 1), Upcast(events'[n]).patch) = Truth(n)
    <3>1. n > floor /\ n >= floor /\ n > k
      BY <1>4, <2>1, <2>4
    <3>2. n \in DOMAIN events /\ events'[n] = events[n]
      BY <1>5, <3>1 DEF IInv, LogInv
    <3> QED
      BY <3>1, <3>2 DEF IInv, LogInv
  <2>5. /\ events'[floor'] = [kind |-> SnapshotKind, patch |-> Replace(Truth(floor'))]
        /\ Truth(floor') \in Doc
    <3>1. CASE k >= floor
      <4>1. floor' = k
        BY <1>1, <1>3, <1>4, <3>1
      <4> QED
        BY <1>4, <1>5, <3>1, <4>1
    <3>2. CASE k < floor
      <4>1. floor' = floor /\ floor > 0 /\ floor \in 1 .. Committed
        BY <1>1, <1>3, <1>4, <3>2 DEF IInv, LogInv
      <4>2. floor \in DOMAIN events /\ events'[floor] = events[floor]
        BY <1>4, <1>5, <3>2, <4>1 DEF IInv, LogInv
      <4> QED
        BY <4>1, <4>2 DEF IInv, LogInv
    <3> QED
      BY <1>4, <3>1, <3>2
  <2>6. \A n \in Nat : Truth(n)' = IF n = 0 THEN Null ELSE history[n].doc
    BY <1>1 DEF Truth, Seq0
  <2> QED
    BY <1>1, <2>1, <2>2, <2>3, <2>4, <2>5 DEF LogInv, Truth, Committed, Upcast
<1>8. CacheSound'
  BY <1>1 DEF IInv, CacheSound, Without, Truth
<1>9. SentInv'
  BY <1>1 DEF IInv, SentInv, Committed, Truth
<1>10. Others(t) /\ TaskType' /\ TaskInv(t)'
  <2>1. Null \in Doc
    BY DEF Doc
  <2> QED
    BY <1>1, <1>3, <2>1, FinishStep DEF IInv, Statuses
<1>11. Grows
  BY <1>1, <1>3, <1>4 DEF Grows, Committed
<1>12. \A u \in Tasks \ {t} : Calm(u)
  BY <1>1 DEF Calm, Committed
<1> QED
  BY <1>6, <1>7, <1>8, <1>9, <1>10, <1>11, <1>12, SharedStep

\* The state a write was judged on and computed from is the current one when
\* it commits: the lock, or the backend's comparison of heads, sees to it.
LEMMA CommitCurrent ==
  ASSUME IInv, NEW t \in Tasks, Ready(t, "write"), ~HeadMoved(t)
  PROVE  /\ acc[t] = Truth(Committed)
         /\ Writing(t) /\ lock[Home[t]] = t
<1>1. /\ pc[t] = "replay" /\ DOMAIN todo[t] = {} /\ goal[t] = "write"
      /\ Writing(t) /\ lock[Home[t]] = t
  BY DEF Ready, IInv, TaskInv, ModeInv, LockInv, Idle
<1>2. at[t] = Committed
  <2>1. CASE req[t].mode = "append_if_head"
    <3>1. at[t] = req[t].arg /\ req[t].arg = HeadSeq(events)
      BY <1>1, <2>1 DEF HeadMoved, IInv, TaskInv, ModeInv
    <3> QED
      BY <3>1, HeadIsCommitted
  <2>2. CASE req[t].mode # "append_if_head"
    BY <1>1, <2>2 DEF IInv, TaskInv, LockInv, Idle
  <2> QED
    BY <2>1, <2>2
<1> QED
  BY <1>1, <1>2, ReadyIs, NumberTypes DEF IInv, LogInv

\* A step that appends one event to the past.
LEMMA CommitStep ==
  ASSUME IInv, ConditionalInv, NEW t \in Tasks, Commit(t)
  PROVE  IInv'
<1> DEFINE L == Committed
           ev == [kind |-> req[t].kind, patch |-> req[t].patch]
           h == [kind |-> ev.kind, ref |-> req[t].arg,
                 doc |-> Step(Truth(HeadSeq(events)), Upcast(ev).patch)]
<1>1. /\ Ready(t, "write") /\ ~HeadMoved(t)
      /\ events' = Appended(events, ev)
      /\ history' = Append(history, h)
      /\ UNCHANGED <<cache, floor, sent>>
  BY DEF Commit
<1>2. HeadSeq(events) = L /\ L \in Nat /\ floor \in Nat /\ floor <= L
  BY HeadIsCommitted, NumberTypes DEF IInv, LogInv
<1>3. /\ acc[t] = Truth(L) /\ acc[t] \in Doc
      /\ Writing(t) /\ lock[Home[t]] = t
      /\ pc[t] = "replay" /\ DOMAIN todo[t] = {} /\ goal[t] = "write"
  BY <1>1, CommitCurrent DEF IInv, TypeOK, Ready
<1>4. ev \in Event /\ req[t].arg \in Nat /\ req[t].patch \in Patch
  BY DEF IInv, TypeOK, Request, Event
<1>5. /\ Upcast(ev) \in Event /\ Upcast(ev).patch \in Patch
      /\ ~HasUpcasters => Upcast(ev).patch = req[t].patch
  BY <1>4, UpcastIs DEF Event
<1>6. /\ h \in CommittedEvent
      /\ h.doc = Step(Truth(L), Upcast(ev).patch)
  <2>1. Step(acc[t], Upcast(ev).patch) \in Doc \cup {Poison}
    BY <1>3, <1>5, StepType
  <2> QED
    BY <1>2, <1>3, <1>4, <2>1 DEF CommittedEvent, Event
<1> HIDE DEF ev, h
<1>7. PICK e \in Event, c \in CommittedEvent :
        /\ e = ev /\ c = h /\ c.doc = Step(Truth(L), Upcast(e).patch)
  BY <1>4, <1>6
<1>8. /\ history' \in Seq(CommittedEvent) /\ Committed' = L + 1
      /\ \A n \in 1 .. L : history'[n] = history[n]
      /\ history'[L + 1] = c
  <2>1. history \in Seq(CommittedEvent) /\ history' = Append(history, c)
    BY <1>1, <1>7 DEF IInv, TypeOK
  <2> QED
    BY <2>1, AppendProperties DEF Committed
<1>9. /\ DOMAIN events' = DOMAIN events \cup {L + 1}
      /\ events'[L + 1] = e
      /\ \A n \in DOMAIN events : events'[n] = events[n] /\ n \in 1 .. L
  <2>1. DOMAIN events \subseteq 1 .. L
    BY DEF IInv, LogInv
  <2>2. events' = Appended(events, e)
    BY <1>1, <1>7
  <2> QED
    BY <1>2, <2>1, <2>2 DEF Appended
<1>10. /\ \A n \in 0 .. L : (IF n = 0 THEN Null ELSE history'[n].doc) = Truth(n)
       /\ history'[L + 1].doc = Step(Truth(L), Upcast(e).patch)
  BY <1>2, <1>7, <1>8 DEF Truth, Seq0
<1> HIDE DEF L
<1>0. L = Committed /\ Committed' = L + 1
      /\ cache' = cache /\ floor' = floor /\ sent' = sent
  BY <1>1, <1>8 DEF L
<1>11. Grows
  <2>1. L + 1 \in Nat /\ L <= L + 1 /\ floor <= floor
    BY <1>2
  <2>2. \A n \in 1 .. L : history'[n].doc = history[n].doc
    BY <1>8
  <2> QED
    BY <1>0, <1>2, <2>1, <2>2 DEF Grows
<1>12. SharedType'
  BY <1>0, <1>2, <1>8, <1>9 DEF IInv, TypeOK, SharedType
<1>13. LogInv'
  <2>1. ASSUME NEW n \in 1 .. L + 1
        PROVE  /\ n >= floor => n \in DOMAIN events'
               /\ n > floor => Step((IF n - 1 = 0 THEN Null ELSE history'[n - 1].doc),
                                    Upcast(events'[n]).patch) = history'[n].doc
    <3>1. CASE n = L + 1
      <4>1. n - 1 = L
        BY <1>2, <3>1
      <4> QED
        BY <1>2, <1>9, <1>10, <3>1, <4>1
    <3>2. CASE n \in 1 .. L
      <4>1. /\ n - 1 \in 0 .. L /\ n \in 0 .. L /\ n # 0
            /\ n >= floor => n \in DOMAIN events
            /\ n > floor => /\ n >= floor
                            /\ Step(Truth(n - 1), Upcast(events[n]).patch) = Truth(n)
        BY <1>0, <1>2, <3>2 DEF IInv, LogInv
      <4> QED
        BY <1>9, <1>10, <4>1
    <3> QED
      BY <1>2, <3>1, <3>2
  <2>2. floor > 0 => /\ events'[floor] = [kind |-> SnapshotKind,
                                           patch |-> Replace(history'[floor].doc)]
                     /\ history'[floor].doc \in Doc
    BY <1>2, <1>9, <1>10 DEF IInv, LogInv
  <2>3. DOMAIN events' \subseteq 1 .. L + 1 /\ floor <= L + 1
    BY <1>2, <1>9
  <2>4. \A n \in 1 .. L + 1 : n # 0 /\ n \in Nat
    BY <1>2
  <2> QED
    BY <1>0, <2>1, <2>2, <2>3, <2>4 DEF LogInv, Truth, Seq0, Upcast
<1>14. CacheSound'
  <2>1. ASSUME NEW n \in DOMAIN cache
        PROVE  n # 0 /\ n \in 1 .. L /\ cache[n] = history'[n].doc
    <3>1. n \in Nat \ {0} /\ n <= L /\ cache[n] = Truth(n)
      BY <1>0 DEF IInv, TypeOK, CacheSound, Committed
    <3> QED
      BY <1>2, <1>10, <3>1
  <2>2. Committed' = Len(history')
    BY DEF Committed
  <2> QED
    BY <1>0, <1>2, <2>1, <2>2 DEF CacheSound, Truth, Seq0
<1>15. SentInv'
  <2>1. ASSUME NEW i \in Instances, NEW k \in 1 .. Len(sent[i])
        PROVE  sent[i][k].seq \in 1 .. L /\ sent[i][k].doc = history'[sent[i][k].seq].doc
    <3>1. sent[i][k].seq \in 1 .. L /\ sent[i][k].doc = Truth(sent[i][k].seq)
      BY <1>0 DEF IInv, SentInv
    <3> QED
      BY <1>2, <1>8, <3>1 DEF Truth, Seq0
  <2>2. \A n \in 1 .. L : n # 0 /\ n \in 1 .. L + 1
    BY <1>2
  <2>3. \A i \in Instances : \A k \in 1 .. Len(sent[i]) :
          k > 1 => sent[i][k - 1].seq < sent[i][k].seq
    BY DEF IInv, SentInv
  <2> QED
    BY <1>0, <2>1, <2>2, <2>3 DEF SentInv, Truth, Seq0
<1>16. ASSUME NEW u \in Tasks \ {t} PROVE Calm(u)
  <2>1. CASE Writing(u) /\ pc[u] \notin {Idle, "lock"}
    <3>1. lock[Home[u]] = u
      BY <2>1 DEF IInv, TaskInv, LockInv
    <3>2. Home[u] # Home[t]
      BY <1>3, <3>1
    <3>3. ~HasUpcasters /\ req[u].mode = "append_if_head"
      BY <2>1, <3>2 DEF ConditionalInv, SingleStore, Writing, WriteModes
    <3> QED
      BY <1>0, <3>3 DEF Calm
  <2> QED
    BY <2>1 DEF Calm
<1>17. Others(t) /\ TaskType' /\ TaskInv(t)'
  <2>1. Null \in Doc /\ L + 1 \in Nat
    BY <1>2 DEF Doc
  <2>2. CASE Finish(t, "ok", L + 1, Null)
    BY <2>1, <2>2, FinishStep DEF IInv, Statuses
  <2>3. CASE Finish(t, "patch", L + 1, Null)
    BY <2>1, <2>3, FinishStep DEF IInv, Statuses
  <2>4. CASE /\ HasUpcasters \/ Applies(acc[t], req[t].patch)
             /\ pos' = [pos EXCEPT ![t] = L + 1]
             /\ acc' = [acc EXCEPT ![t] = IF HasUpcasters THEN acc[t] ELSE NextState(t)]
             /\ Goto(t, IF HasUpcasters THEN "reload"
                        ELSE IF CacheHit(L + 1) THEN "put" ELSE "dispatch")
             /\ UNCHANGED <<lock, req, goal, at, from, todo, reply>>
    <3>1. ~HasUpcasters => NextState(t) = history'[L + 1].doc /\ NextState(t) \in Doc
      <4>1. SUFFICES ASSUME ~HasUpcasters
                     PROVE  NextState(t) = history'[L + 1].doc /\ NextState(t) \in Doc
        OBVIOUS
      <4>2. /\ Applies(acc[t], req[t].patch)
            /\ Upcast(e).patch = req[t].patch
        BY <1>5, <1>7, <2>4, <4>1
      <4> QED
        BY <1>3, <1>4, <1>10, <4>2, ApplyType, StepIs DEF NextState
    <3>2. TaskType'
      BY <1>3, <2>1, <2>4, <3>1 DEF IInv, TypeOK, TaskType, Pcs, Goto
    <3>3. Others(t)
      BY <2>4 DEF IInv, TypeOK, Others, Same, Goto
    <3>4. /\ pc'[t] \in {"reload", "put", "dispatch"}
          /\ pos'[t] = L + 1
          /\ HasUpcasters => pc'[t] = "reload" /\ acc'[t] = Truth(L)
          /\ ~HasUpcasters => pc'[t] # "reload" /\ acc'[t] = history'[L + 1].doc
      BY <1>3, <2>4, <3>1 DEF IInv, TypeOK, Goto
    <3>5. ModeInv(t)'
      BY <1>3, <2>4, <3>4 DEF IInv, TaskInv, ModeInv, Writing, Idle
    <3>6. ReadInv(t)'
      <4>1. reply[t].status = "state" =>
              /\ reply[t].at <= L + 1
              /\ \/ reply[t].doc = IF reply[t].at = 0 THEN Null
                                   ELSE history'[reply[t].at].doc
                 \/ reply[t].at < floor
        BY <1>0, <1>2, <1>10, NumberTypes DEF IInv, TaskInv, ReadInv, Truth, Seq0
      <4> QED
        BY <1>0, <1>3, <2>4, <3>4, <4>1 DEF ReadInv, Idle, Truth, Seq0
    <3>7. CommittedInv(t)'
      <4>1. L + 1 - 1 = L /\ L + 1 \in 1 .. L + 1 /\ L + 1 # 0
        BY <1>2
      <4>2. Truth(L) = IF L = 0 THEN Null ELSE history'[L].doc
        BY <1>2, <1>10
      <4>3. CASE HasUpcasters
        <5>1. pc'[t] = "reload" /\ acc'[t] = Truth(L)
          BY <3>4, <4>3
        <5>2. pos'[t] - 1 = L
          BY <1>2, <3>4
        <5> QED
          BY <1>0, <3>4, <4>1, <4>2, <5>1, <5>2 DEF CommittedInv, Truth, Seq0
      <4>4. CASE ~HasUpcasters
        <5>1. pc'[t] # "reload" /\ acc'[t] = history'[L + 1].doc
          BY <3>4, <4>4
        <5> QED
          BY <1>0, <3>4, <4>1, <5>1 DEF CommittedInv, Truth, Seq0
      <4> QED
        BY <4>3, <4>4
    <3>8. LockInv(t)'
      <4>1. \A k \in 1 .. Len(sent[Home[t]]) : sent[Home[t]][k].seq < L + 1
        BY <1>0, <1>2, HomeType DEF IInv, SentInv
      <4> QED
        BY <1>0, <1>3, <2>4, <3>4, <4>1 DEF LockInv, Writing, Idle
    <3> QED
      BY <3>2, <3>3, <3>5, <3>6, <3>7, <3>8 DEF TaskInv
  <2> QED
    BY <1>2, <2>2, <2>3, <2>4 DEF Commit
<1> QED
  BY <1>11, <1>12, <1>13, <1>14, <1>15, <1>16, <1>17, SharedStep

-----------------------------------------------------------------------------
(* All together.                                                           *)

LEMMA InitInv ==
  ASSUME Serialized, Init
  PROVE  IInv /\ ConditionalInv /\ GatedHistory
<1> USE DEF Init
<1>1. Committed = 0 /\ DOMAIN events = {} /\ DOMAIN cache = {}
  BY DEF Committed
<1>2. TypeOK
  <2>1. NoRequest \in Request /\ NoReply \in [status: Statuses, at: Nat, doc: Doc]
        /\ Null \in Doc
    <3>1. {} \in Object
      BY DEF Object
    <3> QED
      BY <3>1 DEF NoRequest, Request, Patch, Nop, Edit, WriteModes, ReadModes,
                  OtherModes, Kinds, NoReply, Statuses, Doc, Seq0
  <2>2. SharedType
    BY <1>1 DEF SharedType, Seq0
  <2>3. TaskType
    BY <2>1 DEF TaskType, Pcs, Idle, Goals, Seq0
  <2> QED
    BY <2>2, <2>3, TypeSplit
<1>3. LogInv /\ CacheSound /\ SentInv
  BY <1>1 DEF LogInv, CacheSound, SentInv, Seq0, Committed
<1>4. ASSUME NEW t \in Tasks PROVE TaskInv(t)
  BY DEF TaskInv, ModeInv, ReadInv, CommittedInv, LockInv, Writing, WriteModes,
         NoRequest, NoReply, Idle, Seq0
<1>5. ConditionalInv
  BY DEF ConditionalInv, Serialized, OnlyConditional, NoRequest
<1>6. GatedHistory
  BY <1>1 DEF GatedHistory, Committed
<1> QED
  BY <1>2, <1>3, <1>4, <1>5, <1>6 DEF IInv

\* A step of one task.
Steps(t) ==
  \/ \E r \in Menu[t] : Begin(t, r)
  \/ Acquire(t) \/ Proceed(t) \/ BackendFails(t) \/ Drop(t)

LEMMA NextInv ==
  ASSUME IInv, ConditionalInv, NEW t \in Tasks, Steps(t)
  PROVE  IInv'
<1>1. CASE \E r \in Menu[t] : Begin(t, r)
  BY <1>1, BeginStep
<1>2. CASE Acquire(t)
  BY <1>2, AcquireStep
<1>3. CASE StateAt(t)
  <2>1. CASE ReadHead(t)
    BY <2>1, ReadHeadStep
  <2>2. CASE CheckHead(t) \/ CheckBoundary(t)
    BY <2>2, CheckStep
  <2>3. CASE LookUp(t)
    BY <2>3, LookUpStep
  <2>4. CASE ReadEvents(t)
    BY <2>4, ReadEventsStep
  <2>5. CASE Replay(t)
    BY <2>5, ReplayStep
  <2>6. CASE Answer(t)
    BY <2>6, AnswerStep
  <2>7. CASE PastHead(t) \/ BelowBoundary(t) \/ ReplayFails(t)
    BY <2>7, ErrorSteps
  <2> QED
    BY <1>3, <2>1, <2>2, <2>3, <2>4, <2>5, <2>6, <2>7 DEF StateAt
<1>4. CASE Write(t)
  <2>1. CASE RevertSource(t)
    BY <2>1, RevertSourceStep
  <2>2. CASE RevertTarget(t)
    BY <2>2, RevertTargetStep
  <2>3. CASE GateRejects(t) \/ HeadConflict(t)
    BY <2>3, ErrorSteps
  <2>4. CASE Commit(t)
    BY <2>4, CommitStep
  <2>5. CASE Reload(t)
    BY <2>5, ReloadStep
  <2>6. CASE PutCache(t)
    BY <2>6, PutCacheStep
  <2>7. CASE PruneCache(t)
    BY <2>7, PruneCacheStep
  <2>8. CASE Dispatch(t)
    BY <2>8, DispatchStep
  <2> QED
    BY <1>4, <2>1, <2>2, <2>3, <2>4, <2>5, <2>6, <2>7, <2>8 DEF Write
<1>5. CASE CompactTx(t)
  BY <1>5, CompactStep
<1>6. CASE BackendFails(t) \/ Drop(t)
  BY <1>6, ErrorSteps
<1> QED
  BY <1>1, <1>2, <1>3, <1>4, <1>5, <1>6 DEF Steps, Proceed

\* Only the requests on the menus are ever under way.
LEMMA NextConditional ==
  ASSUME Serialized, TypeOK, ConditionalInv, NEW t \in Tasks, Steps(t)
  PROVE  ConditionalInv'
<1>1. CASE SingleStore
  BY <1>1 DEF ConditionalInv
<1>2. CASE OnlyConditional
  <2>1. ASSUME NEW u \in Tasks
        PROVE  req'[u].mode \in {req[u].mode, "none"} \cup {r.mode : r \in Menu[u]}
    <3> USE DEF TypeOK
    <3>1. CASE \E r \in Menu[t] : Begin(t, r)
      BY <3>1 DEF Begin
    <3>2. ASSUME NEW s, NEW n, NEW d, Finish(t, s, n, d)
          PROVE  req'[u].mode \in {req[u].mode, "none"}
      BY <3>2 DEF Finish, NoRequest
    <3>3. CASE Acquire(t)
      BY <3>3 DEF Acquire
    <3>4. CASE BackendFails(t) \/ Drop(t)
      BY <3>2, <3>4 DEF BackendFails, Drop
    <3>5. CASE StateAt(t)
      BY <3>2, <3>5 DEF StateAt, ReadHead, CheckHead, PastHead, CheckBoundary,
                        BelowBoundary, LookUp, ReadEvents, Replay, ReplayFails, Answer
    <3>6. CASE Write(t)
      <4>1. CASE RevertTarget(t)
        BY <4>1 DEF RevertTarget, Request
      <4>2. CASE RevertSource(t) \/ GateRejects(t) \/ HeadConflict(t)
        BY <3>2, <4>2 DEF RevertSource, GateRejects, HeadConflict
      <4>3. CASE Commit(t)
        BY <3>2, <4>3 DEF Commit
      <4>4. CASE Reload(t)
        BY <3>2, <4>4 DEF Reload
      <4>5. CASE PutCache(t) \/ PruneCache(t) \/ Dispatch(t)
        BY <3>2, <4>5 DEF PutCache, PruneCache, Dispatch
      <4> QED
        BY <3>6, <4>1, <4>2, <4>3, <4>4, <4>5 DEF Write
    <3>7. CASE CompactTx(t)
      BY <3>2, <3>7 DEF CompactTx
    <3> QED
      BY <3>1, <3>3, <3>4, <3>5, <3>6, <3>7 DEF Steps, Proceed
  <2> QED
    BY <1>2, <2>1 DEF ConditionalInv, OnlyConditional
<1> QED
  BY <1>1, <1>2 DEF Serialized

\* The inductive invariant holds whenever one lock serializes the writers of
\* the stream, or all of them are conditional.
THEOREM Inductive ==
  ASSUME Serialized
  PROVE  Spec => [](IInv /\ ConditionalInv)
<1>1. Init => IInv /\ ConditionalInv
  BY InitInv
<1>2. IInv /\ ConditionalInv /\ [Next]_vars => (IInv /\ ConditionalInv)'
  <2> SUFFICES ASSUME IInv, ConditionalInv, [Next]_vars
               PROVE  (IInv /\ ConditionalInv)'
    OBVIOUS
  <2>1. CASE Next
    <3>1. PICK t \in Tasks : Steps(t)
      BY <2>1 DEF Next, Steps
    <3>2. TypeOK
      BY DEF IInv
    <3> QED
      BY <3>1, <3>2, NextInv, NextConditional
  <2>2. CASE UNCHANGED vars
    <3>1. IInv'
      BY <2>2 DEF IInv, TypeOK, LogInv, CacheSound, SentInv, TaskInv, ModeInv,
                  ReadInv, CommittedInv, LockInv, Leads, Committed, Truth, Writing,
                  vars
    <3>2. ConditionalInv'
      BY <2>2 DEF ConditionalInv, vars
    <3> QED
      BY <3>1, <3>2
  <2> QED
    BY <2>1, <2>2
<1> QED
  BY <1>1, <1>2, PTL DEF Spec

\* Every variable stays in its type.
THEOREM TypeCorrect ==
  ASSUME Serialized
  PROVE  Spec => []TypeOK
<1>1. IInv => TypeOK
  BY DEF IInv
<1> QED
  BY <1>1, Inductive, PTL

\* A cached snapshot is what the log replays to at its coordinate.
THEOREM CacheIsSound ==
  ASSUME Serialized
  PROVE  Spec => []CacheSound
<1>1. IInv => CacheSound
  BY DEF IInv
<1> QED
  BY <1>1, Inductive, PTL

\* At or above every compacted coordinate, state_at returns the state the
\* stream had.
THEOREM ReadsAreSound ==
  ASSUME Serialized
  PROVE  Spec => []ReadsSoundAboveFloor
<1>1. IInv => ReadsSoundAboveFloor
  BY DEF IInv, TaskInv, ReadInv, ReadsSoundAboveFloor
<1> QED
  BY <1>1, Inductive, PTL

\* Sinks are handed the states of the stream, each once and in log order.
THEOREM DispatchIsSound ==
  ASSUME Serialized
  PROVE  Spec => []DispatchSound
<1>1. IInv => DispatchSound
  BY DEF IInv, SentInv, DispatchSound
<1> QED
  BY <1>1, Inductive, PTL

-----------------------------------------------------------------------------
(* What a commit is based on.                                              *)

LEMMA OnlyCommitsExtend ==
  ASSUME NEW t \in Tasks, Steps(t), ~Commit(t)
  PROVE  history' = history
<1>1. CASE \E r \in Menu[t] : Begin(t, r)
  BY <1>1 DEF Begin, logVars
<1>2. CASE Acquire(t) \/ BackendFails(t) \/ Drop(t) \/ CompactTx(t)
  BY <1>2 DEF Acquire, BackendFails, Drop, CompactTx, logVars
<1>3. CASE StateAt(t)
  BY <1>3 DEF StateAt, ReadHead, CheckHead, PastHead, CheckBoundary, BelowBoundary,
              LookUp, ReadEvents, Replay, ReplayFails, Answer, logVars
<1>4. CASE Write(t)
  BY <1>4 DEF Write, RevertSource, RevertTarget, GateRejects, HeadConflict, Reload,
              PutCache, PruneCache, Dispatch, logVars
<1> QED
  BY <1>1, <1>2, <1>3, <1>4 DEF Steps, Proceed

\* No commit of another task or instance lands between the state a write was
\* computed from and its own commit.
THEOREM NoUpdateIsLost ==
  ASSUME Serialized
  PROVE  Spec => NoLostUpdate
<1> DEFINE Based == Len(history') > Len(history) =>
                      \E t \in Tasks : Ready(t, "write") /\ acc[t] = Truth(Len(history))
<1>1. IInv /\ [Next]_vars => [Based]_vars
  <2> SUFFICES ASSUME IInv, Next, Len(history') > Len(history)
               PROVE  \E t \in Tasks : Ready(t, "write") /\ acc[t] = Truth(Len(history))
    OBVIOUS
  <2>1. PICK t \in Tasks : Steps(t)
    BY DEF Next, Steps
  <2>2. Commit(t)
    <3>1. Len(history) \in Nat
      BY NumberTypes DEF IInv, Committed
    <3>2. history' # history
      BY <3>1
    <3> QED
      BY <2>1, <3>2, OnlyCommitsExtend
  <2>3. Ready(t, "write") /\ ~HeadMoved(t)
    BY <2>2 DEF Commit
  <2> QED
    BY <2>3, CommitCurrent DEF Committed
<1> QED
  BY <1>1, Inductive, PTL DEF Spec, NoLostUpdate

\* Without upcasters, every transition the log has made passed every gate.
THEOREM GatesHold ==
  ASSUME Serialized, ~HasUpcasters
  PROVE  Spec => []GatedHistory
<1>1. Init => GatedHistory
  BY InitInv
<1>2. IInv /\ GatedHistory /\ [Next]_vars => GatedHistory'
  <2> SUFFICES ASSUME IInv, GatedHistory, [Next]_vars
               PROVE  GatedHistory'
    OBVIOUS
  <2>1. CASE history' = history
    BY <2>1 DEF GatedHistory, Truth
  <2>2. CASE \E t \in Tasks : Commit(t)
    <3>1. PICK t \in Tasks : Commit(t)
      BY <2>2
    <3> DEFINE ev == [kind |-> req[t].kind, patch |-> req[t].patch]
               h == [kind |-> ev.kind, ref |-> req[t].arg,
                     doc |-> Step(Truth(HeadSeq(events)), Upcast(ev).patch)]
    <3>2. /\ Ready(t, "write") /\ ~HeadMoved(t) /\ GatesPass(t)
          /\ history' = Append(history, h)
      BY <3>1 DEF Commit
    <3>3. /\ acc[t] = Truth(Committed) /\ acc[t] \in Doc
          /\ HeadSeq(events) = Committed /\ Committed \in Nat
      BY <3>2, CommitCurrent, HeadIsCommitted, NumberTypes DEF IInv, TypeOK
    <3>4. ev \in Event /\ req[t].patch \in Patch /\ req[t].arg \in Nat
      BY DEF IInv, TypeOK, Request, Event
    <3>5. Upcast(ev).patch = req[t].patch
      BY <3>4, UpcastIs
    <3>6. h.doc = Step(acc[t], req[t].patch) /\ h.kind = req[t].kind
      BY <3>3, <3>5
    <3>7. h \in CommittedEvent
      <4>1. h.doc \in Doc \cup {Poison}
        BY <3>3, <3>4, <3>6, StepType
      <4> QED
        BY <3>4, <4>1 DEF CommittedEvent, Event
    <3> HIDE DEF ev, h
    <3>8. /\ Committed' = Committed + 1
          /\ \A n \in 1 .. Committed : history'[n] = history[n]
          /\ history'[Committed + 1] = h
      <4>1. history \in Seq(CommittedEvent)
        BY DEF IInv, TypeOK
      <4> QED
        BY <3>2, <3>7, <4>1, AppendProperties DEF Committed
    <3>9. ASSUME NEW n \in 1 .. Committed + 1, NEW g \in Gates
          PROVE  <<history'[n].kind,
                   IF n - 1 = 0 THEN Null ELSE history'[n - 1].doc,
                   IF n = 0 THEN Null ELSE history'[n].doc>> \in g
      <4>1. CASE n \in 1 .. Committed
        <5>1. /\ n - 1 # 0 => n - 1 \in 1 .. Committed
              /\ n # 0 /\ history'[n] = history[n]
          BY <3>3, <3>8, <4>1
        <5>2. n - 1 # 0 => history'[n - 1] = history[n - 1]
          BY <3>8, <5>1
        <5>3. <<history[n].kind, IF n - 1 = 0 THEN Null ELSE history[n - 1].doc,
                IF n = 0 THEN Null ELSE history[n].doc>> \in g
          BY <4>1 DEF GatedHistory, Committed, Truth, Seq0
        <5> QED
          BY <5>1, <5>2, <5>3
      <4>2. CASE n = Committed + 1
        <5>1. /\ n # 0 /\ n - 1 = Committed /\ history'[n] = h
              /\ n - 1 # 0 => history'[n - 1] = history[n - 1]
          BY <3>3, <3>8, <4>2
        <5>2. /\ Applies(acc[t], req[t].patch)
              /\ <<req[t].kind, acc[t], NextState(t)>> \in g
          BY <3>2, <3>9 DEF GatesPass
        <5>3. h.doc = NextState(t)
          BY <3>3, <3>6, <5>2, StepIs DEF NextState
        <5>4. acc[t] = IF n - 1 = 0 THEN Null ELSE history'[n - 1].doc
          BY <3>3, <5>1 DEF Truth, Seq0
        <5> QED
          BY <3>6, <5>1, <5>2, <5>3, <5>4
      <4> QED
        BY <3>3, <4>1, <4>2
    <3> QED
      BY <3>8, <3>9 DEF GatedHistory, Committed, Truth, Seq0
  <2> QED
    <3>1. CASE UNCHANGED vars
      BY <2>1, <3>1 DEF vars
    <3>2. CASE Next
      <4>1. PICK t \in Tasks : Steps(t)
        BY <3>2 DEF Next, Steps
      <4> QED
        BY <2>1, <2>2, <4>1, OnlyCommitsExtend
    <3> QED
      BY <3>1, <3>2
<1> QED
  BY <1>1, <1>2, Inductive, PTL DEF Spec

-----------------------------------------------------------------------------
(* The steps of StoreWrite, by what they leave alone.                      *)

\* A step of one task changes nothing of another.
Alone(u) ==
  /\ pc'[u] = pc[u] /\ req'[u] = req[u] /\ goal'[u] = goal[u]
  /\ at'[u] = at[u] /\ from'[u] = from[u]

\* Where a step leaves its own task, as far as the past matters.
Returned(t) == pc'[t] = Idle /\ req'[t] = NoRequest /\ goal'[t] = "none"

LEMMA FinishReturns ==
  ASSUME TypeOK, NEW t \in Tasks, NEW s, NEW n, NEW d, Finish(t, s, n, d)
  PROVE  Returned(t) /\ \A u \in Tasks \ {t} : Alone(u)
BY DEF Finish, Returned, Alone, TypeOK

\* A step of the call that neither enters nor leaves it, reads, reverts or
\* commits keeps its request and its purpose.
Keeps(t) == req'[t] = req[t] /\ goal'[t] = goal[t] /\ from'[t] = from[t]

LEMMA StepFrame ==
  ASSUME TypeOK, NEW t \in Tasks, Steps(t), NEW u \in Tasks \ {t}
  PROVE  Alone(u)
<1> USE DEF Alone, TypeOK
<1>1. ASSUME NEW s, NEW n, NEW d, Finish(t, s, n, d) PROVE Alone(u)
  BY <1>1, FinishReturns
<1>2. CASE (\E r \in Menu[t] : Begin(t, r)) \/ Acquire(t)
  BY <1>2 DEF Begin, Acquire, Goto, readVars
<1>3. CASE BackendFails(t) \/ Drop(t) \/ CompactTx(t)
  BY <1>1, <1>3 DEF BackendFails, Drop, CompactTx
<1>4. CASE PastHead(t) \/ BelowBoundary(t) \/ ReplayFails(t) \/ Answer(t)
  BY <1>1, <1>4 DEF PastHead, BelowBoundary, ReplayFails, Answer
<1>5. CASE ReadHead(t) \/ CheckHead(t) \/ CheckBoundary(t) \/ LookUp(t)
             \/ ReadEvents(t) \/ Replay(t)
  BY <1>5 DEF ReadHead, CheckHead, CheckBoundary, LookUp, ReadEvents, Replay, Goto, readVars
<1>6. CASE RevertSource(t) \/ RevertTarget(t)
  BY <1>6 DEF RevertSource, RevertTarget, Goto, readVars
<1>7. CASE GateRejects(t) \/ HeadConflict(t) \/ Dispatch(t)
  BY <1>1, <1>7 DEF GateRejects, HeadConflict, Dispatch
<1>8. CASE Commit(t)
  BY <1>1, <1>8 DEF Commit, Goto
<1>9. CASE Reload(t)
  BY <1>1, <1>9 DEF Reload, Goto
<1>10. CASE PutCache(t)
  BY <1>1, <1>10 DEF PutCache, Goto, readVars
<1>11. CASE PruneCache(t)
  BY <1>1, <1>11 DEF PruneCache, Goto, readVars
<1> QED
  BY <1>2, <1>3, <1>4, <1>5, <1>6, <1>7, <1>8, <1>9, <1>10, <1>11
  DEF Steps, Proceed, StateAt, Write

\* Only commits and compactions touch the log.
LEMMA LogSteps ==
  ASSUME NEW t \in Tasks, Steps(t), ~Commit(t), ~CompactTx(t)
  PROVE  UNCHANGED logVars
<1>1. CASE \E r \in Menu[t] : Begin(t, r)
  BY <1>1 DEF Begin
<1>2. CASE Acquire(t) \/ BackendFails(t) \/ Drop(t)
  BY <1>2 DEF Acquire, BackendFails, Drop
<1>3. CASE StateAt(t)
  BY <1>3 DEF StateAt, ReadHead, CheckHead, PastHead, CheckBoundary, BelowBoundary,
              LookUp, ReadEvents, Replay, ReplayFails, Answer
<1>4. CASE Write(t)
  BY <1>4 DEF Write, RevertSource, RevertTarget, GateRejects, HeadConflict, Reload,
              PutCache, PruneCache, Dispatch
<1> QED
  BY <1>1, <1>2, <1>3, <1>4 DEF Steps, Proceed

\* What a step makes of its own call.
LEMMA OwnStep ==
  ASSUME TypeOK, NEW t \in Tasks, Steps(t)
  PROVE  \/ Returned(t)
         \/ /\ \E r \in Menu[t] : Begin(t, r) /\ req'[t] = r
            /\ pc'[t] \in {"lock", "state", "prune", "head"}
            /\ goal'[t] \notin {"revert_to"}
            /\ req'[t].mode = "revert" => pc'[t] = "lock" /\ goal'[t] = "revert_from"
         \/ RevertSource(t) \/ RevertTarget(t)
         \/ Keeps(t) /\ Acquire(t) /\ pc[t] = "lock" /\ pc'[t] # "lock"
         \/ Keeps(t) /\ ReadHead(t) /\ pc[t] = "state" /\ pc'[t] # "lock"
         \/ Keeps(t) /\ CheckHead(t) /\ pc'[t] = "boundary" /\ at'[t] = at[t]
         \/ Keeps(t) /\ CheckBoundary(t) /\ pc'[t] = "nearest" /\ at'[t] = at[t]
         \/ /\ Keeps(t) /\ at'[t] = at[t]
            /\ pc[t] \in {"nearest", "read", "replay"} /\ pc'[t] \in {"read", "replay"}
         \/ /\ Keeps(t) /\ at'[t] = at[t]
            /\ pc'[t] \in {"reload", "put", "prune", "dispatch"}
<1> USE DEF TypeOK
<1>1. ASSUME NEW s, NEW n, NEW d, Finish(t, s, n, d) PROVE Returned(t)
  BY <1>1, FinishReturns
<1>2. CASE \E r \in Menu[t] : Begin(t, r)
  <2>1. PICK r \in Menu[t] : Begin(t, r)
    BY <1>2
  <2>2. req'[t] = r
    BY <2>1 DEF Begin
  <2>3. /\ pc'[t] = CASE r.mode \in WriteModes -> "lock"
                      [] r.mode = "state" -> "state"
                      [] r.mode = "prune_cache" -> "prune"
                      [] OTHER -> "head"
        /\ goal'[t] = CASE r.mode = "revert" -> "revert_from"
                        [] r.mode \in WriteModes \ {"revert"} -> "write"
                        [] r.mode = "compact" -> "snapshot"
                        [] OTHER -> "answer"
    BY <2>1 DEF Begin, Goto
  <2>4. pc'[t] \in {"lock", "state", "prune", "head"}
    BY <2>3 DEF WriteModes
  <2>5. goal'[t] # "revert_to"
    BY <2>3 DEF WriteModes
  <2>6. r.mode = "revert" => pc'[t] = "lock" /\ goal'[t] = "revert_from"
    BY <2>3 DEF WriteModes
  <2> QED
    BY <2>1, <2>2, <2>4, <2>5, <2>6
<1>3. CASE Acquire(t)
  BY <1>3 DEF Acquire, Goto, readVars, Keeps
<1>4. CASE BackendFails(t) \/ Drop(t) \/ CompactTx(t)
  BY <1>1, <1>4 DEF BackendFails, Drop, CompactTx
<1>5. CASE PastHead(t) \/ BelowBoundary(t) \/ ReplayFails(t) \/ Answer(t)
  BY <1>1, <1>5 DEF PastHead, BelowBoundary, ReplayFails, Answer
<1>6. CASE ReadHead(t)
  BY <1>6 DEF ReadHead, Goto, Keeps
<1>7. CASE CheckHead(t)
  BY <1>7 DEF CheckHead, Goto, Keeps, readVars
<1>8. CASE CheckBoundary(t)
  BY <1>8 DEF CheckBoundary, Goto, Keeps, readVars
<1>9. CASE LookUp(t) \/ ReadEvents(t) \/ Replay(t)
  BY <1>9 DEF LookUp, ReadEvents, Replay, Goto, Keeps
<1>10. CASE GateRejects(t) \/ HeadConflict(t) \/ Dispatch(t)
  BY <1>1, <1>10 DEF GateRejects, HeadConflict, Dispatch
<1>11. CASE Commit(t)
  BY <1>1, <1>11 DEF Commit, Goto, Keeps
<1>12. CASE Reload(t)
  BY <1>1, <1>12 DEF Reload, Goto, Keeps
<1>13. CASE PutCache(t)
  BY <1>1, <1>13 DEF PutCache, Goto, Keeps, readVars
<1>14. CASE PruneCache(t)
  BY <1>1, <1>14 DEF PruneCache, Goto, Keeps, readVars
<1> QED
  BY <1>2, <1>3, <1>4, <1>5, <1>6, <1>7, <1>8, <1>9, <1>10, <1>11, <1>12, <1>13, <1>14
  DEF Steps, Proceed, StateAt, Write

-----------------------------------------------------------------------------
(* Requests under way, and the boundary of the log.                        *)

RequestInv == MenuInv /\ KindInv

LEMMA RequestStep ==
  ASSUME TypeOK, NEW t \in Tasks, Steps(t)
  PROVE  (MenuInv => MenuInv') /\ (OwnKinds /\ KindInv => KindInv')
<1>1. ASSUME NEW u \in Tasks \ {t}
      PROVE  req'[u] = req[u]
  BY <1>1, StepFrame DEF Alone
<1>2. \/ req'[t].mode = req[t].mode /\ req'[t].kind = req[t].kind
      \/ req'[t] = NoRequest
      \/ req'[t] \in Menu[t]
  <2>1. CASE Returned(t)
    BY <2>1 DEF Returned
  <2>2. CASE \E r \in Menu[t] : req'[t] = r
    BY <2>2
  <2>3. CASE req'[t] = req[t]
    BY <2>3
  <2>4. CASE RevertTarget(t)
    <3>1. req'[t] = [req[t] EXCEPT !.patch = Diff(from[t], acc[t])] /\ req[t] \in Request
      BY <2>4 DEF RevertTarget, TypeOK
    <3> QED
      BY <3>1 DEF Request
  <2>5. CASE RevertSource(t)
    BY <2>3, <2>5 DEF RevertSource
  <2> QED
    BY <2>1, <2>2, <2>3, <2>4, <2>5, OwnStep DEF Keeps
<1>3. MenuInv => MenuInv'
  BY <1>1, <1>2 DEF MenuInv, MayCompact, NoRequest
<1>4. OwnKinds /\ KindInv => KindInv'
  BY <1>1, <1>2 DEF KindInv, OwnKinds, NoRequest, EditKind, SnapshotKind, RevertKind
<1> QED
  BY <1>3, <1>4

\* The queries of a log without gaps.
LEMMA BoundaryIs ==
  ASSUME IInv, BoundaryInv
  PROVE  /\ HeadSeq(events) = Committed
         /\ Boundary(events) = floor
         /\ Committed \in Nat /\ floor \in Nat /\ floor <= Committed
<1>1. Committed \in Nat /\ floor \in Nat /\ floor <= Committed
  BY NumberTypes DEF IInv, LogInv
<1>2. HeadSeq(events) = Committed
  BY HeadIsCommitted
<1>3. CASE floor = 0
  <2>1. \A n \in DOMAIN events : n # 0 /\ events[n].kind # SnapshotKind
    BY <1>1, <1>3 DEF BoundaryInv, Seq0
  <2>2. DOMAIN events # {} => Earliest(events) \in DOMAIN events
    <3>1. DOMAIN events = 1 .. Committed
      BY <1>3 DEF BoundaryInv, Seq0
    <3>2. DOMAIN events # {} => \E n \in DOMAIN events : \A m \in DOMAIN events : n <= m
      BY <1>1, <3>1
    <3> QED
      BY <3>2, Zenon DEF Earliest
  <2> QED
    BY <1>1, <1>2, <1>3, <2>1, <2>2 DEF Boundary, Seq0
<1>4. CASE floor # 0
  <2>1. DOMAIN events = floor .. Committed /\ floor \in DOMAIN events
    BY <1>1, <1>4 DEF BoundaryInv, Seq0
  <2>2. events[floor].kind = SnapshotKind
    BY <1>1, <1>4 DEF IInv, LogInv
  <2>3. Earliest(events) = floor
    <3>1. floor \in DOMAIN events /\ \A m \in DOMAIN events : floor <= m
      BY <1>1, <2>1
    <3>2. PICK e \in DOMAIN events : e = Earliest(events) /\ \A m \in DOMAIN events : e <= m
      BY <3>1, Zenon DEF Earliest
    <3>3. e <= floor /\ floor <= e /\ e \in Nat
      BY <1>1, <2>1, <3>1, <3>2
    <3> QED
      BY <1>1, <3>2, <3>3
  <2> QED
    BY <1>1, <1>2, <2>1, <2>2, <2>3 DEF Boundary
<1> QED
  BY <1>1, <1>2, <1>3, <1>4

LEMMA BoundaryStep ==
  ASSUME OneCompactor, IInv, RequestInv, BoundaryInv, NEW t \in Tasks, Steps(t)
  PROVE  BoundaryInv'
<1>0. TypeOK
  BY DEF IInv
<1> DEFINE Checked(u) == goal[u] = "snapshot" /\ pc[u] \in {"nearest", "read", "replay"}
<1>1. CASE Commit(t)
  <2> DEFINE ev == [kind |-> req[t].kind, patch |-> req[t].patch]
             h == [kind |-> ev.kind, ref |-> req[t].arg,
                   doc |-> Step(Truth(HeadSeq(events)), Upcast(ev).patch)]
  <2>1. /\ events' = Appended(events, ev) /\ floor' = floor /\ ev.kind = req[t].kind
        /\ history' = Append(history, h)
    BY <1>1 DEF Commit
  <2>2. history \in Seq(CommittedEvent)
    BY <1>0 DEF TypeOK
  <2>3. Committed' = Committed + 1
    <3>1. history' = Append(history, h) /\ Len(history) \in Nat
      BY <2>1, <2>2
    <3> HIDE DEF h
    <3> QED
      BY <2>2, <3>1 DEF Committed
  <2> HIDE DEF ev, h
  <2>4. /\ DOMAIN events' = DOMAIN events \cup {Committed + 1}
        /\ events'[Committed + 1] = ev
        /\ \A n \in DOMAIN events : n # Committed + 1 => events'[n] = events[n]
    BY <2>1, BoundaryIs DEF Appended
  <2>5. DOMAIN events' = (IF floor = 0 THEN 1 ELSE floor) .. Committed + 1
    BY <2>4, BoundaryIs DEF BoundaryInv, Seq0
  <2>6. \A n \in DOMAIN events' : events'[n].kind = SnapshotKind => n = floor
    BY <2>1, <2>4, BoundaryIs DEF BoundaryInv, RequestInv, MenuInv, KindInv
  <2>7. ASSUME NEW u \in Tasks, Checked(u)' PROVE at'[u] >= floor
    <3>1. CASE u = t
      <4>1. goal[t] = "write"
        BY <1>1 DEF Commit, Ready
      <4>2. goal'[t] \in {"write", "none"}
        BY <1>0, <1>1, <4>1 DEF Commit, TypeOK, Finish
      <4> QED
        BY <2>7, <3>1, <4>2
    <3>2. CASE u # t
      BY <1>0, <2>7, <3>2, StepFrame DEF Alone, BoundaryInv
    <3> QED
      BY <3>1, <3>2
  <2> QED
    BY <2>1, <2>3, <2>5, <2>6, <2>7 DEF BoundaryInv, Seq0
<1>2. CASE CompactTx(t)
  <2>1. /\ pc[t] = "replay" /\ goal[t] = "snapshot" /\ DOMAIN todo[t] = {}
        /\ events' = Compacted(events, req[t].arg, acc[t])
        /\ floor' = IF req[t].arg > floor THEN req[t].arg ELSE floor
        /\ history' = history /\ Finish(t, "ok", req[t].arg, Null)
    BY <1>2 DEF CompactTx, Ready
  <2>2. PICK k \in Nat : /\ k = req[t].arg /\ k = at[t] /\ k # 0
                         /\ k >= floor /\ k <= Committed
                         /\ req[t].mode = "compact"
    BY <2>1, ReadyIs, NumberTypes DEF IInv, BoundaryInv, TaskInv, ModeInv, TypeOK, Seq0
  <2>3. floor' = k /\ Committed' = Committed
    BY <2>1, <2>2, BoundaryIs DEF Committed
  <2>4. /\ DOMAIN events' = (DOMAIN events \ (1 .. k)) \cup {k}
        /\ \A n \in DOMAIN events \ (1 .. k) : n # k => events'[n] = events[n]
    BY <2>1, <2>2 DEF Compacted
  <2>5. DOMAIN events' = k .. Committed
    BY <2>2, <2>4, BoundaryIs DEF BoundaryInv, Seq0
  <2>6. \A n \in DOMAIN events' : events'[n].kind = SnapshotKind => n = k
    <3>1. SUFFICES ASSUME NEW n \in DOMAIN events', n # k PROVE events'[n].kind # SnapshotKind
      OBVIOUS
    <3>2. n \in DOMAIN events /\ n # floor /\ events'[n] = events[n]
      BY <2>2, <2>4, <2>5, <3>1, BoundaryIs
    <3> QED
      BY <3>2 DEF BoundaryInv
  <2>7. \A u \in Tasks : ~Checked(u)'
    <3>1. goal'[t] = "none"
      BY <1>0, <2>1, FinishReturns DEF Returned
    <3>2. ASSUME NEW u \in Tasks \ {t} PROVE ~Checked(u)'
      <4>1. Checked(u)' <=> Checked(u)
        BY <1>0, StepFrame DEF Alone
      <4>2. MayCompact(t)
        BY <2>2 DEF RequestInv, MenuInv, KindInv
      <4>3. ~MayCompact(u)
        BY <4>2 DEF OneCompactor
      <4>4. goal[u] # "snapshot"
        BY <4>3 DEF RequestInv, MenuInv, KindInv, IInv, TaskInv, ModeInv
      <4> QED
        BY <4>1, <4>4
    <3> QED
      BY <3>1, <3>2
  <2> QED
    BY <2>2, <2>3, <2>5, <2>6, <2>7 DEF BoundaryInv, Seq0
<1>3. CASE ~Commit(t) /\ ~CompactTx(t)
  <2>1. events' = events /\ floor' = floor /\ Committed' = Committed
    BY <1>3, LogSteps DEF logVars, Committed
  <2>2. ASSUME NEW u \in Tasks, Checked(u)' PROVE at'[u] >= floor
    <3>1. CASE u # t
      BY <1>0, <2>2, <3>1, StepFrame DEF Alone, BoundaryInv
    <3>2. CASE u = t
      <4>1. CASE RevertSource(t) \/ RevertTarget(t)
        BY <1>0, <2>2, <3>2, <4>1 DEF RevertSource, RevertTarget, TypeOK
      <4>2. CASE Keeps(t) /\ CheckBoundary(t) /\ at'[t] = at[t]
        BY <3>2, <4>2, BoundaryIs DEF CheckBoundary
      <4>3. CASE /\ Keeps(t) /\ at'[t] = at[t]
                 /\ pc[t] \in {"nearest", "read", "replay"}
        BY <2>2, <3>2, <4>3 DEF Keeps, BoundaryInv
      <4>4. CASE Keeps(t) /\ (pc[t] \in {"lock", "state"})
        BY <2>2, <3>2, <4>4 DEF Keeps, IInv, TaskInv, ModeInv
      <4> QED
        BY <1>0, <2>2, <3>2, <4>1, <4>2, <4>3, <4>4, OwnStep DEF Returned
    <3> QED
      BY <3>1, <3>2
  <2> QED
    BY <2>1, <2>2 DEF BoundaryInv
<1> QED
  BY <1>1, <1>2, <1>3

-----------------------------------------------------------------------------
(* The store implements a versioned document.                              *)

\* The states a caller can still reach are those the stream had.
States == [n \in floor .. Committed |-> Truth(n)]

\* One step of the replay over the whole log.
LEMMA ReplayOf ==
  ASSUME IInv, BoundaryInv, NEW n \in floor .. Committed
  PROVE  Truth(n) = IF n = Seq0 THEN Null
                    ELSE Step(IF n = floor THEN Null ELSE Truth(n - 1),
                              Upcast(events[n]).patch)
<1>0. floor \in Nat /\ Committed \in Nat /\ floor <= Committed
  BY BoundaryIs
<1>1. CASE n = 0
  BY <1>1 DEF Truth, Seq0
<1>2. CASE n # 0 /\ n = floor
  <2>1. /\ events[n] = [kind |-> SnapshotKind, patch |-> Replace(Truth(n))]
        /\ Truth(n) \in Doc
    BY <1>0, <1>2 DEF IInv, LogInv
  <2>2. Upcast(events[n]).patch = Replace(Truth(n))
    BY <2>1 DEF Upcast, EditKind, SnapshotKind
  <2>3. Null \in Doc
    BY DEF Doc
  <2>4. Step(Null, Replace(Truth(n))) = Truth(n)
    BY <2>3, StepIs, ReplaceIs
  <2> QED
    BY <1>2, <2>2, <2>4 DEF Seq0
<1>3. CASE n # 0 /\ n # floor
  BY <1>0, <1>3 DEF IInv, LogInv, Seq0
<1> QED
  BY <1>1, <1>2, <1>3

\* The recursion that defines Materialized has one solution, and it is States.
LEMMA MaterializedIs ==
  ASSUME IInv, BoundaryInv
  PROVE  Materialized = States
<1>0. /\ floor \in Nat /\ Committed \in Nat /\ floor <= Committed
      /\ Boundary(events) = floor /\ HeadSeq(events) = Committed
  BY BoundaryIs
<1> DEFINE Next1(f, n) == IF n = Seq0 THEN Null
                          ELSE Step(IF n = floor THEN Null ELSE f[n - 1],
                                    Upcast(events[n]).patch)
           Solves(f) == f = [n \in floor .. Committed |-> Next1(f, n)]
<1>1. Materialized = CHOOSE f : Solves(f)
  BY <1>0 DEF Materialized
<1>2. Solves(States)
  <2>1. ASSUME NEW n \in floor .. Committed PROVE Next1(States, n) = Truth(n)
    <3>1. n # Seq0 /\ n # floor => n - 1 \in floor .. Committed
      BY <1>0 DEF Seq0
    <3> QED
      BY <3>1, ReplayOf DEF States
  <2> HIDE DEF Next1
  <2> QED
    BY <2>1 DEF States
<1>3. Solves(Materialized)
  <2> HIDE DEF Solves
  <2> QED
    BY <1>1, <1>2
<1>4. \A n \in floor .. Committed : Materialized[n] = Truth(n)
  <2> DEFINE Wrong == {n \in floor .. Committed : Materialized[n] # Truth(n)}
  <2>1. SUFFICES ASSUME Wrong # {} PROVE FALSE
    OBVIOUS
  <2>2. PICK n \in Wrong : \A m \in Wrong : n <= m
    <3>1. Wrong \in SUBSET Nat
      BY <1>0
    <3> HIDE DEF Wrong
    <3> QED
      BY <2>1, <3>1, LeastExists
  <2>3. n \in floor .. Committed /\ Materialized[n] # Truth(n)
    OBVIOUS
  <2>4. Materialized[n] = Next1(Materialized, n)
    BY <1>3, <2>3
  <2>5. n # Seq0 /\ n # floor => /\ n - 1 \in floor .. Committed
                                 /\ Materialized[n - 1] = Truth(n - 1)
    <3>1. SUFFICES ASSUME n # Seq0, n # floor
                   PROVE  /\ n - 1 \in floor .. Committed
                          /\ Materialized[n - 1] = Truth(n - 1)
      OBVIOUS
    <3>2. n - 1 \in floor .. Committed /\ ~(n <= n - 1)
      BY <1>0, <2>3, <3>1 DEF Seq0
    <3>3. n - 1 \notin Wrong
      BY <2>2, <3>2
    <3> QED
      BY <3>2, <3>3
  <2>6. Next1(Materialized, n) = Truth(n)
    BY <2>3, <2>5, ReplayOf
  <2> QED
    BY <2>3, <2>4, <2>6
<1> QED
  <2>1. /\ Materialized = [n \in floor .. Committed |-> Next1(Materialized, n)]
        /\ States = [n \in floor .. Committed |-> Truth(n)]
    BY <1>3 DEF States
  <2>2. \A n \in floor .. Committed : Next1(Materialized, n) = Materialized[n]
    BY <2>1
  <2> HIDE DEF Next1
  <2> QED
    BY <1>4, <2>1, <2>2

\* What the document is, in terms of the past.
IsDocument ==
  /\ Boundary(events) = floor /\ Materialized = States
  /\ Committed \in Nat /\ floor \in 0 .. Committed
  /\ floor > 0 => Truth(floor) \in Doc

LEMMA DocumentIs == IInv /\ BoundaryInv => IsDocument
<1> SUFFICES ASSUME IInv, BoundaryInv PROVE IsDocument
  OBVIOUS
<1>1. floor > 0 => Truth(floor) \in Doc
  BY DEF IInv, LogInv
<1> QED
  BY <1>1, BoundaryIs, MaterializedIs DEF IsDocument

LEMMA NewestIs ==
  ASSUME IsDocument
  PROVE  Document!Newest = Committed
<1>1. DOMAIN Materialized = floor .. Committed
  BY DEF IsDocument, States
<1>2. Committed \in floor .. Committed /\ \A m \in floor .. Committed : m <= Committed
  BY DEF IsDocument
<1>3. PICK n \in DOMAIN Materialized :
        n = Document!Newest /\ \A m \in DOMAIN Materialized : m <= n
  BY <1>1, <1>2, Zenon DEF Document!Newest
<1>4. n <= Committed /\ Committed <= n /\ n \in Nat /\ Committed \in Nat
  BY <1>1, <1>2, <1>3 DEF IsDocument
<1> QED
  BY <1>3, <1>4

LEMMA DocumentStep ==
  ASSUME IInv, BoundaryInv, RequestInv, IsDocument, IsDocument',
         NEW t \in Tasks, Steps(t)
  PROVE  [Document!Next]_(Document!docVars)
<1>0. /\ Committed \in Nat /\ floor \in Nat /\ floor <= Committed
      /\ Boundary(events) = floor /\ Boundary(events)' = floor'
      /\ Materialized = States /\ Materialized' = States'
  BY DEF IsDocument
<1>1. CASE Commit(t)
  <2> DEFINE ev == [kind |-> req[t].kind, patch |-> req[t].patch]
             d == Step(Truth(HeadSeq(events)), Upcast(ev).patch)
             h == [kind |-> ev.kind, ref |-> req[t].arg, doc |-> d]
  <2>1. /\ floor' = floor /\ history' = Append(history, h)
        /\ Ready(t, "write") /\ ~HeadMoved(t)
    BY <1>1 DEF Commit
  <2>2. HeadSeq(events) = Committed /\ acc[t] = Truth(Committed) /\ acc[t] \in Doc
    BY <2>1, BoundaryIs, CommitCurrent DEF IInv, TypeOK
  <2>3. d \in Doc \cup {Poison}
    <3>1. ev \in Event
      BY DEF IInv, TypeOK, Request, Event
    <3>2. Upcast(ev).patch \in Patch
      BY <3>1, UpcastIs DEF Event
    <3> QED
      BY <2>2, <3>2, StepType
  <2>4. h.doc = d
    OBVIOUS
  <2>5. history \in Seq(CommittedEvent) /\ Len(history) \in Nat
    BY DEF IInv, TypeOK
  <2> HIDE DEF ev, d, h
  <2>6. /\ Committed' = Committed + 1
        /\ \A n \in 1 .. Committed : history'[n] = history[n]
        /\ history'[Committed + 1] = h
    BY <2>1, <2>5 DEF Committed
  <2>7. /\ \A n \in floor .. Committed : Truth(n)' = Truth(n)
        /\ Committed + 1 # 0 /\ history'[Committed + 1].doc = d
    BY <1>0, <2>4, <2>6 DEF Truth, Seq0
  <2>8. States' = [n \in (floor .. Committed) \cup {Committed + 1} |->
                     IF n = Committed + 1 THEN d ELSE States[n]]
    <3>1. floor .. Committed + 1 = (floor .. Committed) \cup {Committed + 1}
      BY <1>0
    <3>2. States' = [n \in floor .. Committed + 1 |-> IF n = 0 THEN Null ELSE history'[n].doc]
      BY <2>1, <2>6 DEF States, Truth, Seq0
    <3>4. \A n \in floor .. Committed :
            (IF n = 0 THEN Null ELSE history'[n].doc) = Truth(n)
      BY <2>7 DEF Truth, Seq0
    <3>3. \A n \in floor .. Committed : n # Committed + 1 /\ States[n] = Truth(n)
      BY <1>0 DEF States
    <3> QED
      BY <2>7, <3>1, <3>2, <3>3, <3>4
  <2>9. Document!Write(d)
    <3>1. Document!Newest = Committed
      BY NewestIs
    <3>2. States[Committed] # Poison
      BY <1>0, <2>2, DocNotPoison DEF States
    <3>3. DOMAIN States = floor .. Committed
      BY DEF States
    <3> QED
      BY <1>0, <2>1, <2>8, <3>1, <3>2, <3>3 DEF Document!Write
  <2> QED
    BY <2>3, <2>9 DEF Document!Next, Document!Doc, Doc, Document!Object, Object
<1>2. CASE CompactTx(t)
  <2>1. /\ pc[t] = "replay" /\ goal[t] = "snapshot" /\ DOMAIN todo[t] = {}
        /\ floor' = IF req[t].arg > floor THEN req[t].arg ELSE floor
        /\ history' = history
    BY <1>2 DEF CompactTx, Ready
  <2>2. PICK k \in Nat : /\ k = req[t].arg /\ k = at[t] /\ k >= floor /\ k <= Committed
                         /\ acc[t] = Truth(k)
    BY <2>1, ReadyIs, NumberTypes DEF IInv, BoundaryInv, TaskInv, ModeInv, TypeOK, Seq0
  <2>3. floor' = k /\ Committed' = Committed /\ \A n : Truth(n)' = Truth(n)
    BY <1>0, <2>1, <2>2 DEF Committed, Truth
  <2>4. k \in floor .. Committed /\ States[k] = acc[t] /\ acc[t] # Poison
    BY <1>0, <2>2, DocNotPoison DEF States, IInv, TypeOK
  <2>5. States' = [n \in (floor .. Committed) \ (0 .. (k - 1)) |-> States[n]]
    <3>1. (floor .. Committed) \ (0 .. (k - 1)) = k .. Committed
      BY <1>0, <2>2
    <3>2. States' = [n \in k .. Committed |-> Truth(n)]
      BY <2>3 DEF States
    <3>3. \A n \in k .. Committed : States[n] = Truth(n)
      BY <1>0, <2>2 DEF States
    <3> QED
      BY <3>1, <3>2, <3>3
  <2>6. DOMAIN States = floor .. Committed
    BY DEF States
  <2>7. Document!Compact(k) /\ k \in DOMAIN Materialized
    BY <1>0, <2>3, <2>4, <2>5, <2>6 DEF Document!Compact
  <2> QED
    BY <2>7 DEF Document!Next
<1>3. CASE ~Commit(t) /\ ~CompactTx(t)
  <2>1. floor' = floor /\ history' = history
    BY <1>3, LogSteps DEF logVars
  <2>2. States' = States
    BY <2>1 DEF States, Committed, Truth
  <2> QED
    BY <1>0, <2>1, <2>2 DEF Document!docVars
<1> QED
  BY <1>1, <1>2, <1>3

\* The log has no gap above its boundary as long as compactions of the stream
\* are made one after the other: one that is overtaken moves the boundary back.
THEOREM BoundaryHolds ==
  ASSUME Serialized, OwnKinds, OneCompactor
  PROVE  Spec => [](RequestInv /\ BoundaryInv)
<1>1. Init => RequestInv /\ BoundaryInv
  BY SMT DEF Init, RequestInv, MenuInv, KindInv, BoundaryInv, NoRequest, EditKind, SnapshotKind, RevertKind,
             Committed, Seq0
<1>2. IInv /\ RequestInv /\ BoundaryInv /\ [Next]_vars => (RequestInv /\ BoundaryInv)'
  <2> SUFFICES ASSUME IInv, RequestInv, BoundaryInv, [Next]_vars
               PROVE  (RequestInv /\ BoundaryInv)'
    OBVIOUS
  <2>1. CASE Next
    BY <2>1, RequestStep, BoundaryStep DEF Next, Steps, IInv, RequestInv
  <2>2. CASE UNCHANGED vars
    BY <2>2 DEF vars, RequestInv, MenuInv, KindInv, BoundaryInv, Committed
  <2> QED
    BY <2>1, <2>2
<1> QED
  BY <1>1, <1>2, Inductive, PTL DEF Spec

\* Every step of every call, in any number of tasks, adds one state to the
\* document, gives up its oldest ones, or leaves it alone.
THEOREM StoreImplementsDocument ==
  ASSUME Serialized, OwnKinds, OneCompactor
  PROVE  Spec => ImplementsVersionedDocument
<1>1. Init /\ IsDocument => Document!Init
  <2> SUFFICES ASSUME Init, IsDocument PROVE Document!Init
    OBVIOUS
  <2>1. floor = 0 /\ Committed = 0
    BY DEF Init, Committed, Seq0
  <2>2. States = [n \in {0} |-> Null]
    <3>1. 0 .. 0 = {0} /\ Truth(0) = Null
      BY DEF Truth, Seq0
    <3> QED
      BY <2>1, <3>1 DEF States
  <2> QED
    BY <2>1, <2>2 DEF IsDocument, Document!Init
<1>2. IInv /\ RequestInv /\ BoundaryInv /\ IsDocument /\ IsDocument' /\ [Next]_vars
        => [Document!Next]_(Document!docVars)
  <2> SUFFICES ASSUME IInv, RequestInv, BoundaryInv, IsDocument, IsDocument', [Next]_vars
               PROVE  [Document!Next]_(Document!docVars)
    OBVIOUS
  <2>1. CASE Next
    BY <2>1, DocumentStep DEF Next, Steps
  <2>2. CASE UNCHANGED vars
    <3>1. States' = States /\ floor' = floor
      BY <2>2 DEF vars, States, Committed, Truth
    <3> QED
      BY <3>1 DEF IsDocument, Document!docVars
  <2> QED
    BY <2>1, <2>2
<1> QED
  BY <1>1, <1>2, DocumentIs, Inductive, BoundaryHolds, PTL
  DEF Spec, ImplementsVersionedDocument, Document!Spec

-----------------------------------------------------------------------------
(* What is true while nothing is compacted.                                *)

Uncompacted == MenuInv /\ floor = 0

LEMMA UncompactedStep ==
  ASSUME NoCompactor, IInv, Uncompacted, NEW t \in Tasks, Steps(t)
  PROVE  Uncompacted' /\ ~CompactTx(t)
<1>1. ~CompactTx(t)
  <2>1. goal[t] = "snapshot" => MayCompact(t)
    BY DEF Uncompacted, MenuInv, IInv, TaskInv, ModeInv
  <2> QED
    BY <2>1 DEF NoCompactor, CompactTx, Ready
<1>2. floor' = floor
  <2>1. CASE Commit(t)
    BY <2>1 DEF Commit
  <2>2. CASE ~Commit(t)
    BY <1>1, <2>2, LogSteps DEF logVars
  <2> QED
    BY <2>1, <2>2
<1> QED
  BY <1>1, <1>2, RequestStep DEF Uncompacted, IInv

\* Without a caller that compacts, nothing is ever compacted.
THEOREM NothingCompacted ==
  ASSUME Serialized, NoCompactor
  PROVE  Spec => []Uncompacted
<1>1. Init => Uncompacted
  BY SMT DEF Init, Uncompacted, MenuInv, NoRequest, Seq0
<1>2. IInv /\ Uncompacted /\ [Next]_vars => Uncompacted'
  <2>1. ASSUME IInv, Uncompacted, Next PROVE Uncompacted'
    BY <2>1, UncompactedStep DEF Next, Steps
  <2>2. ASSUME Uncompacted, UNCHANGED vars PROVE Uncompacted'
    BY <2>2 DEF vars, Uncompacted, MenuInv
  <2> QED
    BY <2>1, <2>2
<1> QED
  BY <1>1, <1>2, Inductive, PTL DEF Spec

\* As long as nothing is compacted, every state_at that returns Ok returns the
\* state the stream had at the coordinate asked for, under any writers.
THEOREM ReadsAreExact ==
  ASSUME Serialized, NoCompactor
  PROVE  Spec => []ReadsSound
<1>1. IInv /\ Uncompacted => ReadsSound
  <2> SUFFICES ASSUME IInv, Uncompacted, NEW t \in Tasks, reply[t].status = "state"
               PROVE  reply[t].doc = Truth(reply[t].at)
    BY DEF ReadsSound
  <2>1. reply[t].doc = Truth(reply[t].at) \/ reply[t].at < floor
    BY DEF IInv, TaskInv, ReadInv
  <2>2. reply[t].at \in Nat /\ floor = 0
    BY NumberTypes DEF IInv, Uncompacted
  <2> QED
    BY <2>1, <2>2
<1> QED
  BY <1>1, Inductive, NothingCompacted, PTL

\* The patch of a revert leads where it should.
LEMMA DiffLeads ==
  ASSUME NEW d \in Doc, NEW e \in Doc
  PROVE  Step(d, Diff(d, e)) = e
<1>1. CASE d = e
  BY <1>1, StepIs DEF Diff, Applies, Apply, Nop, Edit
<1>2. CASE d # e /\ (d = Null \/ e = Null)
  BY <1>2, StepIs DEF Diff, Applies, Apply, Replace
<1>3. CASE d # e /\ d # Null /\ e # Null
  <2>1. d \in SUBSET Members /\ e \in SUBSET Members
    BY <1>3 DEF Doc, Object
  <2>2. Diff(d, e) = Edit(d \ e, e \ d) /\ Diff(d, e) # Nop
    BY <1>3, <2>1 DEF Diff, Edit, Nop
  <2>3. Applies(d, Diff(d, e)) /\ Apply(d, Diff(d, e)) = (d \ (d \ e)) \cup (e \ d)
    BY <1>3, <2>2 DEF Applies, Apply, Edit
  <2>4. (d \ (d \ e)) \cup (e \ d) = e
    OBVIOUS
  <2> QED
    BY <2>3, <2>4, StepIs
<1> QED
  BY <1>1, <1>2, <1>3

Reverting == \A u \in Tasks : RevertInv(u)

\* What a commit adds to the past.
LEMMA CommitAdds ==
  ASSUME IInv, NEW t \in Tasks, Commit(t)
  PROVE  /\ Committed \in Nat /\ Committed' = Committed + 1
         /\ \A n \in 1 .. Committed : history'[n] = history[n]
         /\ history'[Committed + 1].kind = req[t].kind
         /\ history'[Committed + 1].ref = req[t].arg
         /\ req[t].kind # EditKind =>
              history'[Committed + 1].doc = Step(Truth(Committed), req[t].patch)
<1> DEFINE ev == [kind |-> req[t].kind, patch |-> req[t].patch]
           h == [kind |-> ev.kind, ref |-> req[t].arg,
                 doc |-> Step(Truth(HeadSeq(events)), Upcast(ev).patch)]
<1>1. history' = Append(history, h)
  BY DEF Commit
<1>2. history \in Seq(CommittedEvent) /\ Len(history) \in Nat
  BY DEF IInv, TypeOK
<1>3. ev \in Event
  BY DEF IInv, TypeOK, Request, Event
<1>4. /\ h.kind = req[t].kind /\ h.ref = req[t].arg
      /\ req[t].kind # EditKind => h.doc = Step(Truth(Committed), req[t].patch)
  BY <1>3, UpcastIs, HeadIsCommitted
<1> HIDE DEF ev, h
<1>5. /\ Committed' = Committed + 1
      /\ \A n \in 1 .. Committed : history'[n] = history[n]
      /\ history'[Committed + 1] = h
  BY <1>1, <1>2 DEF Committed
<1> QED
  BY <1>2, <1>4, <1>5 DEF Committed

LEMMA RevertingStep ==
  ASSUME IInv, ConditionalInv, Uncompacted, Reverting,
         NEW t \in Tasks, Steps(t), ~CompactTx(t)
  PROVE  Reverting'
<1>0. TypeOK /\ floor = 0 /\ Committed \in Nat
  BY NumberTypes DEF IInv, Uncompacted
<1>1. ~Commit(t) => history' = history /\ Committed' = Committed
                    /\ \A n : Truth(n)' = Truth(n)
  BY LogSteps DEF logVars, Committed, Truth
<1>2. ASSUME NEW u \in Tasks \ {t} PROVE RevertInv(u)'
  <2>1. Alone(u)
    BY <1>0, StepFrame
  <2>2. CASE ~Commit(t)
    BY <1>1, <2>1, <2>2 DEF Reverting, RevertInv, Alone
  <2>3. CASE Commit(t) /\ req[u].mode = "revert"
    <3>1. lock[Home[t]] = t
      BY <2>3, CommitCurrent DEF Commit
    <3>2. Home[u] = Home[t]
      BY <2>3 DEF ConditionalInv, SingleStore
    <3>3. pc[u] \in {Idle, "lock"}
      BY <2>3, <3>1, <3>2 DEF IInv, TaskInv, LockInv, Writing, WriteModes
    <3>4. pc[u] = "lock" /\ goal[u] = "revert_from"
      BY <2>3, <3>3 DEF IInv, TaskInv, ModeInv, Reverting, RevertInv
    <3> QED
      BY <2>1, <3>4 DEF RevertInv, Alone
  <2>4. CASE req[u].mode # "revert"
    BY <2>1, <2>4 DEF RevertInv, Alone
  <2> QED
    BY <2>2, <2>3, <2>4
<1>3. RevertInv(t)'
  <2>1. CASE Commit(t)
    <3>1. \/ Returned(t)
          \/ pc'[t] \in {"reload", "put", "dispatch"} /\ goal'[t] = "write"
      BY <1>0, <2>1, FinishReturns DEF Commit, Goto, Ready, TypeOK
    <3> QED
      BY <3>1 DEF Returned, NoRequest, RevertInv
  <2>2. CASE Returned(t)
    BY <2>2 DEF Returned, NoRequest, RevertInv
  <2>3. CASE req'[t].mode = "revert" => pc'[t] = "lock" /\ goal'[t] = "revert_from"
    BY <2>3 DEF RevertInv
  <2>4. CASE RevertSource(t)
    <3>1. /\ pc[t] = "replay" /\ DOMAIN todo[t] = {} /\ goal[t] = "revert_from"
          /\ from'[t] = acc[t] /\ at'[t] = req[t].arg /\ goal'[t] = "revert_to"
          /\ pc'[t] = "head" /\ req' = req /\ history' = history
      BY <1>0, <2>4 DEF RevertSource, Ready, Goto, logVars, TypeOK
    <3>2. req[t].mode = "revert" /\ at[t] = Committed
      BY <3>1 DEF IInv, TaskInv, ModeInv, LockInv, Writing, WriteModes, Idle
    <3>3. acc[t] = Truth(Committed)
      BY <1>0, <3>1, <3>2, ReadyIs
    <3> QED
      BY <3>1, <3>3 DEF RevertInv, Truth, Committed
  <2>5. CASE RevertTarget(t)
    <3>1. /\ pc[t] = "replay" /\ DOMAIN todo[t] = {} /\ goal[t] = "revert_to"
          /\ goal'[t] = "write" /\ pc'[t] = "state" /\ history' = history
          /\ req' = [req EXCEPT ![t].patch = Diff(from[t], acc[t])]
      BY <1>0, <2>5 DEF RevertTarget, Ready, Goto, logVars, TypeOK
    <3>2. /\ req'[t].patch = Diff(from[t], acc[t])
          /\ req'[t].arg = req[t].arg /\ req'[t].mode = req[t].mode
      BY <1>0, <3>1 DEF TypeOK, Request
    <3>3. req[t].mode = "revert"
      BY <3>1 DEF IInv, TaskInv, ModeInv
    <3>4. at[t] = req[t].arg /\ from[t] = Truth(Committed)
      BY <3>1, <3>3 DEF Reverting, RevertInv
    <3>5. at[t] <= Committed /\ acc[t] = Truth(at[t])
      BY <1>0, <3>1, ReadyIs, NumberTypes
    <3>6. Step(from[t], req'[t].patch) = acc[t] /\ acc[t] \in Doc
      BY <1>0, <3>2, DiffLeads DEF TypeOK
    <3> QED
      BY <3>1, <3>2, <3>4, <3>5, <3>6 DEF RevertInv, Truth, Committed
  <2>6. CASE /\ ~Commit(t) /\ Keeps(t)
             /\ \/ Acquire(t) /\ pc[t] = "lock" /\ pc'[t] # "lock"
                \/ ReadHead(t) /\ pc[t] = "state" /\ pc'[t] # "lock"
    <3>1. req[t].mode = "revert" => goal[t] # "revert_to"
      BY <2>6 DEF Reverting, RevertInv, IInv, TaskInv, ModeInv
    <3> QED
      BY <1>1, <2>6, <3>1 DEF Reverting, RevertInv, Keeps
  <2>7. CASE /\ ~Commit(t) /\ Keeps(t) /\ at'[t] = at[t]
             /\ pc[t] \in {"head", "boundary", "nearest", "read", "replay"}
             /\ pc'[t] # "lock"
    BY <1>1, <2>7 DEF Reverting, RevertInv, Keeps
  <2>8. CASE /\ ~Commit(t) /\ Keeps(t) /\ at'[t] = at[t]
             /\ pc'[t] \in {"reload", "put", "prune", "dispatch"}
    BY <1>1, <2>8 DEF Reverting, RevertInv, Keeps
  <2> QED
    BY <1>0, <2>1, <2>2, <2>3, <2>4, <2>5, <2>6, <2>7, <2>8, OwnStep
    DEF CheckHead, CheckBoundary
<1> QED
  BY <1>2, <1>3 DEF Reverting

LEMMA RestoredStep ==
  ASSUME IInv, KindInv, Reverting, TargetInv, RevertRestores,
         NEW t \in Tasks, Steps(t), ~CompactTx(t)
  PROVE  (TargetInv /\ RevertRestores)'
<1>1. CASE ~Commit(t)
  BY <1>1, LogSteps DEF logVars, TargetInv, RevertRestores, Committed, Truth
<1>2. CASE Commit(t)
  <2>1. /\ Committed \in Nat /\ Committed' = Committed + 1
        /\ \A n \in 1 .. Committed : history'[n] = history[n]
        /\ history'[Committed + 1].kind = req[t].kind
        /\ history'[Committed + 1].ref = req[t].arg
        /\ req[t].kind # EditKind =>
             history'[Committed + 1].doc = Step(Truth(Committed), req[t].patch)
    BY <1>2, CommitAdds
  <2>2. \A n \in 0 .. Committed : Truth(n) = IF n = 0 THEN Null ELSE history'[n].doc
    BY <2>1 DEF Truth, Seq0
  <2>3. \A n \in 1 .. Committed : history[n].ref \in Nat
    <3>1. history \in Seq(CommittedEvent)
      BY DEF IInv, TypeOK
    <3>2. \A n \in 1 .. Len(history) : history[n] \in CommittedEvent
      BY <3>1
    <3> QED
      BY <3>2 DEF CommittedEvent, Committed
  <2>4. req[t].arg \in Nat
    BY DEF IInv, TypeOK, Request
  <2>5. req[t].kind = RevertKind =>
          /\ req[t].arg <= Committed
          /\ Step(Truth(Committed), req[t].patch) = Truth(req[t].arg)
    BY <1>2 DEF KindInv, Reverting, RevertInv, Commit, Ready
  <2>6. ASSUME NEW n \in 1 .. Committed + 1, history'[n].kind = RevertKind
        PROVE  history'[n].ref \in 0 .. Committed /\ history'[n].doc = Truth(history'[n].ref)
    <3>1. CASE n \in 1 .. Committed
      BY <2>1, <2>3, <2>6, <3>1 DEF TargetInv, RevertRestores, Committed
    <3>2. CASE n = Committed + 1
      BY <2>1, <2>4, <2>5, <2>6, <3>2 DEF RevertKind, EditKind
    <3> QED
      BY <2>1, <3>1, <3>2
  <2>7. \A n \in 1 .. Committed + 1 : history'[n].kind = RevertKind =>
          /\ history'[n].ref <= Committed + 1
          /\ history'[n].doc = IF history'[n].ref = 0 THEN Null
                               ELSE history'[history'[n].ref].doc
    BY <2>1, <2>2, <2>6
  <2>8. TargetInv'
    BY <2>1, <2>7 DEF TargetInv
  <2>9. RevertRestores'
    BY <2>1, <2>7 DEF RevertRestores, Committed, Truth, Seq0
  <2> QED
    BY <2>8, <2>9
<1> QED
  BY <1>1, <1>2

\* As long as nothing is compacted, every revert that is committed puts the
\* stream back in the state it had at the target, whatever other tasks commit
\* while the revert reads the two states its patch is made from.
THEOREM RevertsRestore ==
  ASSUME Serialized, OwnKinds, NoCompactor
  PROVE  Spec => []RevertRestores
<1> DEFINE Inv == KindInv /\ Reverting /\ TargetInv /\ RevertRestores
<1>1. Init => Inv
  BY SMT DEF Init, KindInv, Reverting, RevertInv, TargetInv, RevertRestores, NoRequest,
             Committed, EditKind, SnapshotKind, RevertKind
<1>2. IInv /\ ConditionalInv /\ Uncompacted /\ Inv /\ [Next]_vars => Inv'
  <2>1. ASSUME IInv, ConditionalInv, Uncompacted, Inv, Next PROVE Inv'
    BY <2>1, UncompactedStep, RevertingStep, RestoredStep, RequestStep
    DEF Next, Steps, IInv
  <2>2. ASSUME Inv, UNCHANGED vars PROVE Inv'
    BY <2>2 DEF vars, KindInv, Reverting, RevertInv, TargetInv, RevertRestores, Committed, Truth
  <2> QED
    BY <2>1, <2>2
<1>3. Inv => RevertRestores
  OBVIOUS
<1> HIDE DEF Inv
<1> QED
  BY <1>1, <1>2, <1>3, Inductive, NothingCompacted, PTL DEF Spec
=============================================================================
