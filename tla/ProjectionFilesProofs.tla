----------------------- MODULE ProjectionFilesProofs -----------------------
(***************************************************************************)
(* What readers of the projected files rely on, for any callers of which   *)
(* one at a time commits and one at a time moves the label, any states and *)
(* any step that fails or is the last one of its process.                  *)
(***************************************************************************)
EXTENDS ProjectionFiles, FiniteSetTheorems, TLAPS

Marking == {"set", "delete"}

\* The Store's lock lets one commit at a time reach the sink, and the labels
\* of the stream have one caller.
Serialized ==
  /\ \A c, d \in Callers : "commit" \in Work[c] /\ "commit" \in Work[d] => c = d
  /\ \A c, d \in Callers :
       Work[c] \cap Marking # {} /\ Work[d] \cap Marking # {} => c = d

-----------------------------------------------------------------------------
(* The inductive invariant.                                                *)

FilesTypes ==
  /\ pinned \in Bodies \cup {None}
  /\ name \in [Names -> Inodes \cup {None}]
  /\ content \in [Inodes -> Bodies \cup {None}]
  /\ archive \in [1 .. MaxClock -> Inodes \cup {None}]
  /\ clock \in 0 .. MaxClock
  /\ pc \in [Callers -> {Idle, "compare", "exists", "archive", "open", "write", "rename"}]
  /\ op \in [Callers -> Marking \cup {"commit", "none"}]
  /\ body \in [Callers -> Bodies \cup {None}]
  /\ fd \in [Callers -> Inodes \cup {None}]
  /\ settled \in BOOLEAN

\* No inode has two names, and none that is archived has one.
NamesApart ==
  /\ \A f, g \in Names : name[f] # None /\ name[f] = name[g] => f = g
  /\ \A f \in Names, ms \in 1 .. MaxClock : name[f] # None => archive[ms] # name[f]

\* What a caller knows at each of its awaits: a call for the label is for what
\* the label stands for; the file it replaces has left, for a time of the
\* archive that nothing else has; and what it renames is what it has written.
CallerSound(c) ==
  /\ pc[c] = Idle <=> op[c] = "none"
  /\ op[c] # "none" => op[c] \in Work[c]
  /\ op[c] = "commit" => pc[c] \in {"open", "write", "rename"}
  /\ op[c] = "delete" => pc[c] \in {"exists", "archive"}
  /\ op[c] \in {"commit", "set"} => body[c] \in Bodies
  /\ op[c] = "set" => pinned = body[c]
  /\ op[c] = "delete" => pinned = None
  /\ op[c] \in Marking => ~settled /\ clock >= 1
  /\ pc[c] \in {"compare", "exists", "archive"} => archive[clock] = None
  /\ op[c] = "set" /\ pc[c] \in {"open", "write", "rename"} => ~Exists(LabelFile)
  /\ pc[c] = "write" => fd[c] # None /\ fd[c] = name[Temporary(c)]
  /\ pc[c] # "write" => fd[c] = None
  /\ pc[c] = "rename" => Exists(Temporary(c)) /\ content[name[Temporary(c)]] = body[c]

FilesSound ==
  /\ NamesApart
  /\ \A ms \in 1 .. MaxClock : ms > clock => archive[ms] = None
  /\ ReaderSeesWhole /\ HistoryPreserved /\ FileMatchesLabel

FilesInv == FilesTypes /\ FilesSound /\ \A c \in Callers : CallerSound(c)

-----------------------------------------------------------------------------
(* Names, inodes and the caller whose turn it is.                          *)

LEMMA NameIs == Names = {"draft", "label", "draft.partial", "label.partial"}
BY DEF Names, Draft, LabelFile, Partial

LEMMA PathIs ==
  ASSUME NEW c
  PROVE  /\ op[c] = "commit" => Target(c) = "draft" /\ Temporary(c) = "draft.partial"
         /\ op[c] # "commit" => Target(c) = "label" /\ Temporary(c) = "label.partial"
BY DEF Target, Temporary, Partial, Draft, LabelFile

\* The images of a finite set.
LEMMA ImagesAreFew ==
  ASSUME NEW S, IsFiniteSet(S), NEW f
  PROVE  /\ IsFiniteSet({f[x] : x \in S})
         /\ Cardinality({f[x] : x \in S}) <= Cardinality(S)
<1> DEFINE T == {f[x] : x \in S}
           g == [x \in S |-> f[x]]
<1>1. g \in Surjection(S, T)
  BY DEF Surjection
<1> QED
  BY <1>1, FS_Surjection

LEMMA FourNames == IsFiniteSet(Names) /\ Cardinality(Names) <= 4
<1>1. IsFiniteSet({"draft"}) /\ Cardinality({"draft"}) = 1
  BY FS_Singleton
<1>2. /\ IsFiniteSet({"draft"} \cup {"label"})
      /\ Cardinality({"draft"} \cup {"label"}) <= 2
  BY <1>1, FS_AddElement
<1>3. /\ IsFiniteSet({"draft"} \cup {"label"} \cup {"draft.partial"})
      /\ Cardinality({"draft"} \cup {"label"} \cup {"draft.partial"}) <= 3
  <2>1. Cardinality({"draft"} \cup {"label"}) \in Nat
    BY <1>2, FS_CardinalityType
  <2> QED
    BY <1>2, <2>1, FS_AddElement
<1>4. /\ IsFiniteSet({"draft"} \cup {"label"} \cup {"draft.partial"} \cup {"label.partial"})
      /\ Cardinality({"draft"} \cup {"label"} \cup {"draft.partial"} \cup {"label.partial"}) <= 4
  <2>1. Cardinality({"draft"} \cup {"label"} \cup {"draft.partial"}) \in Nat
    BY <1>3, FS_CardinalityType
  <2> QED
    BY <1>3, <2>1, FS_AddElement
<1>5. Names = {"draft"} \cup {"label"} \cup {"draft.partial"} \cup {"label.partial"}
  BY NameIs
<1> QED
  BY <1>4, <1>5

\* There is an inode for a new file.
LEMMA InodeIsFree == Free # {}
<1> DEFINE N == {name[f] : f \in Names}
           A == {archive[ms] : ms \in 1 .. MaxClock}
           F == {fd[c] : c \in Callers}
<1>1. IsFiniteSet(N) /\ Cardinality(N) <= 4 /\ Cardinality(N) \in Nat
  <2>1. IsFiniteSet(N) /\ Cardinality(N) <= Cardinality(Names)
    BY FourNames, ImagesAreFew
  <2>2. Cardinality(N) \in Nat /\ Cardinality(Names) \in Nat
    BY <2>1, FourNames, FS_CardinalityType
  <2> QED
    BY <2>1, <2>2, FourNames
<1>2. IsFiniteSet(A) /\ Cardinality(A) <= MaxClock /\ Cardinality(A) \in Nat
  <2>1. IsFiniteSet(1 .. MaxClock) /\ Cardinality(1 .. MaxClock) = MaxClock
    BY FilesAssumption, FS_Interval
  <2>2. IsFiniteSet(A) /\ Cardinality(A) <= Cardinality(1 .. MaxClock)
    BY <2>1, ImagesAreFew
  <2>3. Cardinality(A) \in Nat
    BY <2>2, FS_CardinalityType
  <2> QED
    BY <2>1, <2>2, <2>3
<1>3. IsFiniteSet(F) /\ Cardinality(F) <= Cardinality(Callers) /\ Cardinality(F) \in Nat
  <2>1. IsFiniteSet(F) /\ Cardinality(F) <= Cardinality(Callers)
    BY InodesAssumption, ImagesAreFew
  <2> QED
    BY <2>1, FS_CardinalityType
<1> HIDE DEF N, A, F
<1>4. IsFiniteSet(N \cup A) /\ Cardinality(N \cup A) <= 4 + MaxClock /\ Cardinality(N \cup A) \in Nat
  <2>1. /\ IsFiniteSet(N \cup A)
        /\ Cardinality(N \cup A) = Cardinality(N) + Cardinality(A) - Cardinality(N \cap A)
    BY <1>1, <1>2, FS_Union
  <2>2. Cardinality(N \cap A) \in Nat /\ Cardinality(N \cup A) \in Nat
    BY <1>1, <2>1, FS_Intersection, FS_CardinalityType
  <2> QED
    BY <1>1, <1>2, <2>1, <2>2, FilesAssumption
<1>5. /\ IsFiniteSet(N \cup A \cup F)
      /\ Cardinality(N \cup A \cup F) <= 4 + MaxClock + Cardinality(Callers)
  <2>1. /\ IsFiniteSet(N \cup A \cup F)
        /\ Cardinality(N \cup A \cup F) = Cardinality(N \cup A) + Cardinality(F) - Cardinality((N \cup A) \cap F)
    BY <1>3, <1>4, FS_Union
  <2>2. Cardinality((N \cup A) \cap F) \in Nat
    BY <1>4, FS_Intersection, FS_CardinalityType
  <2>3. Cardinality(Callers) \in Nat
    BY InodesAssumption, FS_CardinalityType
  <2> QED
    BY <1>3, <1>4, <2>1, <2>2, <2>3, FilesAssumption
<1>6. ASSUME Inodes \subseteq N \cup A \cup F PROVE FALSE
  <2>1. Cardinality(Inodes) <= Cardinality(N \cup A \cup F)
    BY <1>5, <1>6, FS_Subset
  <2>2. /\ Cardinality(Inodes) \in Nat /\ Cardinality(N \cup A \cup F) \in Nat
        /\ Cardinality(Callers) \in Nat
    BY <1>5, InodesAssumption, FS_CardinalityType
  <2> QED
    BY <1>5, <2>1, <2>2, InodesAssumption, FilesAssumption
<1>7. PICK i \in Inodes : i \notin N \cup A \cup F
  BY <1>6
<1>8. i \in Free
  <2>1. Archived \subseteq A
    BY DEF Archived, A
  <2> QED
    BY <1>7, <2>1 DEF Free, N, F
<1> QED
  BY <1>8

\* Two callers that are busy have different files.
LEMMA OthersPath ==
  ASSUME Serialized, NEW c \in Callers, NEW d \in Callers, c # d,
         CallerSound(c), CallerSound(d), FilesTypes, op[c] # "none", op[d] # "none"
  PROVE  (op[c] = "commit" /\ op[d] \in Marking) \/ (op[c] \in Marking /\ op[d] = "commit")
<1>1. op[c] \in Work[c] /\ op[d] \in Work[d]
  BY DEF CallerSound
<1>2. op[c] \in Marking \cup {"commit"} /\ op[d] \in Marking \cup {"commit"}
  BY DEF FilesTypes
<1> QED
  BY <1>1, <1>2 DEF Serialized, Marking

\* A caller keeps what it knows while another one has its turn.
LEMMA Beside ==
  ASSUME NEW d \in Callers, CallerSound(d), FilesTypes,
         pc'[d] = pc[d], op'[d] = op[d], body'[d] = body[d], fd'[d] = fd[d],
         op[d] # "none" =>
           /\ name'[Temporary(d)] = name[Temporary(d)]
           /\ name[Temporary(d)] # None =>
                content'[name[Temporary(d)]] = content[name[Temporary(d)]],
         op[d] \in Marking =>
           UNCHANGED <<pinned, settled, clock, archive>> /\ name'["label"] = name["label"]
  PROVE  CallerSound(d)'
<1>1. Temporary(d)' = Temporary(d)
  BY DEF Temporary, Target
<1>2. op[d] # "commit" /\ op[d] # "none" => op[d] \in Marking
  BY DEF FilesTypes
<1> QED
  BY <1>1, <1>2 DEF CallerSound, Exists, LabelFile, Marking, Idle
\* The step of one caller: it has to keep its own, and the others' files.
LEMMA OneCaller ==
  ASSUME Serialized, FilesInv, NEW c \in Callers, op[c] # "none" \/ op'[c] \in Work[c],
         op'[c] # "none" => op'[c] \in Marking \cup {"commit"},
         FilesTypes', FilesSound', CallerSound(c)',
         \A d \in Callers \ {c} :
           pc'[d] = pc[d] /\ op'[d] = op[d] /\ body'[d] = body[d] /\ fd'[d] = fd[d],
         op[c] # "none" => op'[c] \in {op[c], "none"},
         op[c] \notin Marking /\ op'[c] \notin Marking =>
           /\ UNCHANGED <<pinned, settled, clock, archive>>
           /\ \A f \in {"label", "label.partial"} :
                /\ name'[f] = name[f]
                /\ name[f] # None => content'[name[f]] = content[name[f]],
         op[c] # "commit" /\ op'[c] # "commit" =>
           /\ name'["draft.partial"] = name["draft.partial"]
           /\ name["draft.partial"] # None =>
                content'[name["draft.partial"]] = content[name["draft.partial"]]
  PROVE  FilesInv'
<1>1. ASSUME NEW d \in Callers \ {c} PROVE CallerSound(d)'
  <2>1. CallerSound(d) /\ CallerSound(c) /\ FilesTypes
    BY DEF FilesInv
  <2>2. op[c] \in Marking \cup {"commit", "none"} /\ op[d] \in Marking \cup {"commit", "none"}
    BY <2>1 DEF FilesTypes
  <2>3. op[c] # "none" => op[c] \in Work[c]
    BY <2>1 DEF CallerSound
  <2>4. op[d] # "none" => op[d] \in Work[d]
    BY <2>1 DEF CallerSound
  <2>5. op[d] \in Marking => op[c] \notin Marking /\ op'[c] \notin Marking
    <3> SUFFICES ASSUME op[d] \in Marking PROVE op[c] \notin Marking /\ op'[c] \notin Marking
      OBVIOUS
    <3>1. op[d] # "none" /\ "none" \notin Marking
      BY DEF Marking
    <3>2. Work[c] \cap Marking = {}
      BY <1>1, <2>4, <3>1 DEF Serialized
    <3>3. op[c] \notin Marking
      BY <2>3, <3>1, <3>2
    <3> QED
      BY <3>1, <3>2, <3>3
  <2>6. op[d] = "commit" => op[c] # "commit" /\ op'[c] # "commit"
    BY <2>2, <2>3, <2>4 DEF Serialized, Marking
  <2>7. op[d] \in Marking => op[d] # "commit"
    BY DEF Marking
  <2> QED
    BY <1>1, <2>1, <2>2, <2>5, <2>6, <2>7, PathIs, Beside
<1> QED
  BY <1>1 DEF FilesInv

-----------------------------------------------------------------------------
(* The files.                                                              *)

\* The label's file is what it has to be.
Matching ==
  IF pinned = None THEN ~Exists(LabelFile)
  ELSE Exists(LabelFile) /\ content[name[LabelFile]] = pinned

LEMMA FilesStay ==
  ASSUME FilesSound, UNCHANGED <<files, seen>>, clock <= clock', clock' \in Nat, clock \in Nat,
         settled' => Matching'
  PROVE  FilesSound'
<1>1. \A ms \in 1 .. MaxClock : ms > clock' => ms > clock
  OBVIOUS
<1>2. NamesApart' /\ ReaderSeesWhole' /\ HistoryPreserved'
  BY DEF FilesSound, files, NamesApart, ReaderSeesWhole, Whole, Exists, HistoryPreserved, Archived
<1>3. FileMatchesLabel'
  BY DEF FileMatchesLabel, Matching
<1> QED
  BY <1>1, <1>2, <1>3 DEF FilesSound, files

\* What is written is a temporary file's, which no reader has: its inode has
\* no other name and is not archived.
LEMMA TemporaryChanges ==
  ASSUME FilesSound, FilesTypes, NEW t \in {"draft.partial", "label.partial"}, NEW i \in Inodes, NEW b,
         \A f \in Names \ {t} : name[f] # i,
         \A ms \in 1 .. MaxClock : archive[ms] # i,
         name' = [name EXCEPT ![t] = i], content' = [content EXCEPT ![i] = b],
         UNCHANGED <<pinned, archive, clock, seen, settled>>
  PROVE  FilesSound'
<1>1. /\ name'["draft"] = name["draft"] /\ name'["label"] = name["label"]
      /\ \A f \in Names : name'[f] = IF f = t THEN i ELSE name[f]
      /\ i # None /\ i # name["draft"] /\ i # name["label"]
  BY NameIs, FilesAssumption DEF FilesTypes
<1>2. \A j \in Inodes \ {i} : content'[j] = content[j]
  BY DEF FilesTypes
<1>3. NamesApart'
  BY <1>1 DEF FilesSound, NamesApart
<1>4. ASSUME NEW f \in {"draft", "label"}, name[f] # None
      PROVE  content'[name'[f]] = content[name[f]]
  BY <1>1, <1>2, <1>4, NameIs DEF FilesTypes
<1>5. ReaderSeesWhole'
  BY <1>1, <1>4 DEF FilesSound, ReaderSeesWhole, Whole, Exists, Draft, LabelFile
<1>6. HistoryPreserved'
  <2> SUFFICES ASSUME NEW b1 \in seen
               PROVE  \E j \in (Archived \cup {name["label"]}) \ {None} : content'[j] = b1
    BY <1>1 DEF HistoryPreserved, Archived, LabelFile
  <2>1. PICK j \in (Archived \cup {name["label"]}) \ {None} : content[j] = b1
    BY DEF FilesSound, HistoryPreserved, LabelFile
  <2>2. j \in Inodes \ {i}
    BY <1>1, <2>1, NameIs DEF Archived, FilesTypes
  <2> QED
    BY <1>2, <2>1, <2>2
<1>7. FileMatchesLabel'
  BY <1>1, <1>4 DEF FilesSound, FileMatchesLabel, Exists, LabelFile
<1> QED
  BY <1>3, <1>5, <1>6, <1>7 DEF FilesSound
-----------------------------------------------------------------------------
(* The steps.                                                              *)

LEMMA LeaveIs ==
  ASSUME FilesTypes, NEW c \in Callers, NEW ok \in BOOLEAN, Leave(c, ok)
  PROVE  /\ pc' \in [Callers -> {Idle, "compare", "exists", "archive", "open", "write", "rename"}]
         /\ op' \in [Callers -> Marking \cup {"commit", "none"}]
         /\ body' \in [Callers -> Bodies \cup {None}]
         /\ fd' \in [Callers -> Inodes \cup {None}]
         /\ settled' \in BOOLEAN /\ settled' = IF op[c] = "commit" THEN settled ELSE ok
         /\ pc'[c] = Idle /\ op'[c] = "none" /\ fd'[c] = None
         /\ \A d \in Callers \ {c} :
              pc'[d] = pc[d] /\ op'[d] = op[d] /\ body'[d] = body[d] /\ fd'[d] = fd[d]
         /\ CallerSound(c)'
<1>1. /\ pc' \in [Callers -> {Idle, "compare", "exists", "archive", "open", "write", "rename"}]
      /\ op' \in [Callers -> Marking \cup {"commit", "none"}]
      /\ body' \in [Callers -> Bodies \cup {None}]
      /\ fd' \in [Callers -> Inodes \cup {None}]
      /\ pc'[c] = Idle /\ op'[c] = "none" /\ fd'[c] = None
      /\ \A d \in Callers \ {c} :
           pc'[d] = pc[d] /\ op'[d] = op[d] /\ body'[d] = body[d] /\ fd'[d] = fd[d]
  BY DEF Leave, FilesTypes
<1>2. settled' \in BOOLEAN /\ settled' = IF op[c] = "commit" THEN settled ELSE ok
  BY Zenon DEF Leave, FilesTypes
<1>3. CallerSound(c)'
  BY <1>1 DEF CallerSound, Idle, Marking
<1> QED
  BY <1>1, <1>2, <1>3

LEMMA CommitKeeps ==
  ASSUME Serialized, FilesInv, NEW c \in Callers, NEW b \in Bodies, Commit(c, b),
         "commit" \in Work[c]
  PROVE  FilesInv'
<1>1. /\ pc[c] = Idle /\ pc' = [pc EXCEPT ![c] = "open"] /\ op' = [op EXCEPT ![c] = "commit"]
      /\ body' = [body EXCEPT ![c] = b]
      /\ UNCHANGED <<pinned, name, content, archive, clock, fd, seen, settled>>
  BY DEF Commit, Begin, Goto, files
<1>2. FilesTypes /\ FilesSound /\ CallerSound(c)
  BY DEF FilesInv
<1>3. op[c] = "none" /\ fd[c] = None
  BY <1>1, <1>2 DEF CallerSound, Idle
<1>4. /\ pc' \in [Callers -> {Idle, "compare", "exists", "archive", "open", "write", "rename"}]
      /\ op' \in [Callers -> Marking \cup {"commit", "none"}]
      /\ body' \in [Callers -> Bodies \cup {None}]
      /\ pc'[c] = "open" /\ op'[c] = "commit" /\ body'[c] = b
      /\ \A d \in Callers \ {c} : pc'[d] = pc[d] /\ op'[d] = op[d] /\ body'[d] = body[d]
  BY <1>1, <1>2 DEF FilesTypes
<1>5. FilesTypes'
  BY <1>1, <1>2, <1>4 DEF FilesTypes
<1>6. FilesSound'
  BY <1>1, <1>2 DEF FilesSound, NamesApart, ReaderSeesWhole, Whole, Exists, HistoryPreserved,
     Archived, FileMatchesLabel
<1>7. CallerSound(c)'
  BY <1>1, <1>3, <1>4 DEF CallerSound, Idle, Marking
<1>8. op'[c] \in Work[c] /\ op'[c] \notin Marking /\ op[c] \notin Marking
  BY <1>3, <1>4 DEF Marking
<1> QED
  BY <1>1, <1>3, <1>4, <1>5, <1>6, <1>7, <1>8, OneCaller

\* The label has its new state before its file has.
LEMMA LabelCallKeeps ==
  ASSUME Serialized, FilesInv, NEW c \in Callers, NEW o \in Marking, NEW b \in Bodies \cup {None},
         NEW first \in {"compare", "exists"}, o \in Work[c],
         o = "set" => b \in Bodies,
         o = "delete" => b = None /\ first = "exists",
         clock < MaxClock, Begin(c, o, b), pinned' = b, clock' = clock + 1, settled' = FALSE,
         Goto(c, first), UNCHANGED <<files, fd, seen>>
  PROVE  FilesInv'
<1>1. /\ pc[c] = Idle /\ pc' = [pc EXCEPT ![c] = first] /\ op' = [op EXCEPT ![c] = o]
      /\ body' = [body EXCEPT ![c] = b]
      /\ UNCHANGED <<name, content, archive, fd, seen>>
  BY DEF Begin, Goto, files
<1>2. FilesTypes /\ FilesSound /\ CallerSound(c)
  BY DEF FilesInv
<1>3. op[c] = "none" /\ fd[c] = None
  BY <1>1, <1>2 DEF CallerSound, Idle
<1>4. /\ pc' \in [Callers -> {Idle, "compare", "exists", "archive", "open", "write", "rename"}]
      /\ op' \in [Callers -> Marking \cup {"commit", "none"}]
      /\ body' \in [Callers -> Bodies \cup {None}]
      /\ pc'[c] = first /\ op'[c] = o /\ body'[c] = b
      /\ \A d \in Callers \ {c} : pc'[d] = pc[d] /\ op'[d] = op[d] /\ body'[d] = body[d]
  BY <1>1, <1>2 DEF FilesTypes
<1>5. clock \in Nat /\ clock' \in 1 .. MaxClock /\ clock < clock'
  BY <1>2, FilesAssumption DEF FilesTypes
<1>6. FilesTypes'
  <2>1. clock' \in 0 .. MaxClock
    BY <1>5, FilesAssumption
  <2>2. settled' \in BOOLEAN
    OBVIOUS
  <2> QED
    BY <1>1, <1>2, <1>4, <2>1, <2>2 DEF FilesTypes
<1>7. FilesSound'
  BY <1>2, <1>5, FilesStay
<1>8. archive'[clock'] = None
  BY <1>1, <1>2, <1>5 DEF FilesSound
<1>9. CallerSound(c)'
  BY <1>1, <1>3, <1>4, <1>5, <1>8 DEF CallerSound, Idle, Marking
<1>10. op'[c] \in Work[c] /\ op'[c] \in Marking /\ op'[c] # "commit"
  BY <1>4 DEF Marking
<1> QED
  BY <1>1, <1>3, <1>4, <1>6, <1>7, <1>9, <1>10, OneCaller

\* A call is over, its files as they are.
LEMMA LeaveKeeps ==
  ASSUME Serialized, FilesInv, NEW c \in Callers, op[c] # "none", NEW ok \in BOOLEAN, Leave(c, ok),
         op[c] \in Marking => ~ok \/ Matching,
         UNCHANGED <<pinned, files, clock, seen>>
  PROVE  FilesInv'
<1>1. FilesTypes /\ FilesSound /\ CallerSound(c)
  BY DEF FilesInv
<1>2. FilesTypes'
  BY <1>1, LeaveIs DEF FilesTypes, files
<1>3. settled' => Matching'
  <2>1. settled' => Matching
    BY <1>1, LeaveIs DEF FilesSound, FileMatchesLabel, Matching, FilesTypes
  <2> QED
    BY <2>1 DEF Matching, Exists, files
<1>4. FilesSound'
  BY <1>1, <1>3, FilesStay DEF FilesTypes
<1>5. op[c] = "commit" => settled' = settled
  BY <1>1, LeaveIs
<1>6. op'[c] = "none" /\ op'[c] \notin Marking /\ op'[c] # "commit"
  BY <1>1, LeaveIs DEF Marking
<1>7. op[c] \notin Marking => op[c] = "commit"
  BY <1>1 DEF FilesTypes
<1> QED
  BY <1>1, <1>2, <1>4, <1>5, <1>6, <1>7, LeaveIs, OneCaller DEF files

\* A call goes on, its files as they are.
LEMMA GoesOn ==
  ASSUME Serialized, FilesInv, NEW c \in Callers, op[c] # "none",
         NEW label \in {"exists", "archive", "open"}, Goto(c, label), CallerSound(c)',
         UNCHANGED <<pinned, files, clock, seen, op, body, fd, settled>>
  PROVE  FilesInv'
<1>1. FilesTypes /\ FilesSound
  BY DEF FilesInv
<1>2. /\ pc' \in [Callers -> {Idle, "compare", "exists", "archive", "open", "write", "rename"}]
      /\ pc'[c] = label /\ \A d \in Callers \ {c} : pc'[d] = pc[d]
  BY <1>1 DEF FilesTypes, Goto
<1>3. FilesTypes'
  BY <1>1, <1>2 DEF FilesTypes, files
<1>4. FilesSound'
  BY <1>1 DEF FilesSound, NamesApart, ReaderSeesWhole, Whole, Exists, HistoryPreserved,
     Archived, FileMatchesLabel, files
<1>5. op[c] \in Marking \cup {"commit"}
  BY <1>1 DEF FilesTypes
<1> QED
  BY <1>1, <1>2, <1>3, <1>4, <1>5, OneCaller DEF files

LEMMA CompareKeeps ==
  ASSUME Serialized, FilesInv, NEW c \in Callers, Compare(c)
  PROVE  FilesInv'
<1>1. FilesTypes /\ FilesSound /\ CallerSound(c)
  BY DEF FilesInv
<1>2. pc[c] = "compare" /\ op[c] = "set" /\ pinned = body[c] /\ body[c] \in Bodies
  BY <1>1 DEF Compare, CallerSound, FilesTypes, Marking, Idle
<1>3. CASE SameBody(c) /\ Leave(c, TRUE)
  <2>1. Matching
    BY <1>2, <1>3, FilesAssumption DEF SameBody, Matching
  <2> QED
    BY <1>2, <1>3, <2>1, LeaveKeeps DEF Compare
<1>4. CASE Goto(c, "exists") /\ UNCHANGED <<op, body, fd, settled>>
  <2>1. UNCHANGED <<pinned, files, clock, seen>>
    BY DEF Compare
  <2>2. pc'[c] = "exists"
    BY <1>1, <1>4 DEF Goto, FilesTypes
  <2>3. CallerSound(c)'
    BY <1>1, <1>2, <1>4, <2>1, <2>2 DEF CallerSound, Exists, files, Idle
  <2> QED
    BY <1>2, <1>4, <2>1, <2>3, GoesOn
<1> QED
  BY <1>3, <1>4 DEF Compare

LEMMA CheckExistsKeeps ==
  ASSUME Serialized, FilesInv, NEW c \in Callers, CheckExists(c)
  PROVE  FilesInv'
<1>1. FilesTypes /\ FilesSound /\ CallerSound(c)
  BY DEF FilesInv
<1>2. pc[c] = "exists" /\ op[c] \in Marking /\ op[c] # "none"
  BY <1>1 DEF CheckExists, CallerSound, FilesTypes, Marking, Idle
<1>3. CASE ~Old /\ op[c] = "delete" /\ Leave(c, TRUE)
  <2>1. Matching
    BY <1>1, <1>3 DEF CallerSound, Old, Matching
  <2> QED
    BY <1>2, <1>3, <2>1, LeaveKeeps DEF CheckExists
<1>4. CASE /\ Old \/ op[c] = "set"
           /\ Goto(c, IF Old THEN "archive" ELSE "open")
           /\ UNCHANGED <<op, body, fd, settled>>
  <2>1. UNCHANGED <<pinned, files, clock, seen>>
    BY DEF CheckExists
  <2>2. pc'[c] = IF Old THEN "archive" ELSE "open"
    BY <1>1, <1>4 DEF Goto, FilesTypes
  <2>3. CallerSound(c)'
    BY <1>1, <1>2, <1>4, <2>1, <2>2 DEF CallerSound, Exists, files, Idle, Old, Marking
  <2> QED
    BY <1>2, <1>4, <2>1, <2>3, GoesOn
<1> QED
  BY <1>3, <1>4 DEF CheckExists

LEMMA FailKeeps ==
  ASSUME Serialized, FilesInv, NEW c \in Callers, Fail(c)
  PROVE  FilesInv'
<1>1. op[c] # "none"
  BY DEF Fail, FilesInv, CallerSound
<1> QED
  BY <1>1, LeaveKeeps DEF Fail
\* The file goes to a name of the archive that nothing else has.
LEMMA ArchiveKeeps ==
  ASSUME Serialized, FilesInv, NEW c \in Callers, Archive(c)
  PROVE  FilesInv'
<1> DEFINE i == name["label"]
<1>1. FilesTypes /\ FilesSound /\ CallerSound(c)
  BY DEF FilesInv
<1>2. /\ pc[c] = "archive" /\ op[c] \in Marking /\ op[c] # "none" /\ op[c] # "commit"
      /\ ~settled /\ archive[clock] = None
  BY <1>1 DEF Archive, CallerSound, FilesTypes, Marking, Idle
<1>3. clock \in 1 .. MaxClock
  BY <1>1, <1>2, FilesAssumption DEF CallerSound, FilesTypes
<1>4. /\ archive' = [archive EXCEPT ![clock] = i] /\ name' = [name EXCEPT !["label"] = None]
      /\ i # None /\ UNCHANGED <<pinned, content, clock, seen>>
  <2>1. DOMAIN archive \cup {clock} = 1 .. MaxClock
    BY <1>1, <1>3 DEF FilesTypes
  <2> QED
    BY <1>1, <2>1 DEF Archive, ArchiveName, LabelFile, Exists, FilesTypes
<1>5. /\ \A f \in Names : name'[f] = IF f = "label" THEN None ELSE name[f]
      /\ \A ms \in 1 .. MaxClock : archive'[ms] = IF ms = clock THEN i ELSE archive[ms]
      /\ i \in Inodes
  BY <1>1, <1>3, <1>4, NameIs DEF FilesTypes
<1>6. \/ op[c] = "delete" /\ Leave(c, TRUE)
      \/ op[c] = "set" /\ Goto(c, "open") /\ UNCHANGED <<op, body, fd, settled>>
  BY <1>2 DEF Archive, Marking
<1>7. NamesApart'
  <2>1. \A f, g \in Names : name'[f] # None /\ name'[f] = name'[g] => f = g
    BY <1>1, <1>5 DEF FilesSound, NamesApart
  <2>2. ASSUME NEW f \in Names, NEW ms \in 1 .. MaxClock, name'[f] # None
        PROVE  archive'[ms] # name'[f]
    BY <1>1, <1>5, <2>2, NameIs DEF FilesSound, NamesApart
  <2> QED
    BY <2>1, <2>2 DEF NamesApart
<1>8. \A ms \in 1 .. MaxClock : ms > clock' => archive'[ms] = None
  <2>1. \A ms \in 1 .. MaxClock : ms > clock => ms # clock
    BY <1>3
  <2> QED
    BY <1>1, <1>4, <1>5, <2>1 DEF FilesSound
<1>9. ReaderSeesWhole'
  BY <1>1, <1>4, <1>5, NameIs DEF FilesSound, ReaderSeesWhole, Whole, Exists, Draft, LabelFile
<1>10. HistoryPreserved'
  <2> SUFFICES ASSUME NEW b \in seen
               PROVE  \E j \in (Archived' \cup {name'["label"]}) \ {None} : content[j] = b
    BY <1>4 DEF HistoryPreserved, LabelFile
  <2>1. PICK j \in (Archived \cup {name["label"]}) \ {None} : content[j] = b
    BY <1>1 DEF FilesSound, HistoryPreserved, LabelFile
  <2>2. CASE j = i
    <3>1. i \in Archived'
      BY <1>3, <1>4, <1>5 DEF Archived
    <3> QED
      BY <1>4, <2>1, <2>2, <3>1
  <2>3. CASE j \in Archived
    <3>1. PICK ms \in 1 .. MaxClock : archive[ms] = j
      BY <2>3 DEF Archived
    <3>2. archive'[ms] = j
      BY <1>2, <1>5, <2>1, <3>1
    <3>3. j \in Archived'
      BY <2>1, <3>1, <3>2 DEF Archived
    <3> QED
      BY <2>1, <3>3
  <2> QED
    BY <2>1, <2>2, <2>3
<1>11. FileMatchesLabel'
  <2>1. CASE op[c] = "delete" /\ Leave(c, TRUE)
    BY <1>1, <1>4, <1>5, <2>1, NameIs DEF CallerSound, FileMatchesLabel, Exists, LabelFile
  <2>2. CASE UNCHANGED settled
    BY <1>2, <2>2 DEF FileMatchesLabel
  <2> QED
    BY <1>6, <2>1, <2>2
<1>12. FilesSound'
  BY <1>7, <1>8, <1>9, <1>10, <1>11 DEF FilesSound
<1>13. name' \in [Names -> Inodes \cup {None}] /\ archive' \in [1 .. MaxClock -> Inodes \cup {None}]
  BY <1>1, <1>4, <1>5 DEF FilesTypes
<1>14. name'["draft.partial"] = name["draft.partial"] /\ name'["label"] = None
  BY <1>5, NameIs
<1>15. CASE op[c] = "delete" /\ Leave(c, TRUE)
  <2>1. FilesTypes'
    BY <1>1, <1>4, <1>13, <1>15, LeaveIs DEF FilesTypes
  <2>2. op'[c] = "none" /\ op'[c] \notin Marking /\ op'[c] # "commit"
    BY <1>1, <1>15, LeaveIs DEF Marking
  <2> QED
    BY <1>1, <1>2, <1>4, <1>12, <1>14, <1>15, <2>1, <2>2, LeaveIs, OneCaller
<1>16. CASE op[c] = "set" /\ Goto(c, "open") /\ UNCHANGED <<op, body, fd, settled>>
  <2>1. /\ pc' \in [Callers -> {Idle, "compare", "exists", "archive", "open", "write", "rename"}]
        /\ pc'[c] = "open" /\ \A d \in Callers \ {c} : pc'[d] = pc[d]
    BY <1>1, <1>16 DEF FilesTypes, Goto
  <2>2. FilesTypes'
    BY <1>1, <1>4, <1>13, <1>16, <2>1 DEF FilesTypes
  <2>3. CallerSound(c)'
    BY <1>1, <1>2, <1>4, <1>14, <1>16, <2>1 DEF CallerSound, Exists, LabelFile, Idle
  <2> QED
    BY <1>1, <1>2, <1>4, <1>12, <1>14, <1>16, <2>1, <2>2, <2>3, OneCaller
<1> QED
  BY <1>6, <1>15, <1>16

LEMMA OpenKeeps ==
  ASSUME Serialized, FilesInv, NEW c \in Callers, Open(c)
  PROVE  FilesInv'
<1> DEFINE t == Temporary(c)
<1>1. FilesTypes /\ FilesSound /\ CallerSound(c)
  BY DEF FilesInv
<1>2. pc[c] = "open" /\ op[c] \in {"commit", "set"}
  BY <1>1 DEF Open, CallerSound, FilesTypes, Marking, Idle
<1>3. /\ t \in {"draft.partial", "label.partial"}
      /\ op[c] = "commit" => t = "draft.partial"
      /\ op[c] = "set" => t = "label.partial"
  BY <1>2, PathIs
<1>4. PICK i \in IF Exists(t) THEN {name[t]} ELSE {CHOOSE i \in Free : TRUE} :
        /\ name' = [name EXCEPT ![t] = i]
        /\ content' = [content EXCEPT ![i] = None]
        /\ fd' = [fd EXCEPT ![c] = i]
  BY DEF Open
<1>5. pc' = [pc EXCEPT ![c] = "write"] /\ UNCHANGED <<pinned, archive, clock, op, body, seen, settled>>
  BY DEF Open, Goto
<1> HIDE DEF t
<1>6. /\ i \in Inodes /\ i # None
      /\ \A f \in Names \ {t} : name[f] # i
      /\ \A ms \in 1 .. MaxClock : archive[ms] # i
  <2>1. CASE Exists(t)
    <3>1. i = name[t] /\ i # None /\ t \in Names
      BY <1>3, <1>4, <2>1, NameIs DEF Exists
    <3> QED
      BY <1>1, <3>1 DEF FilesSound, NamesApart, FilesTypes
  <2>2. CASE ~Exists(t)
    <3>1. i \in Free
      BY <1>4, <2>2, InodeIsFree
    <3>2. i \in Inodes /\ i # None /\ i \notin {name[f] : f \in Names} /\ i \notin Archived
      BY <3>1, FilesAssumption DEF Free
    <3> QED
      BY <3>2 DEF Archived
  <2> QED
    BY <2>1, <2>2
<1>7. FilesSound'
  BY <1>1, <1>3, <1>4, <1>5, <1>6, TemporaryChanges
<1>8. /\ \A f \in Names : name'[f] = IF f = t THEN i ELSE name[f]
      /\ name' \in [Names -> Inodes \cup {None}]
      /\ content' \in [Inodes -> Bodies \cup {None}]
      /\ \A j \in Inodes \ {i} : content'[j] = content[j]
      /\ fd' \in [Callers -> Inodes \cup {None}] /\ fd'[c] = i
      /\ pc' \in [Callers -> {Idle, "compare", "exists", "archive", "open", "write", "rename"}]
      /\ pc'[c] = "write"
      /\ \A d \in Callers \ {c} : pc'[d] = pc[d] /\ fd'[d] = fd[d]
  BY <1>1, <1>3, <1>4, <1>5, <1>6, NameIs DEF FilesTypes
<1>9. FilesTypes'
  BY <1>1, <1>5, <1>8 DEF FilesTypes
<1>10. ASSUME NEW f \in Names \ {t}
       PROVE  name'[f] = name[f] /\ (name[f] # None => content'[name[f]] = content[name[f]])
  BY <1>1, <1>6, <1>8 DEF FilesTypes
<1>11. CallerSound(c)'
  <2>1. Temporary(c)' = t /\ name'[t] = i /\ (op[c] = "set" => name'["label"] = name["label"])
    BY <1>3, <1>5, <1>8, NameIs DEF Temporary, Target, t
  <2> QED
    BY <1>1, <1>2, <1>5, <1>6, <1>8, <2>1 DEF CallerSound, Exists, LabelFile, Idle
<1>12. op[c] # "none" /\ (op[c] = "commit" => op[c] \notin Marking) /\ (op[c] # "commit" => op[c] \in Marking)
  BY <1>2 DEF Marking
<1>13. "draft.partial" # t \/ "label.partial" # t
  OBVIOUS
<1> QED
  BY <1>1, <1>2, <1>3, <1>5, <1>7, <1>8, <1>9, <1>10, <1>11, <1>12, NameIs, OneCaller

LEMMA WriteKeeps ==
  ASSUME Serialized, FilesInv, NEW c \in Callers, Write(c)
  PROVE  FilesInv'
<1> DEFINE t == Temporary(c)
           i == fd[c]
<1>1. FilesTypes /\ FilesSound /\ CallerSound(c)
  BY DEF FilesInv
<1>2. pc[c] = "write" /\ op[c] \in {"commit", "set"} /\ body[c] \in Bodies
  BY <1>1 DEF Write, CallerSound, FilesTypes, Marking, Idle
<1>3. /\ t \in {"draft.partial", "label.partial"}
      /\ op[c] = "commit" => t = "draft.partial"
      /\ op[c] = "set" => t = "label.partial"
  BY <1>2, PathIs
<1>4. /\ content' = [content EXCEPT ![i] = body[c]] /\ fd' = [fd EXCEPT ![c] = None]
      /\ pc' = [pc EXCEPT ![c] = "rename"]
      /\ UNCHANGED <<pinned, name, archive, clock, op, body, seen, settled>>
      /\ i = name[t] /\ i # None
  BY <1>1, <1>2 DEF Write, Goto, CallerSound
<1> HIDE DEF t, i
<1>5. /\ i \in Inodes
      /\ \A f \in Names \ {t} : name[f] # i
      /\ \A ms \in 1 .. MaxClock : archive[ms] # i
  <2>1. t \in Names
    BY <1>3, NameIs
  <2> QED
    BY <1>1, <1>4, <2>1 DEF FilesSound, NamesApart, FilesTypes
<1>6. name' = [name EXCEPT ![t] = i]
  BY <1>1, <1>3, <1>4, NameIs DEF FilesTypes
<1>7. FilesSound'
  BY <1>1, <1>3, <1>4, <1>5, <1>6, TemporaryChanges
<1>8. /\ content' \in [Inodes -> Bodies \cup {None}] /\ content'[i] = body[c]
      /\ \A j \in Inodes \ {i} : content'[j] = content[j]
      /\ fd' \in [Callers -> Inodes \cup {None}] /\ fd'[c] = None
      /\ pc' \in [Callers -> {Idle, "compare", "exists", "archive", "open", "write", "rename"}]
      /\ pc'[c] = "rename"
      /\ \A d \in Callers \ {c} : pc'[d] = pc[d] /\ fd'[d] = fd[d]
  BY <1>1, <1>2, <1>4, <1>5 DEF FilesTypes
<1>9. FilesTypes'
  BY <1>1, <1>4, <1>8 DEF FilesTypes
<1>10. ASSUME NEW f \in Names \ {t}, name[f] # None
       PROVE  content'[name[f]] = content[name[f]]
  BY <1>1, <1>5, <1>8, <1>10 DEF FilesTypes
<1>11. CallerSound(c)'
  <2>1. Temporary(c)' = t
    BY <1>4 DEF Temporary, Target, t
  <2> QED
    BY <1>1, <1>2, <1>4, <1>8, <2>1 DEF CallerSound, Exists, LabelFile, Idle
<1>12. op[c] # "none" /\ (op[c] = "commit" => op[c] \notin Marking) /\ (op[c] # "commit" => op[c] \in Marking)
  BY <1>2 DEF Marking
<1> QED
  BY <1>1, <1>2, <1>3, <1>4, <1>7, <1>8, <1>9, <1>10, <1>11, <1>12, NameIs, OneCaller

\* The name changes its inode in one step, and a label's file has none then.
LEMMA RenameKeeps ==
  ASSUME Serialized, FilesInv, NEW c \in Callers, Rename(c)
  PROVE  FilesInv'
<1> DEFINE t == Temporary(c)
           f0 == Target(c)
           i == name[t]
<1>1. FilesTypes /\ FilesSound /\ CallerSound(c)
  BY DEF FilesInv
<1>2. /\ pc[c] = "rename" /\ op[c] \in {"commit", "set"} /\ body[c] \in Bodies
      /\ i # None /\ content[i] = body[c]
  BY <1>1 DEF Rename, CallerSound, FilesTypes, Marking, Idle, Exists
<1>3. /\ op[c] = "commit" => t = "draft.partial" /\ f0 = "draft"
      /\ op[c] = "set" => t = "label.partial" /\ f0 = "label" /\ name["label"] = None
  BY <1>1, <1>2, PathIs DEF CallerSound, Exists, LabelFile
<1>4. /\ name' = [[name EXCEPT ![t] = None] EXCEPT ![f0] = i]
      /\ seen' = IF op[c] = "set" THEN seen \cup {body[c]} ELSE seen
      /\ Leave(c, TRUE)
      /\ UNCHANGED <<pinned, content, archive, clock>>
  BY DEF Rename
<1> HIDE DEF t, f0, i
<1>5. /\ \A f \in Names : name'[f] = IF f = f0 THEN i ELSE IF f = t THEN None ELSE name[f]
      /\ name' \in [Names -> Inodes \cup {None}] /\ i \in Inodes /\ t \in Names /\ f0 \in Names
      /\ t # f0 /\ i = name[t]
  <2>1. t \in Names /\ f0 \in Names /\ t # f0
    BY <1>2, <1>3, NameIs
  <2>2. i = name[t] /\ i \in Inodes
    BY <1>1, <1>2, <2>1 DEF FilesTypes, i
  <2> QED
    BY <1>1, <1>4, <2>1, <2>2 DEF FilesTypes
<1>6. NamesApart'
  <2>1. \A f \in Names \ {t} : name[f] # i
    BY <1>1, <1>2, <1>5 DEF FilesSound, NamesApart
  <2>2. \A ms \in 1 .. MaxClock : archive[ms] # i
    BY <1>1, <1>2, <1>5 DEF FilesSound, NamesApart
  <2>3. \A f, g \in Names : name'[f] # None /\ name'[f] = name'[g] => f = g
    BY <1>1, <1>5, <2>1 DEF FilesSound, NamesApart
  <2>4. \A f \in Names, ms \in 1 .. MaxClock : name'[f] # None => archive'[ms] # name'[f]
    BY <1>1, <1>4, <1>5, <2>2 DEF FilesSound, NamesApart
  <2> QED
    BY <2>3, <2>4 DEF NamesApart
<1>7. ReaderSeesWhole'
  <2>1. ASSUME NEW f \in {"draft", "label"}, name'[f] # None PROVE content[name'[f]] # None
    <3>1. f \in Names /\ f # t
      BY <1>2, <1>3, NameIs
    <3>2. CASE f = f0
      BY <1>2, <1>5, <3>1, <3>2, FilesAssumption
    <3>3. CASE f # f0
      BY <1>1, <1>5, <2>1, <3>1, <3>3 DEF FilesSound, ReaderSeesWhole, Whole, Exists, Draft, LabelFile
    <3> QED
      BY <3>2, <3>3
  <2> QED
    BY <1>4, <2>1 DEF ReaderSeesWhole, Whole, Exists, Draft, LabelFile
<1>8. HistoryPreserved'
  <2> SUFFICES ASSUME NEW b \in seen'
               PROVE  \E j \in (Archived \cup {name'["label"]}) \ {None} : content[j] = b
    <3>1. Archived' = Archived
      BY <1>4 DEF Archived
    <3>2. HistoryPreserved' = \A b \in seen' :
            \E j \in (Archived' \cup {name'["label"]}) \ {None} : content'[j] = b
      BY DEF HistoryPreserved, LabelFile
    <3> QED
      BY <1>4, <3>1, <3>2
  <2>1. CASE op[c] = "set" /\ b = body[c]
    BY <1>2, <1>3, <1>5, <2>1
  <2>2. CASE b \in seen
    <3>1. PICK j \in (Archived \cup {name["label"]}) \ {None} : content[j] = b
      BY <1>1, <2>2 DEF FilesSound, HistoryPreserved, LabelFile
    <3>2. name["label"] # None => name'["label"] = name["label"]
      BY <1>2, <1>3, <1>5, NameIs
    <3> QED
      BY <3>1, <3>2
  <2> QED
    BY <1>2, <1>4, <2>1, <2>2
<1>9. FileMatchesLabel'
  <2>1. CASE op[c] = "set"
    <3>1. pinned = body[c] /\ name'["label"] = i
      BY <1>1, <1>3, <1>5, <2>1 DEF CallerSound
    <3> QED
      BY <1>2, <1>4, <3>1, FilesAssumption DEF FileMatchesLabel, Exists, LabelFile
  <2>2. CASE op[c] = "commit"
    <3>1. name'["label"] = name["label"] /\ settled' = settled
      BY <1>1, <1>3, <1>4, <1>5, <2>2, NameIs, LeaveIs
    <3> QED
      BY <1>1, <1>4, <3>1 DEF FilesSound, FileMatchesLabel, Exists, LabelFile
  <2> QED
    BY <1>2, <2>1, <2>2
<1>10. FilesSound'
  BY <1>1, <1>4, <1>6, <1>7, <1>8, <1>9 DEF FilesSound
<1>11. FilesTypes'
  BY <1>1, <1>4, <1>5, LeaveIs DEF FilesTypes
<1>12. /\ op[c] = "commit" => /\ settled' = settled /\ op[c] \notin Marking
                              /\ \A f \in {"label", "label.partial"} : name'[f] = name[f]
       /\ op[c] = "set" => op[c] \in Marking /\ name'["draft.partial"] = name["draft.partial"]
  BY <1>1, <1>3, <1>4, <1>5, NameIs, LeaveIs DEF Marking
<1>13. op'[c] = "none" /\ op[c] # "none"
  BY <1>1, <1>2, <1>4, LeaveIs
<1> QED
  BY <1>1, <1>2, <1>4, <1>10, <1>11, <1>12, <1>13, LeaveIs, OneCaller

-----------------------------------------------------------------------------
(* What readers may rely on.                                               *)

LEMMA FilesInit == Init => FilesInv
<1> SUFFICES ASSUME Init PROVE FilesInv
  OBVIOUS
<1>1. FilesTypes
  BY FilesAssumption DEF Init, FilesTypes
<1>2. FilesSound
  BY NameIs DEF Init, FilesSound, NamesApart, ReaderSeesWhole, Whole, Exists, Draft, LabelFile,
     HistoryPreserved, FileMatchesLabel
<1>3. \A c \in Callers : CallerSound(c)
  BY DEF Init, CallerSound, Idle, Marking
<1> QED
  BY <1>1, <1>2, <1>3 DEF FilesInv

LEMMA FilesStep == Serialized /\ FilesInv /\ [Next]_vars => FilesInv'
<1> SUFFICES ASSUME Serialized, FilesInv, [Next]_vars PROVE FilesInv'
  OBVIOUS
<1>1. CASE UNCHANGED vars
  BY <1>1 DEF vars, files, FilesInv, FilesTypes, FilesSound, NamesApart, ReaderSeesWhole, Whole,
     Exists, HistoryPreserved, Archived, FileMatchesLabel, CallerSound, Temporary, Target
<1>2. ASSUME NEW c \in Callers, Call(c) PROVE FilesInv'
  <2>1. ASSUME NEW b \in Bodies, "commit" \in Work[c], Commit(c, b) PROVE FilesInv'
    BY <2>1, CommitKeeps
  <2>2. ASSUME NEW b \in Bodies, "set" \in Work[c], LabelSet(c, b) PROVE FilesInv'
    <3>1. "set" \in Marking /\ "set" # "delete" /\ b \in Bodies \cup {None}
      BY DEF Marking
    <3> QED
      BY <2>2, <3>1, LabelCallKeeps DEF LabelSet
  <2>3. ASSUME "delete" \in Work[c], LabelDelete(c) PROVE FilesInv'
    <3>1. "delete" \in Marking /\ "set" # "delete" /\ None \in Bodies \cup {None}
      BY DEF Marking
    <3> QED
      BY <2>3, <3>1, LabelCallKeeps DEF LabelDelete
  <2> QED
    BY <1>2, <2>1, <2>2, <2>3 DEF Call
<1>3. ASSUME NEW c \in Callers, Proceed(c) PROVE FilesInv'
  BY <1>3, CompareKeeps, CheckExistsKeeps, ArchiveKeeps, OpenKeeps, WriteKeeps, RenameKeeps
     DEF Proceed
<1> QED
  BY <1>1, <1>2, <1>3, FailKeeps DEF Next

\* The inductive invariant holds, for any callers, states, clocks and failures.
THEOREM FilesHold == ASSUME Serialized PROVE Spec => []FilesInv
BY FilesInit, FilesStep, PTL DEF Spec

\* A file under its final name is complete, wherever a caller stops.
THEOREM NoPartialFile == ASSUME Serialized PROVE Spec => []ReaderSeesWhole
<1>1. FilesInv => ReaderSeesWhole
  BY DEF FilesInv, FilesSound
<1> QED
  BY <1>1, FilesHold, PTL

\* What a label's file has shown is there or in the archive, after any moves,
\* deletions and failures.
THEOREM NothingForgotten == ASSUME Serialized PROVE Spec => []HistoryPreserved
<1>1. FilesInv => HistoryPreserved
  BY DEF FilesInv, FilesSound
<1> QED
  BY <1>1, FilesHold, PTL

\* After a call for the label that has succeeded its file is what the label is.
THEOREM FileIsTheLabels == ASSUME Serialized PROVE Spec => []FileMatchesLabel
<1>1. FilesInv => FileMatchesLabel
  BY DEF FilesInv, FilesSound
<1> QED
  BY <1>1, FilesHold, PTL
=============================================================================
