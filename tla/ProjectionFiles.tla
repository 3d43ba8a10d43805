-------------------------- MODULE ProjectionFiles --------------------------
(***************************************************************************)
(* The files FileProjection keeps for one stream, draft.md and one label's *)
(* file with its archive, beside the label the backend keeps: what commit, *)
(* label_set and label_delete of concurrent callers do to them, one file   *)
(* system call at a time (fileproj/projection.rs, facade/labels.rs).       *)
(*                                                                         *)
(* A body is a rendered state.  A name refers to an inode, as in a POSIX   *)
(* file system: a file that is open stays what it is when it is renamed.   *)
(* A process that stops loses nothing it has written; power cuts are left  *)
(* out, the code never calls fsync.                                        *)
(***************************************************************************)
EXTENDS Naturals, FiniteSets

CONSTANTS
  Callers,
  Work,       \* Work[c]: the calls c makes, of {"commit", "set", "delete"}
  Bodies,     \* rendered states
  Inodes,
  None,       \* no file of that name, no label, nothing open
  Failures,   \* file system calls may fail, the process may stop
  MaxClock    \* bound: milliseconds, one for each call of label_set and
              \* label_delete

ASSUME FilesAssumption ==
  /\ Work \in [Callers -> SUBSET {"commit", "set", "delete"}]
  /\ None \notin Bodies \cup Inodes
  /\ Failures \in BOOLEAN /\ MaxClock \in Nat

\* The file system has an inode for every name, archived file and open file.
ASSUME InodesAssumption ==
  /\ IsFiniteSet(Callers) /\ IsFiniteSet(Inodes)
  /\ Cardinality(Inodes) > 4 + MaxClock + Cardinality(Callers)

VARIABLES
  pinned,   \* the body the label stands for, by the backend
  name,     \* name[f]: the inode of file f
  content,  \* content[i]: the body in inode i, None while it is incomplete
  archive,  \* archive[ms]: the inode archived under that time
  clock,
  pc, op, body,
  fd,       \* the inode a caller is writing
  seen,     \* history variable: bodies that were in the label's file
  settled   \* history variable: the last dispatched call for the label succeeded

files == <<name, content, archive>>
vars == <<pinned, files, clock, pc, op, body, fd, seen, settled>>

Draft == "draft"
LabelFile == "label"
Partial(f) == IF f = Draft THEN "draft.partial" ELSE "label.partial"
Names == {Draft, LabelFile, Partial(Draft), Partial(LabelFile)}

Idle == "idle"
Target(c) == IF op[c] = "commit" THEN Draft ELSE LabelFile

Exists(f) == name[f] # None
Whole(f) == Exists(f) => content[name[f]] # None

Archived == {archive[ms] : ms \in {m \in 1 .. MaxClock : archive[m] # None}}

\* Inodes nothing refers to.
Free == Inodes \ ({name[f] : f \in Names} \cup Archived \cup {fd[c] : c \in Callers})

Goto(c, label) == pc' = [pc EXCEPT ![c] = label]

\* The call is over; a sink error is reported to nobody who would try again.
Leave(c, ok) ==
  /\ pc' = [pc EXCEPT ![c] = Idle]
  /\ op' = [op EXCEPT ![c] = "none"]
  /\ body' = [body EXCEPT ![c] = None]
  /\ fd' = [fd EXCEPT ![c] = None]
  /\ settled' = IF op[c] = "commit" THEN settled ELSE ok

-----------------------------------------------------------------------------
(* The facade: the label's backend first, then the sink.                   *)

Begin(c, o, b) ==
  /\ pc[c] = Idle
  /\ op' = [op EXCEPT ![c] = o]
  /\ body' = [body EXCEPT ![c] = b]

Commit(c, b) ==
  /\ Begin(c, "commit", b)
  /\ Goto(c, "open")
  /\ UNCHANGED <<pinned, files, clock, fd, seen, settled>>

LabelSet(c, b) ==
  /\ clock < MaxClock
  /\ Begin(c, "set", b)
  /\ pinned' = b
  /\ clock' = clock + 1
  /\ settled' = FALSE
  /\ Goto(c, "compare")
  /\ UNCHANGED <<files, fd, seen>>

\* Deleting a label that does not exist reaches no sink.
LabelDelete(c) ==
  /\ clock < MaxClock /\ pinned # None
  /\ Begin(c, "delete", None)
  /\ pinned' = None
  /\ clock' = clock + 1
  /\ settled' = FALSE
  /\ Goto(c, "exists")
  /\ UNCHANGED <<files, fd, seen>>

-----------------------------------------------------------------------------
(* FileProjection: on_label_set, on_label_deleted, archive_if_exists.      *)

\* Slip: a file that is there is taken to be up to date.
AnyFile(c) == Exists(LabelFile)

SameBody(c) == Exists(LabelFile) /\ content[name[LabelFile]] = body[c]

Compare(c) ==
  /\ pc[c] = "compare"
  /\ \/ /\ SameBody(c)
        /\ Leave(c, TRUE)
     \/ /\ ~SameBody(c)
        /\ Goto(c, "exists")
        /\ UNCHANGED <<op, body, fd, settled>>
  /\ UNCHANGED <<pinned, files, clock, seen>>

\* Slip: nothing is archived.
NothingOld == FALSE

Old == Exists(LabelFile)

CheckExists(c) ==
  /\ pc[c] = "exists"
  /\ \/ /\ ~Old /\ op[c] = "delete"
        /\ Leave(c, TRUE)
     \/ /\ Old \/ op[c] = "set"
        /\ Goto(c, IF Old THEN "archive" ELSE "open")
        /\ UNCHANGED <<op, body, fd, settled>>
  /\ UNCHANGED <<pinned, files, clock, seen>>

ArchiveName == clock

\* The rename fails if another caller has moved the file meanwhile.
Archive(c) ==
  /\ pc[c] = "archive" /\ Exists(LabelFile)
  /\ archive' = [ms \in DOMAIN archive \cup {ArchiveName} |->
                   IF ms = ArchiveName THEN name[LabelFile] ELSE archive[ms]]
  /\ name' = [name EXCEPT ![LabelFile] = None]
  /\ IF op[c] = "delete"
     THEN Leave(c, TRUE)
     ELSE Goto(c, "open") /\ UNCHANGED <<op, body, fd, settled>>
  /\ UNCHANGED <<pinned, content, clock, seen>>

-----------------------------------------------------------------------------
(* write_atomic: fs::write of the temporary file, then the rename.         *)

\* Slip: the target is written in place.
InPlace(c) == Target(c)

Temporary(c) == Partial(Target(c))

\* fs::write truncates the file of that name, or creates one.
Open(c) ==
  /\ pc[c] = "open"
  /\ \E i \in IF Exists(Temporary(c)) THEN {name[Temporary(c)]} ELSE {CHOOSE i \in Free : TRUE} :
       /\ name' = [name EXCEPT ![Temporary(c)] = i]
       /\ content' = [content EXCEPT ![i] = None]
       /\ fd' = [fd EXCEPT ![c] = i]
  /\ Goto(c, "write")
  /\ UNCHANGED <<pinned, archive, clock, op, body, seen, settled>>

Write(c) ==
  /\ pc[c] = "write"
  /\ content' = [content EXCEPT ![fd[c]] = body[c]]
  /\ fd' = [fd EXCEPT ![c] = None]
  /\ Goto(c, "rename")
  /\ UNCHANGED <<pinned, name, archive, clock, op, body, seen, settled>>

Rename(c) ==
  /\ pc[c] = "rename" /\ Exists(Temporary(c))
  /\ name' = [[name EXCEPT ![Temporary(c)] = None]
                EXCEPT ![Target(c)] = name[Temporary(c)]]
  /\ seen' = IF op[c] = "set" THEN seen \cup {body[c]} ELSE seen
  /\ Leave(c, TRUE)
  /\ UNCHANGED <<pinned, content, archive, clock>>

-----------------------------------------------------------------------------
\* Another caller has renamed the file already.
Gone(c) ==
  \/ pc[c] = "archive" /\ ~Exists(LabelFile)
  \/ pc[c] = "rename" /\ ~Exists(Temporary(c))

\* A file system call fails, or the future is dropped between two of them, or
\* the process stops, in the middle of fs::write even.
Fail(c) ==
  /\ pc[c] # Idle /\ (Failures \/ Gone(c))
  /\ Leave(c, FALSE)
  /\ UNCHANGED <<pinned, files, clock, seen>>

Init ==
  /\ pinned = None
  /\ name = [f \in Names |-> None]
  /\ content = [i \in Inodes |-> None]
  /\ archive = [ms \in 1 .. MaxClock |-> None]
  /\ clock = 0
  /\ pc = [c \in Callers |-> Idle]
  /\ op = [c \in Callers |-> "none"]
  /\ body = [c \in Callers |-> None]
  /\ fd = [c \in Callers |-> None]
  /\ seen = {}
  /\ settled = TRUE

Call(c) ==
  \/ \E b \in Bodies : "commit" \in Work[c] /\ Commit(c, b)
  \/ \E b \in Bodies : "set" \in Work[c] /\ LabelSet(c, b)
  \/ "delete" \in Work[c] /\ LabelDelete(c)

Proceed(c) ==
  \/ Compare(c) \/ CheckExists(c) \/ Archive(c)
  \/ Open(c) \/ Write(c) \/ Rename(c)

Next == \E c \in Callers : Call(c) \/ Proceed(c) \/ Fail(c)

Spec == Init /\ [][Next]_vars

-----------------------------------------------------------------------------
(* What readers of the files may rely on.                                  *)

\* No reader ever finds an incomplete file under its final name, whatever
\* fails or stops half way (projection.rs, write_atomic: "a partial write is
\* never observed by a concurrent reader").
ReaderSeesWhole == Whole(Draft) /\ Whole(LabelFile)

\* Every state a label's file ever showed can still be read, from the file or
\* from the archive, although the label moves, is deleted, and any step of
\* that may be the last one of its process (fileproj/lib.rs: "the previous
\* file is archived under _archive/ before the new one is written, so history
\* is preserved").
HistoryPreserved ==
  \A b \in seen :
    \E i \in (Archived \cup {name[LabelFile]}) \ {None} : content[i] = b

\* Once a call for the label has succeeded, and none is under way, its file
\* shows the state the label stands for, whatever earlier calls left behind;
\* a deleted label has none.
FileMatchesLabel ==
  settled => IF pinned = None THEN ~Exists(LabelFile)
             ELSE Exists(LabelFile) /\ content[name[LabelFile]] = pinned
=============================================================================
