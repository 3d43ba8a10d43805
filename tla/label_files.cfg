SPECIFICATION Spec
CONSTANTS
  scribe = scribe  librarian = librarian
  Callers = {scribe, librarian}
  Work <- OneEach
  Bodies = {x, y}
  Inodes = {i1, i2, i3, i4, i5, i6, i7, i8, i9, i10, i11}
  None = none
  Failures = TRUE
  MaxClock = 4
INVARIANTS ReaderSeesWhole HistoryPreserved FileMatchesLabel
CHECK_DEADLOCK FALSE
