SPECIFICATION Spec
CONSTANTS
  p1 = p1
  p2 = p2
  Openers = {p1, p2}
  Known <- MCKnown
  Newest = 4
  Streams = {s1, s2}
  Menu <- MCMenu
  Unknown = Unknown
  Batch = 2
  Wrap = 64
  MaxEvents = 3
  MaxFaults = 1
INVARIANTS
  UsersHaveSchema
  VersionCovered
  HistoryKept
  CheckpointsCover
  OkMeansDriven
  ReportAccounts
SYMMETRY Sym
CHECK_DEADLOCK FALSE
