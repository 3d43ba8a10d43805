SPECIFICATION FairSpec
CONSTANTS
  Callers = {one, two}
  Writer = writer
  None = none
  Ops = {"attach", "catch_up"}
  Batch = 1
  Persistent = FALSE
  Ephemeral = TRUE
  Guarded = TRUE
  Static = FALSE
  Failures = FALSE
  Compacting = FALSE
  MaxSeq = 2
  MaxCrashes = 1
PROPERTIES
  AttachedGetsAll
  CatchUpReturns
