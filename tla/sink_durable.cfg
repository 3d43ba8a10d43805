SPECIFICATION Spec
CONSTANTS
  Callers = {one}
  Writer = writer
  None = none
  Ops = {"catch_up", "rebuild", "materialize"}
  Batch = 2
  Persistent = TRUE
  Ephemeral = FALSE
  Guarded = TRUE
  Static = TRUE
  Failures = TRUE
  Compacting = TRUE
  MaxSeq = 3
  MaxCrashes = 1
INVARIANTS
  TypeOK
  NothingSkipped
  RightState
  OutputCovers
