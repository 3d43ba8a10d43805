SPECIFICATION Spec
CONSTANTS
  Streams = {s1, s2}
  Keeper = keeper
  Values = {x, y}
  None = none
  Torn = torn
  Failures = TRUE
  MaxSeq = 3
  MaxCrashes = 1
INVARIANTS FileIsWhole FileShowsMap NothingTruncated
SYMMETRY Alike
