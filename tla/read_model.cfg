SPECIFICATION Spec
CONSTANTS
  Streams = {1, 2, 3}
  EventMenu <- Mixed
  Queries <- Several
  Layers <- Depths
  NoRow = NoRow
  NoQuery = NoQuery
  NoCursor = NoCursor
  MaxSeq = 3
  MaxListed = 5
INVARIANTS RowIsNewest ListedOnce CountAgrees FilterSound
