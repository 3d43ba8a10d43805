SPECIFICATION Spec
CONSTANTS
  Streams = {1, 2, 3}
  EventMenu <- Plain
  Queries <- Default
  Layers <- Depths
  NoRow = NoRow
  NoQuery = NoQuery
  NoCursor = NoCursor
  MaxSeq = 3
  MaxListed = 5
INVARIANT TiesListedOnce
