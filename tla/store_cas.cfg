SPECIFICATION Spec
CONSTANTS
  t1 = t1 t2 = t2 t3 = t3 i1 = i1 i2 = i2 a = a
  Members = {a}
  Null = Null
  Poison = Poison
  Tasks = {t1, t2}
  Instances = {i1, i2}
  NoTask = NoTask
  Home <- TwoHomes
  Menu <- CasMenu
  MaxSeq = 3
  CacheStride = 1
  CacheKeep = 0
  Gates <- SchemaGates
  HasSinks = TRUE
  HasUpcasters = FALSE
  Upcaster <- Identity
  Failures = TRUE
PROPERTY NoLostUpdate
