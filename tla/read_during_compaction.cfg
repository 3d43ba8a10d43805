SPECIFICATION Spec
CONSTANTS
  t1 = t1 t2 = t2 t3 = t3 i1 = i1 i2 = i2 a = a
  Members = {a}
  Null = Null
  Poison = Poison
  Tasks = {t1, t2}
  Instances = {i1}
  NoTask = NoTask
  Home <- OneHome
  Menu <- ReadBesideCompaction
  MaxSeq = 3
  CacheStride = 2
  CacheKeep = 0
  Gates <- NoGates
  HasSinks = FALSE
  HasUpcasters = FALSE
  Upcaster <- Identity
  Failures = FALSE
INVARIANT ReadsSound
