SPECIFICATION Spec
CONSTANTS
  Tasks = {t1, t2, t3}
  Calls = {"set", "retain", "release", "cleanup"}
  Keys = {k0, k1}
  ZeroKey = k0
  MaxKeys = 2
  Data = {x}
  Lens = {1}
  PoolBlocks = {}
  HeapBlocks = {h1, h2}
  BlockSize = 1
  WordMod = 4
  LockTimesOut = FALSE
  Null = Null
  NoKey = NoKey
  Absent = Absent
  Torn = Torn
INVARIANTS RefExact NoBlockLost
PROPERTY RetainedStays
SYMMETRY Symmetry
