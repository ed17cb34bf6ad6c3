SPECIFICATION Spec
CONSTANTS
  Tasks = {t1, t2}
  Calls = {"set", "get", "cleanup"}
  Keys = {k0, k1}
  ZeroKey = k0
  MaxKeys = 2
  Data = {x, y}
  Lens = {0, 1, 2}
  PoolBlocks = {p1}
  HeapBlocks = {h1}
  BlockSize = 1
  WordMod = 3
  LockTimesOut = FALSE
  Null = Null
  NoKey = NoKey
  Absent = Absent
  Torn = Torn
INVARIANTS TypeOK UniqueKeys BlocksOwned LookupsHold
 
SYMMETRY Symmetry
