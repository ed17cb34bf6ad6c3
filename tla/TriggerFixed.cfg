SPECIFICATION TriggerSpec
CONSTANTS
  Tasks = {t1, p1}
  Calls = {"set", "retain", "release"}
  Keys = {k0, k1}
  ZeroKey = k0
  MaxKeys = 2
  Data = {x}
  Lens = {1}
  PoolBlocks = {}
  HeapBlocks = {h1, h2}
  BlockSize = 1
  WordMod = 3
  LockTimesOut = FALSE
  Null = Null
  NoKey = NoKey
  Absent = Absent
  Torn = Torn
  Publishers = {p1}
  PublishOps = {"event", "manual"}
  Nodes = {n1, n2}
  Nil = Nil
  UnsubscribeAnytime = FALSE
INVARIANTS CallbackDataValid  EverySubscriberCalled RefExact
SYMMETRY Symmetry
