SPECIFICATION Spec
CONSTANTS
  Capacity = 2
  IndexMod = 4
  SemMax = 3
  Items = {a, b}
  NoItem = NoItem
  Writers = {w1}
  Readers = {r1}
  WriteOps = {"write", "isr", "poll", "timed", "forever"}
  ReadOps = {"read", "poll", "timed", "forever"}
INVARIANTS TypeOK NoSlotRace
PROPERTY RingIsFifo
INVARIANT CallsInv
