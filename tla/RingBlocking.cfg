SPECIFICATION FairSpec
CONSTANTS
  Capacity = 2
  IndexMod = 6
  SemMax = 3
  Items = {a, b}
  NoItem = NoItem
  Writers = {w1}
  Readers = {r1}
  WriteOps = {"forever"}
  ReadOps = {"forever"}
INVARIANT TokensConserved
PROPERTY BlockedWriterReturns
