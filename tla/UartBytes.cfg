SPECIFICATION FairSpec
CONSTANTS
  BufferSize = 2
  Lengths <- MCLengths
  MaxBytes = 4
INVARIANTS WireInOrder BytesAccounted
PROPERTIES BytesMoveOn
CHECK_DEADLOCK FALSE
