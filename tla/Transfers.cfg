SPECIFICATION FairSpec
CONSTANTS
  Threads = {0, 1}
  MASTER = 0
  Lengths = {0, 3}
  Offsets = {0, 5}
INVARIANTS
  TypeOK
  StaysInBuffer
  WritesItsRange
  OneRetryIsRight
  PrefixInPlace
PROPERTY EveryTransferEnds
