SPECIFICATION Spec
CONSTANTS
  ActiveThreads = 3
  MasterPosition = 4
  MaxWriteBlockSize = 2
  BufLens = {0, 1, 2, 3, 4, 5, 8, 9, 10}
  Offsets = {0, 7}
  Calls = 2
INVARIANTS
  TypeOK
  Tiled
  WholeBufferMoved
  QuitWhenHandedOver
  Balanced
PROPERTY NothingAfterQuit
