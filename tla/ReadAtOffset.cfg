SPECIFICATION Spec
CONSTANTS
  NumThreads = 2
  ActiveThreads = 2
  MasterPosition = 4
  Programs <- ReadsAtOffsetsCalls
INVARIANT MovedToItsOffset
