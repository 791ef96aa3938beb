SPECIFICATION Spec
CONSTANTS
  NumThreads = 2
  ActiveThreads = 2
  MasterPosition = 4
  Programs <- ManyListsCalls
INVARIANT AllBuffersMoved
