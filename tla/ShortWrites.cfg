SPECIFICATION Spec
CONSTANTS
  Threads = {0, 1}
  MASTER = 0
  Lengths = {4}
  Offsets = {0, 5}
INVARIANT SuccessMeansWritten
