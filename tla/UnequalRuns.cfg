SPECIFICATION Spec
CONSTANTS
  NumThreads = 3
  ActiveThreads = 2
  MasterPosition = 4
  Programs <- UnequalBufferCalls
INVARIANT BlocksAreRuns
