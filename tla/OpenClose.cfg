SPECIFICATION FairSpec
CONSTANTS
  NumThreads = 3
  Opens = 2
  MaxCalls = 5
  Configs <- FewAndMany
  MayFail = FALSE
  AnyOrder = FALSE
INVARIANTS
  TypeOK
  NoUseAfterFree
  FindsItsFile
  ReachesItsFile
  InStep
  NothingLeft
  NoDeadlock
PROPERTIES
  ImplementsOpenFiles
  EveryCallReturns
