SPECIFICATION Spec
CONSTANTS
  NumThreads = 2
  Opens = 2
  MaxCalls = 5
  Configs <- FewAndMany
  MayFail = FALSE
  AnyOrder = TRUE
INVARIANT FindsItsFile
