SPECIFICATION Spec
CONSTANTS
  NumThreads = 3
  ActiveThreads = 2
  MasterPosition = 4
  Programs <- CallsAndSequences
INVARIANTS
  TypeOK
  MovesWhatWasAsked
  RunsAreMaximal
  
  QuitWithLastRun
  CountedAreAssigned
  Balanced
  SortedPermutation
