SPECIFICATION FairSpec
CONSTANTS
  NumThreads = 4
  ActiveThreads = 3
  Calls = 2
  Outcomes = {"SUCCESS"}
INVARIANTS
  TypeOK
  NoLostWakeup
  NoUseAfterFree
  NoWorkBehind
  AllWorkDone
  EverySlotOnce
  NoDeadlock
PROPERTIES
  ImplementsCollective
  EveryCallReturns
