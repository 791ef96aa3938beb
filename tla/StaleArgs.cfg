SPECIFICATION Spec
CONSTANTS
  NumThreads = 3
  ActiveThreads = 2
  Calls = 2
  Outcomes = {"SUCCESS", "ERROR"}
INVARIANT MergedArgsOfThisCall
