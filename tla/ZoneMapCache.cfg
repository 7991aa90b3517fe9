SPECIFICATION Spec
CONSTANTS
  Cm = {c1, c2}
  Modes = {"none", "heap", "shared"}
  Interval = 1
  MaxCall = 1
  CommitChecks = TRUE
  MaxTime = 4
  MaxCommit = 1
INVARIANTS
  CacheInv AnswersFresh LookupsKeepTheMap
PROPERTIES
  LookupsEnd
CHECK_DEADLOCK FALSE
