SPECIFICATION LiveSpec
CONSTANTS
  MaxPolls = 2
  Threads = {t1, t2}
  MaxCalls = 2
  NumSites = 3
INVARIANTS
  ThreadsKeepTheirMemory
  WrittenOnlyAsAWhole
  HookIsOneShot
PROPERTIES
  ResumedChildIsComplete
  NobodyWaitsForEver
  UiStateComesBack
CHECK_DEADLOCK FALSE
