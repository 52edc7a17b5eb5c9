SPECIFICATION LiveSpec
CONSTANTS
  NumSites = 2
  Pages = {1, 2}
  PageOf <- MCOwnPages
  MaxAttempts = 3
  MaxFaults = 2
  MaxForeign = 2
INVARIANTS
  ReplacedWordsAreTracked
  OpenPagesAreTracked
  CleanWhenDone
  AbandonedOnlyToOthers
PROPERTIES
  ForeignWordsKept
  OriginalCodeReturns
