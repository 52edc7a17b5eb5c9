SPECIFICATION Spec
CONSTANTS
  NumSites = 2
  Pages = {1}
  PageOf <- MCOnePage
  MaxAttempts = 3
  MaxFaults = 1
  MaxForeign = 0
INVARIANTS
  AbandonedOnlyToOthers
