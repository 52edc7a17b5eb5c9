SPECIFICATION HooksSpec
CONSTANTS
  MaxAttempts = 2
  MaxDisturbances = 2
INVARIANTS
  CallsReachUnity
CHECK_DEADLOCK FALSE
