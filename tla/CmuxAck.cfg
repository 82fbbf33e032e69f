SPECIFICATION MCSpec
CONSTANTS
  AtTries = 5
  Rounds = 1
  SimPin = FALSE
  MaxUrcs = 0
  MaxFaults = 1
INVARIANTS
  CmuxIsAcknowledged
\* raw_at_init() returns, and nothing more happens.
CHECK_DEADLOCK FALSE
