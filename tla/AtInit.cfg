SPECIFICATION MCFairSpec
CONSTANTS
  AtTries = 2
  Rounds = 1
  SimPin = TRUE
  MaxUrcs = 1
  MaxFaults = 1
INVARIANTS
  TypeOK
  CmuxAcknowledgedInStep
  NotRegisteredInStep
  RegistrationIsReal
PROPERTIES
  AnswersLagByFaults
  RawAtInitReturns
\* raw_at_init() returns, and nothing more happens.
CHECK_DEADLOCK FALSE
