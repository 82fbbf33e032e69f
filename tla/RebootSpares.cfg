SPECIFICATION Spec
CONSTANTS
  Host = "name"
  RailDrops = FALSE
  MaxCrashes = 1
  MaxFaults = 0
PROPERTY
  RebootSparesModem
\* Once it is up nothing more happens.
CHECK_DEADLOCK FALSE
