SPECIFICATION FairSpec
CONSTANTS
  Host = "name"
  RailDrops = TRUE
  MaxCrashes = 2
  MaxFaults = 2
INVARIANTS
  TypeOK
  CleanBoot
  ResetsAreBounded
PROPERTY
  Settles
\* Once it is up nothing more happens.
CHECK_DEADLOCK FALSE
