SPECIFICATION FairSpec
CONSTANTS
  SABM_RETRIES = 2
  TX_QUEUE_DEPTH = 1
  CTRL_QUEUE_DEPTH = 4
  DLC1_PIPE_BYTES = 512
  DLC2_PIPE_BYTES = 4096
  MAX_INFO_LEN = 127
  MaxStrays = 1
  MaxRxBytes = 1
  MaxTxBytes = 1
INVARIANTS
  TypeOK
  OpenedIsAccepted
  AcceptedInOrder
  RejectedIsRefused
  RoomForControl
PROPERTY
  StartTerminates
\* start() returns, and nothing more happens.
CHECK_DEADLOCK FALSE
