SPECIFICATION MCFairSpec
CONSTANTS
  SABM_RETRIES = 3
  TX_QUEUE_DEPTH = 1
  CTRL_QUEUE_DEPTH = 8
  DLC1_PIPE_BYTES = 1
  DLC2_PIPE_BYTES = 2
  MAX_INFO_LEN = 2
  MaxStrays = 0
  MaxRxBytes = 3
  MaxTxBytes = 0
  MaxFaults = 2
INVARIANT
  OpensDespiteFaults
PROPERTIES
  RxIsStream
  RxDelivered
\* The bytes run out.
CHECK_DEADLOCK FALSE
