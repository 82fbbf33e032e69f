SPECIFICATION MCSpec
CONSTANTS
  SABM_RETRIES = 3
  TX_QUEUE_DEPTH = 16
  CTRL_QUEUE_DEPTH = 8
  DLC1_PIPE_BYTES = 512
  DLC2_PIPE_BYTES = 4096
  MAX_INFO_LEN = 127
  MaxStrays = 0
  MaxRxBytes = 0
  MaxTxBytes = 0
  MaxFaults = 9
INVARIANT
  SabmTimeoutIsHonest
\* start() returns, and nothing more happens.
CHECK_DEADLOCK FALSE
