SPECIFICATION MCFairSpec
CONSTANTS
  SABM_RETRIES = 1
  TX_QUEUE_DEPTH = 2
  CTRL_QUEUE_DEPTH = 8
  DLC1_PIPE_BYTES = 1
  DLC2_PIPE_BYTES = 2
  MAX_INFO_LEN = 2
  MaxStrays = 0
  MaxRxBytes = 0
  MaxTxBytes = 7
  MaxFaults = 1
PROPERTIES
  TxIsStream
  TxDelivered
\* The bytes run out.
CHECK_DEADLOCK FALSE
