SPECIFICATION FairSpec
CONSTANTS
  SABM_RETRIES = 3
  TX_QUEUE_DEPTH = 16
  CTRL_QUEUE_DEPTH = 8
  DLC1_PIPE_BYTES = 1
  DLC2_PIPE_BYTES = 2
  MAX_INFO_LEN = 2
  BUF = 1
  ACC = 3
  Numbering = 3
  MaxUrcs = 1
  MaxPpp = 3
  MaxOwed = 2
  MaxLine = 1
  MaxFaults = 1
INVARIANTS
  TypeOK
  StartPppIsExplained
  PollLagsByTimeouts
PROPERTIES
  PollTimeoutIsExplained
  PppIsStream
  PppFlows
\* start_ppp() may fail, and main() then idles.
CHECK_DEADLOCK FALSE
