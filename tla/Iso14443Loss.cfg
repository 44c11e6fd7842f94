CONSTANTS
  SendChunks = 1
  RecvChunks = 1
  MAX_RETRIES = 2
  MaxCalls = 1
  MaxLoss = 1
  MaxWtx = 0
  Reactivates = TRUE
SPECIFICATION SessionSpec
INVARIANTS
  OneLossIsRecovered
CHECK_DEADLOCK FALSE
