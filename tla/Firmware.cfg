CONSTANTS
  Cards = {"live", "static", "off"}
  Foreign = {"off"}
  NoCard = "none"
  ACTIVATION_ATTEMPTS = 4
  Nets = {n1, n2}
  NoBlob = NoBlob
  Mirror <- MCMirror
  SendChunks = 3
  RecvChunks = 3
  MAX_RETRIES = 2
  MaxCalls = 2
  MaxLoss = 5
  MaxWtx = 2
  Reactivates = TRUE
  Files = {"cc", "ndef"}
  NoFile = "none"
  Sizes = {0, 240, 249, 257}
  FileSize = 256
  MaxCommands = 3
  MaxFaults = 1
  MaxJobs = 3
  Cooldown = 2
SPECIFICATION MCFairSpec
INVARIANTS
  FirmwareTypeOK
  KnowsItsCard
  
  CardReportsAreTrue
  
  ChannelInStep
  
  ReaderIsShared
PROPERTIES
  
  ReaderReturns
  NobodyStarves
CHECK_DEADLOCK FALSE
