CONSTANTS
  Factory = Factory
  a = a
  b = b
  Issuers = {a}
  TestSet = TestSet
  StaticTest = StaticTest
  NoSession = NoSession
  N = 2
  Chunks = 1
  BurnVersions = {1}
  Candidates <- ScanOrder
  Used = {"burn", "wipe", "rawwipe", "cycle", "testck", "diagnose", "keyver", "inspect", "scan", "trykey"}
  Retries = 1
  TryAttempts = 2
  Breaker = 10
  SeqLimit = 3
  MaxDelay = 2
SPECIFICATION CliSpec
INVARIANTS
  CliTypeOK
PROPERTIES
  DrivesCardOps
