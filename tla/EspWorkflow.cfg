CONSTANTS
  Factory = Factory
  Issuers = {a}
  TestSet = TestSet
  NoSession = NoSession
  None = None
  Sources = {"console", "ble"}
  StagedUrls = {}
  N = 2
  Chunks = 1
  BurnVersions = {1}
SPECIFICATION EspSpec
INVARIANTS
  EspTypeOK
  CheckTellsBlank
  InspectAfterBurnIsFree
PROPERTIES
  DrivesCardOps
