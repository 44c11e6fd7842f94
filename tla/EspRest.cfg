CONSTANTS
  Factory = Factory
  Issuers = {a}
  TestSet = TestSet
  NoSession = NoSession
  None = None
  Sources = {"rest", "button"}
  StagedUrls = {"template", "plain"}
  N = 2
  Chunks = 1
  BurnVersions = {1}
SPECIFICATION EspSpec

  
PROPERTIES
  DrivesCardOps
