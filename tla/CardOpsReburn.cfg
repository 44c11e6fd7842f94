CONSTANTS
  Factory = Factory
  Issuers = {a}
  TestSet = TestSet
  NoSession = NoSession
  N = 2
  Chunks = 1
  BurnVersions = {1}
SPECIFICATION BurnOnlySpec
INVARIANT ReburnFixesEverything
