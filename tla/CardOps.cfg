CONSTANTS
  Factory = Factory
  Issuers = {a, b}
  TestSet = TestSet
  NoSession = NoSession
  N = 2
  Chunks = 2
  BurnVersions = {1}
SPECIFICATION FairSpec
INVARIANTS
  IInv
  SuccessIsComplete
PROPERTIES
  MasterCommitsLast
  KeepsLifecycle
  OperationsEnd
  TrueKeysRecover
