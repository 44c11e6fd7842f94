CONSTANTS
  Procs = {p1, p2}
  MaxTime = 2
  MaxSteps = 2
  Readers <- Bench
  Pins <- BenchPins
  NoPin = NoPin
  NoReader = NoReader
  Free = Free
  Harness = Harness
  MaxExchanges = 2
  MaxFaults = 1
SYMMETRY Symmetry
SPECIFICATION BenchSpec
INVARIANTS
  BenchTypeOK
  BenchIsExclusive
  
  LogIsTrue
  BudgetCoversCard
CHECK_DEADLOCK FALSE
