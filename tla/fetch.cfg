SPECIFICATION MCSpec
CONSTANTS
  Procs = {"p1", "p2"}
  Budget = 4
  MaxSuffix = 1
  Present <- MCPresent
  MaxPasses = 2
  MaxRetries = 1
  RawNames <- AnyNames
INVARIANTS TypeOK EndsRight
PROPERTIES SharesDirectory Finishes
CHECK_DEADLOCK FALSE
