SPECIFICATION Spec
CONSTANTS
  FileSize = 4
  MaxRetries = 3
  PreviousSizes = {2}
INVARIANT DeliveredWhole
CHECK_DEADLOCK FALSE
