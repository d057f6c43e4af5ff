SPECIFICATION MCSpec
CONSTANTS
  Runs = {"r1", "r2"}
  Nothing = Nothing
  Before <- MCBefore
  Requests <- MCRequests
  Tokens = {"M", "T", "hot", "odd", "N", "comment", "G", "CR", "LF"}
  MaxFile = 4
  MaxChunk = 2
  MaxLine = 3
INVARIANTS TypeOK EndsClean SettingsAreSafe
PROPERTIES GoodOutputKept FinishesUnlessHeld
CHECK_DEADLOCK FALSE
