SPECIFICATION MCSpec
CONSTANTS
  Nothing = Nothing
  Nobody = Nobody
  Materials = {"PLA", "PETG"}
  Default = "PLA"
  Kinds = {"sliced", "own"}
  Reports <- MCReports
  Readings <- MCReadings
  Sources = {"url", "model", "archive", "ready"}
  Screens = {1, 2}
  Runs = {1, 2}
  MaxDepth = 4
INVARIANTS InteractiveTypes WorkdirOwned WorkKept FedRight
CHECK_DEADLOCK FALSE
