SPECIFICATION MCSpec
CONSTANTS
  Sources = {"local", "url"}
  Archived = {TRUE, FALSE}
  MaxRuns = 4
  Printers = {"p1", "p2"}
  Gens = 2
  Paths = {"access_code", "other"}
  MaxOps = 2
  MaxStops = 1
INVARIANTS JobTypes OneEnvelope NoWorkdirLeft PlateIsSliced AtMostOneJob DryRunIsTrue ReportsAreTrue
PROPERTY NothingLostOrCopied
CHECK_DEADLOCK FALSE
