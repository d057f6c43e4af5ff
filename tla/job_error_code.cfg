SPECIFICATION Spec
CONSTANTS
  Sources = {"local"}
  Archived = {FALSE}
  MaxRuns = 1
PROPERTY ErrorCodeReported
CHECK_DEADLOCK FALSE
