SPECIFICATION PSpec
CONSTANT MaxReports = 3
INVARIANT PrintedFalseMeansNotStarted
CHECK_DEADLOCK FALSE
