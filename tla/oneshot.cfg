SPECIFICATION MCSpec
CONSTANTS
  Retries = 2
  MaxReports = 3
  Keys = {"gcode_state", "mc_percent"}
  QRetries = 2
  States = {"RUNNING", "FINISH", "FAILED"}
  Terminal = {"FINISH", "FAILED"}
  MaxDrops = 1
  Workers = {"dash", "monitor", "ams"}
  Detectors = {"ams"}
  MaxFetches = 2
  MaxObjects = 2
  Askers = {"tui", "other"}
  Addresses = {"ip1", "ip2"}
  MaxSlots = 3
INVARIANTS OneShotTypes AnswersAreTrue SessionOwned OneLiveLookup
PROPERTIES KeepsPromise OneShotsEnd
CHECK_DEADLOCK FALSE
