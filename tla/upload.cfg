SPECIFICATION MCSpec
CONSTANTS
  FileSize = 4
  MaxRetries = 3
  PreviousSizes = {0, 5}
  MaxCommands = 2
  Shooters = {"s1", "s2"}
  MaxReads = 3
  SkipFrames = 1
  MaxTries = 1
INVARIANTS FilesTypes DeliveredWhole ResumeOffsetExists DownloadAllOrNothing StreamerOnlyIfAllowed SnapshotOrNothing
PROPERTIES RunningFileKept CommandsEnd
CHECK_DEADLOCK FALSE
