SPECIFICATION Spec
CONSTANTS
  RetryAttempts = 2
  Pipes = {p1, p2}
  Forwarders = {f1}
  FlagSets <- MCFlags
  MaxPolls = 1
  MaxFaults = 2
INVARIANTS
  TypeOK
  KilledBeforeRetry
  FilesStay
  SuccessMeansAlive
  HelpersStop
PROPERTIES
  LauncherEnds
  AttemptEnds
  HelpersRevived
CHECK_DEADLOCK FALSE
