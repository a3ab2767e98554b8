SPECIFICATION Spec
CONSTANTS
  RetryAttempts = 2
  Pipes = {p1}
  Forwarders = {f1}
  FlagSets <- MCFlags
  MaxPolls = 1
  MaxFaults = 1
INVARIANTS WipedBeforeRetry
CHECK_DEADLOCK FALSE
