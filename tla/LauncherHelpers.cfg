SPECIFICATION Spec
CONSTANTS
  RetryAttempts = 1
  Pipes = {p1}
  Forwarders = {f1}
  FlagSets <- MCPrivate
  MaxPolls = 1
  MaxFaults = 1
PROPERTIES HelpersAllRevived
CHECK_DEADLOCK FALSE
