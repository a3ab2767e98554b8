SPECIFICATION Spec
CONSTANTS
  Configs <- MCTwoCores
  Apks <- MCApks
  Hash <- MCHash
  BootApks = {"old"}
  GmsApks = {"gmscore"}
  Pids = {p1}
  MaxAttempts = 11
  MaxTries = 2
  IdleTime = 3
  MaxFaults = 1
  MaxBusy = 2
PROPERTIES
  WorkingNotKilled
CHECK_DEADLOCK FALSE
