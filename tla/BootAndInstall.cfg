SPECIFICATION Spec
CONSTANTS
  Configs <- MCConfigs
  Apks <- MCApks
  Hash <- MCHash
  BootApks = {"old"}
  GmsApks = {"gmscore"}
  Pids = {p1}
  MaxAttempts = 11
  MaxTries = 2
  IdleTime = 3
  MaxFaults = 1
  MaxBusy = 2
INVARIANTS
  TypeOK
  ReadyMeansUp
  SystemApksServed
  EveryApkInstalled
PROPERTIES
  KillsOnlyHungApps
  HungMeansIdle
  LaunchEnds
CHECK_DEADLOCK FALSE
