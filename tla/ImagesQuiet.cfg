SPECIFICATION Spec
CONSTANTS
  Configs <- MCConfigs
  LsofTries = 2
INVARIANTS
  TarIsQuiet
CHECK_DEADLOCK FALSE
