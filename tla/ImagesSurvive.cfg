SPECIFICATION Spec
CONSTANTS
  Configs <- MCConfigs
  LsofTries = 2
INVARIANTS
  TypeOK
  ArgsNameStagedFiles
  DensityAgrees
  BootStateSurvives
  InputsUntouched
  StoredMeansClean
CHECK_DEADLOCK FALSE
