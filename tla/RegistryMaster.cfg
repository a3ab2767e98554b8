\* The master timeout meets a counting resource between its state and its callback.
SPECIFICATION Spec
CONSTANTS
  r1 = r1
  r2 = r2
  Resources <- OneResource
  CallbackFirst <- NoResource
  MaxCount = 1
  MaxIncrements = 1
  MaxRequests = 1
  MaxWaits = 1
  MayUnregister = FALSE
  MayTimeOut = TRUE
INVARIANTS MasterTimeoutIsReported
