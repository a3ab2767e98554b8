\* Two counting resources and a main thread nothing interrupts.
SPECIFICATION FairSpec
CONSTANTS
  r1 = r1
  r2 = r2
  Resources <- TwoResources
  CallbackFirst <- NoResource
  MaxCount = 2
  MaxIncrements = 3
  MaxRequests = 2
  MaxWaits = 2
  MayUnregister = FALSE
  MayTimeOut = FALSE
PROPERTIES WaitEnds
