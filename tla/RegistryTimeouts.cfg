\* A counting resource, one that calls back first, timeouts and unregistrations; an
\* accused resource may end the process.
SPECIFICATION Spec
CONSTANTS
  r1 = r1
  r2 = r2
  Resources <- TwoResources
  CallbackFirst <- Follower
  MaxCount = 1
  MaxIncrements = 2
  MaxRequests = 2
  MaxWaits = 2
  MayUnregister = TRUE
  MayTimeOut = TRUE
INVARIANTS TypeOK TimersMatchCallback NeverRegisteredTwice
PROPERTIES DeclaredIdleIsTrue ImplementsIdleNotifier
CHECK_DEADLOCK FALSE
