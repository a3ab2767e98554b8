\* A resource that calls back before it updates its state.
SPECIFICATION Spec
CONSTANTS
  r1 = r1
  r2 = r2
  Resources <- OneResource
  CallbackFirst <- OneResource
  MaxCount = 1
  MaxIncrements = 1
  MaxRequests = 1
  MaxWaits = 2
  MayUnregister = FALSE
  MayTimeOut = TRUE
INVARIANTS FollowersAreNotAccused
