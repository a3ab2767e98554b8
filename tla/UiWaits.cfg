\* Two calls over a pool and the registry of an application that ends its work, with
\* timeouts of both policies and an interrupt; the waits may also be thrown out of.
SPECIFICATION QuietSpec
CONSTANTS
  async = async
  dynamic = dynamic
  Pools <- OnePool
  Dynamic = dynamic
  NotifierOrder <- PollOrder
  MaxOps = 2
  MaxBusy = 1
  MaxTimeouts = 2
  MaxInterrupts = 1
  MaxCached = 0
INVARIANTS TypeOK SignaledTaskIsDone NoLeftoverSignal NeverRecursive
PROPERTIES ReturnedMeansIdle CallEnds
CHECK_DEADLOCK FALSE
