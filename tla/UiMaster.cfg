\* A wait for a source that stays busy while the main thread has nothing to do.
SPECIFICATION FairSpec
CONSTANTS
  async = async
  dynamic = dynamic
  Pools <- OnePool
  Dynamic = dynamic
  NotifierOrder <- PollOrder
  MaxOps = 1
  MaxBusy = 1
  MaxTimeouts = 1
  MaxInterrupts = 0
  MaxCached = 0
PROPERTIES OverdueWaitEnds
CHECK_DEADLOCK FALSE
