\* Two core threads, two tasks, two waits of the main thread, each of which it may
\* give up, and an interrupt of a barrier task.
SPECIFICATION Spec
CONSTANTS
  w1 = w1
  w2 = w2
  w3 = w3
  t1 = t1
  t2 = t2
  t3 = t3
  Main = Main
  Workers <- TwoWorkers
  Tasks <- TwoTasks
  CorePoolSize = 2
  QueueCapacity = 8
  MaxMonitors = 2
  MaxInterrupts = 1
  MaxRestarts = 4
  MayGiveUp = TRUE
SYMMETRY Symmetry2
INVARIANTS TypeOK NeverRecursive NoLeftoverBarrierTasks TripIsTrueIdle
PROPERTIES RunningWorkIsSeen ImplementsIdleNotifier
