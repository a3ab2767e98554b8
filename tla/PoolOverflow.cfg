\* One core thread and one above the core size.
SPECIFICATION Spec
CONSTANTS
  w1 = w1
  w2 = w2
  w3 = w3
  t1 = t1
  t2 = t2
  t3 = t3
  Main = Main
  Workers <- TwoWorkers
  Tasks <- ThreeTasks
  CorePoolSize = 1
  QueueCapacity = 1
  MaxMonitors = 1
  MaxInterrupts = 0
  MaxRestarts = 4
  MayGiveUp = FALSE
INVARIANTS TripIsTrueIdle
