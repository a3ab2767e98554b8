\* The main thread waits for the pool, twice, and never gives up.
SPECIFICATION FairSpec
CONSTANTS
  w1 = w1
  w2 = w2
  w3 = w3
  t1 = t1
  t2 = t2
  t3 = t3
  Main = Main
  Workers <- TwoWorkers
  Tasks <- TwoTasks
  CorePoolSize = 2
  QueueCapacity = 8
  MaxMonitors = 2
  MaxInterrupts = 0
  MaxRestarts = 4
  MayGiveUp = FALSE
PROPERTIES IdleIsNotified
