\* A task between the work queue and its worker.
SPECIFICATION Spec
CONSTANTS
  w1 = w1
  w2 = w2
  w3 = w3
  t1 = t1
  t2 = t2
  t3 = t3
  Main = Main
  Workers <- TwoWorkers
  Tasks <- OneTask
  CorePoolSize = 2
  QueueCapacity = 8
  MaxMonitors = 0
  MaxInterrupts = 0
  MaxRestarts = 4
  MayGiveUp = FALSE
PROPERTIES IdleNowMeansIdle
