\* The session is lost now and then.
CONSTANTS
  t1 = t1
  t2 = t2
  t3 = t3
  NULL = NULL
  Tasks <- TwoTasks
  Ops <- Publishes
  PoolSize = 1
  QueueLength = 1
SPECIFICATION FairSpec
PROPERTIES
  CallReturns
