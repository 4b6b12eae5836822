CONSTANTS
  t1 = t1
  t2 = t2
  t3 = t3
  NULL = NULL
  Tasks <- TwoTasks
  Ops <- NoRefusal
  PoolSize = 2
  QueueLength = 1
SPECIFICATION FairSpec
PROPERTIES
  AcceptedCallReturns
  PoolRecovers
  ImplementsContract
