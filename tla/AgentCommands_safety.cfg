\* Three callers, a pool of two: the pool runs empty, the queue never fills.
CONSTANTS
  t1 = t1
  t2 = t2
  t3 = t3
  NULL = NULL
  Tasks <- ThreeTasks
  Ops <- AckedCalls
  PoolSize = 2
  QueueLength = 2
SPECIFICATION Spec
SYMMETRY TaskSymmetry
INVARIANTS
  TypeOK
  SlotsConserved
  NoDanglingContext
  ReleaseHasRoom
  QueueNeverFull
  PoolAccounted
  PublishWaitsForCommand
  AbandonedForGood
