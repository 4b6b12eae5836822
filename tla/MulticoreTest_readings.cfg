\* Seven ids, a queue of three, a reading every four seconds.
CONSTANTS
  IdCount = 7
  QueueCapacity = 3
  ReadingPeriod = 4
SPECIFICATION Spec
INVARIANTS
  TypeOK
  IdsTellApart
PROPERTIES
  BridgesBlocking
