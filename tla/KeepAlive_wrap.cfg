\* The clock wraps twice; FastEnough and BrokerHears are tight.
CONSTANTS
  WordSize = 13
  HalfKeepAlive = 6
  LoopPeriod = 1
  RoundLag = 1
  MaxTime = 27
SPECIFICATION Spec
INVARIANTS
  TypeOK
  BrokerHears
PROPERTIES
  PingsSpaced
CHECK_DEADLOCK FALSE
