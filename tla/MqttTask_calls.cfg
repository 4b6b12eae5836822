\* Two callers, and memory for three tasks.
CONSTANTS
  Parents = {p1, p2}
  Children = {k1, k2, k3}
  NULL = NULL
SPECIFICATION FairSpec
INVARIANTS
  TypeOK
  ParamsAlive
  CopiesAlive
PROPERTIES
  ServedParentReturns
CHECK_DEADLOCK FALSE
