\* One application task beside the thing's own.
CONSTANTS
  Apps = {"app"}
  AppTopics = {"TESTTEMP"}
SPECIFICATION Spec
INVARIANTS
  TopicsIntact
CHECK_DEADLOCK FALSE
