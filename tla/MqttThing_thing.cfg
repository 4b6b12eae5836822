\* One application task beside the thing's own.
CONSTANTS
  Apps = {"app"}
  AppTopics = {"TESTTEMP"}
SPECIFICATION FairSpec
INVARIANTS
  TypeOK
  StatusOwed
PROPERTIES
  RejoinsUnlessCaught
  ReturnsUnlessCaught
  AnnouncedUnlessLate
CHECK_DEADLOCK FALSE
