SPECIFICATION FairSpec
CONSTANTS
  Hosts = {broker, backup}
  Garbage = Garbage
  MaxSockets = 2
  MaxLookups = 2
INVARIANTS
  TypeOK
  ConnectsToHost
PROPERTY ConnectReturns
