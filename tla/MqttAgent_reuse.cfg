\* The application may close and connect again at any time.
CONSTANTS
  MaxSockets = 2
  WifiDrops = TRUE
  Recon = {TRUE, FALSE}
  AppCalls = {"connect", "close", "stop", "observe"}
  Observers = {{"MQTTOnline", "MQTTOffline"}, {"MQTTOnline"}, {}}
SPECIFICATION FairSpec
INVARIANTS
  NeverStranded
PROPERTIES
  KeepsTrying
