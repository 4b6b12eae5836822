\* MQTTThing, and the access point is lost now and then.
CONSTANTS
  MaxSockets = 2
  WifiDrops = TRUE
  Recon = {TRUE}
  AppCalls = {}
  Observers = {{"MQTTOnline", "MQTTOffline"}}
SPECIFICATION FairSpec
PROPERTIES
  Reconnects
