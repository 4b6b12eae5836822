\* MQTTThing's use of the agent, two publishers, and outages of the access point.
CONSTANTS
  NULL = NULL
  t1 = t1
  t2 = t2
  MaxSockets = 2
  WifiDrops = TRUE
  Recon = {TRUE}
  AppCalls = {}
  Observers = {{"MQTTOnline", "MQTTOffline"}}
  Tasks = {t1, t2}
  Ops = {"publish"}
  PoolSize = 1
  QueueLength = 1
SPECIFICATION SysFairSpec
INVARIANTS
  SysTypeOK
  SessionStands
  NoSocketLeak
  OneTask
PROPERTIES
  ProvidesService
  AnnouncesConnection
  ReconnectsWhileJoined
  ConnectsAgain
  CallsSurviveOutages
