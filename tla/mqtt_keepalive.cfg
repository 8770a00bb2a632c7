SPECIFICATION FairPingSpec
CONSTANTS
  Topics = {t1}
  NoTopic = NoTopic
  MaxHandlers = 1
  MaxPacketId = 1
  KeepAlive = 2
  CommandTimeout = 2
  YieldTime = 1
  MinWait = 1
  MaxWait = 1
  AutoReconnects = {TRUE}
  CleanSession = TRUE
  PublishQoS = {0}
  PushQoS = {0}
  Callbacks = FALSE
  MayDestroy = FALSE
  MaxDepth = 7
  MaxPipe = 1
  MaxPushes = 1
  MaxFaults = 1
INVARIANT PingHasItsTime
PROPERTIES
  SilentPeerNoticed
  CallsReturn
  ClosedClientRecovers
