SPECIFICATION FairSpec
CONSTANTS
  Topics = {t1}
  NoTopic = NoTopic
  MaxHandlers = 1
  MaxPacketId = 2
  KeepAlive = 0
  CommandTimeout = 1
  YieldTime = 1
  MinWait = 1
  MaxWait = 2
  AutoReconnects = {TRUE}
  CleanSession = TRUE
  PublishQoS = {0}
  PushQoS = {0}
  Callbacks = FALSE
  MayDestroy = FALSE
  MaxDepth = 7
  MaxPipe = 1
  MaxPushes = 0
  MaxFaults = 1
PROPERTIES
  AutoReconnectRecovers
