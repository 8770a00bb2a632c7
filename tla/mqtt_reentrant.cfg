SPECIFICATION Spec
CONSTANTS
  Topics = {t1}
  NoTopic = NoTopic
  MaxHandlers = 1
  MaxPacketId = 2
  KeepAlive = 0
  CommandTimeout = 1
  YieldTime = 1
  MinWait = 1
  MaxWait = 2
  AutoReconnects = {TRUE, FALSE}
  CleanSession = FALSE
  PublishQoS = {2}
  PushQoS = {0,1,2}
  Callbacks = TRUE
  MayDestroy = TRUE
  MaxDepth = 7
  MaxPipe = 1
  MaxPushes = 1
  MaxFaults = 0
CHECK_DEADLOCK FALSE
INVARIANTS
  SocketMatchesState
