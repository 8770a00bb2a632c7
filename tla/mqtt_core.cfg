SPECIFICATION Spec
CONSTANTS
  Topics = {t1, t2}
  NoTopic = NoTopic
  MaxHandlers = 2
  MaxPacketId = 3
  KeepAlive = 0
  CommandTimeout = 1
  YieldTime = 1
  MinWait = 1
  MaxWait = 2
  AutoReconnects = {TRUE}
  CleanSession = TRUE
  PublishQoS = {1}
  PushQoS = {1}
  Callbacks = FALSE
  MayDestroy = FALSE
  MaxDepth = 10
  MaxPipe = 2
  MaxPushes = 1
  MaxFaults = 1
SYMMETRY TopicSymmetry
INVARIANTS
  NoDuplicateHandler
  SubscriptionsAgree
  AnswerIsMine
  ReconnectNestingBounded

