SPECIFICATION PartsSpec
CONSTANTS
  Filters <- MCFilters
  Names <- MCNames
  HandlerSlots = 2
  MaxChanges = 1
  Options <- MCOptions
  Payloads <- MCPayloads
  MaxOptions = 3
  SendBuffer = 45
  FieldNames <- MCFieldNames
  Strings <- MCStrings
  Raws <- MCRaws
  ServerTexts <- MCServerTexts
  MaxFields = 3
  MaxDepth = 2
  Fields <- MCFields
  Texts <- MCTexts
  Numbers <- MCNumbers
  Digests <- MCDigests
  Behind <- MCBehind
  FormLength = 30
  Block = 8
  Word = 32
  Pieces = {0, 1, 7, 20}
  MaxMessage = 140
  KeyLengths = {0, 5, 8, 9, 12}
  Clients <- MCClients
  Nobody = Nobody
  Kind <- MCKind
  PortsOf <- MCPortsOf
  Descriptors = {0, 1, 2}
  MaxConnects = 4
  Lengths = {0, 3, 9}
  MaxPackets = 2
  Radix = 3
  ReadBuf = 6
  SendBuf = 4
  Outgoing = {1, 3}
  MaxSent = 4
  ClockWord = 32
  Thousand = 6
  TickRates = {2, 3, 6}
  Timeouts = {0, 2, 7}
  MaxTick = 40
  Params = {b, n}
  MaxCommands = 2
  TooLong = {2}
  Fractions = {1}
  Ones = {1}
  MaxCalls = 4
  MaxNested = 3
  Sizes = {0, 3, 4, 5, 7}
  MaxDatagrams = 3
  ReadRoom = 5
INVARIANTS
  DeliveredOnce
  MessageReadBack
  DocumentReadBack
  FormReadBack
  WholeMessageHashed
  OwnDescriptors
  NothingLost
  PacketsInOrder
  CutPacketEndsConnection
  TimerKept
  OneDatagram
PROPERTY ClearedWasHandled
CHECK_DEADLOCK FALSE
