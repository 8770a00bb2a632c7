SPECIFICATION FairSpec
CONSTANTS
  PropertyTotal = 2
  Values = {"a", "b"}
  Initial = "a"
  IntProps = {}
  TooLong = {}
  Refused <- FirstOn
  RoomFor = 2
  Interrupts = FALSE
  AppSets = FALSE
  Losses = TRUE
  MaxChanges = 1
  MaxControls = 1
  MaxDrops = 1
  MaxRestarts = 1
  MaxFlight = 2
PROPERTIES
  ForgottenOnlyIfDone
  Converges
  ChangeArrives
  CommandsEnd
