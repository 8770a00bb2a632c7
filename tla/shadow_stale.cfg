SPECIFICATION FairSpec
CONSTANTS
  PropertyTotal = 1
  Values = {"a", "b"}
  Initial = "a"
  IntProps = {}
  TooLong = {}
  Refused = {}
  RoomFor = 2
  Interrupts = FALSE
  AppSets = FALSE
  Losses = FALSE
  MaxChanges = 1
  MaxControls = 1
  MaxDrops = 1
  MaxRestarts = 0
  MaxFlight = 2
PROPERTIES
  AlwaysConverges
