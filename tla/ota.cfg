SPECIFICATION FairSpec
CONSTANTS
  Commands <- MCCommands
  Images <- MCImages
  Number <- MCNumber
  FirmVersion = "V1"
  HttpBuffer = 1
  MaxNesting = 2
INVARIANTS PreparedMeansImage
PROPERTY UpgradedUnlessPoisoned
