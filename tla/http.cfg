SPECIFICATION ServiceSpec
CONSTANTS
  Calls <- MCCalls
  MaxRounds = 3
INVARIANTS HeaderRead BodyDelivered CredentialsBelongTogether
PROPERTY PerformEnds
CHECK_DEADLOCK FALSE
