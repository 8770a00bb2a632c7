SPECIFICATION FairSpec
CONSTANTS
  Requests = {r1, r2, r3}
  NoRequest = NoRequest
  MaxSessions = 2
  InitTime = 1
  Base = 3
  Width = 1
  Retries = FALSE
  MaxPushes = 1
INVARIANTS
  AnswersMatch
  OwnsItsSession
PROPERTIES
  ImplementsRequestTable
