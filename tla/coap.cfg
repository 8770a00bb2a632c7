SPECIFICATION FairSpec
CONSTANTS
  Requests = {r1, r2, r3}
  Auth = Auth
  NoRequest = NoRequest
  MaxSessions = 2
  MaxId = 4
  MaxCalls = 1
  MaxCopies = 2
  Nests = FALSE
INVARIANTS
  AnswersMatch
PROPERTIES
  ImplementsRequestTable
  AuthEnds
CHECK_DEADLOCK FALSE
