SPECIFICATION FairSpec
CONSTANTS
  Declared <- MCDeclared
  Capacity = 3
  Properties <- MCProperties
  Orders <- MCOrders
  Junk <- MCJunk
  MaxOrders = 3
  MaxNesting = 2
INVARIANTS DocumentsRead ConfirmedIsReported
PROPERTY OrdersSettle
CHECK_DEADLOCK FALSE
