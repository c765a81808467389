SPECIFICATION MCSpec
CONSTANTS
  Client <- OneClient
  REC_PER_PAGE = 2
  MaxPages = 3
  Statements = {"insert", "delete"}
  Rows = 1
  Writers = 1
  None = None
  c1 = c1
  c2 = c2
INVARIANT InsertFindsSlot
CHECK_DEADLOCK FALSE
