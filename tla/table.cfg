SPECIFICATION MCSpec
CONSTANTS
  Client <- TwoClients
  REC_PER_PAGE = 2
  MaxPages = 3
  Statements = {"insert", "select", "update", "delete"}
  Rows = 2
  Writers = 1
  None = None
  c1 = c1
  c2 = c2
SYMMETRY Threads
INVARIANTS TypeOK CountsAgree ScanComplete ScanOnce
PROPERTY RowsSpec
CHECK_DEADLOCK FALSE
