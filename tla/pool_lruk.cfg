SPECIFICATION MCSpec
CONSTANTS
  BUFFER_POOL_SIZE = 2
  Page <- MCPage
  Client <- MCClient
  Value <- MCValue
  Zero = zero
  REPLACER = "LRUKReplacer"
  K = 2
  SweepOps = {}
  MaxIOErrors = 1
  MaxTs = 5
  None = None
  c1 = c1
  c2 = c2
  zero = zero
  one = one
SYMMETRY Threads
INVARIANTS LossBounded DefaultNodeUnused
CHECK_DEADLOCK FALSE
