SPECIFICATION MCSpec
CONSTANTS
  BUFFER_POOL_SIZE = 2
  Page <- MCPage
  Client <- MCClient
  Value <- MCValue
  Zero = zero
  REPLACER = "LRUReplacer"
  K = 1
  SweepOps = {"delete", "flush"}
  MaxIOErrors = 0
  MaxTs = 0
  None = None
  c1 = c1
  c2 = c2
  zero = zero
  one = one
SYMMETRY Threads
INVARIANTS TypeOK FrameOwnership PinProtects NoSpuriousFull SweepComplete
PROPERTIES StoreSpec EvictsLeastRecent
CHECK_DEADLOCK FALSE
