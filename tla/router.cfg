SPECIFICATION FairSpec
CONSTANTS
  Host <- MCHost
  forwarding_table <- Table
  Me = Me
  None = None
  Requests = 2
  Kinds = {"data", "echo", "error", "other"}
  MaxPackets = 2
  Polite = TRUE
  a = a
  gateway = gateway
  far = far
  stray = stray
INVARIANTS TypeOK Custody
PROPERTIES PacketsSpec NoEternalWait
