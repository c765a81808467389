SPECIFICATION FairSpec
CONSTANTS
  Host <- MCHost
  forwarding_table <- Table
  Me = Me
  None = None
  Requests = 2
  Kinds = {"data", "echo", "error", "other"}
  MaxPackets = 1
  Polite = FALSE
  a = a
  gateway = gateway
  far = far
  stray = stray
PROPERTY KeepsReceiving
