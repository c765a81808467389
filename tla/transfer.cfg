SPECIFICATION FairSpec
CONSTANTS
  num = 4
  senderWindow = 4
  MaxResend = 1
  MaxQueue = 2
INVARIANTS TypeOK WindowShape
PROPERTIES ChannelSpec AllDelivered
CHECK_DEADLOCK FALSE
