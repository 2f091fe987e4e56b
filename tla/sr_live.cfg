SPECIFICATION FairSpec
CONSTANTS
  Protocol = "selective-repeat"
  NumPackets = 1
  SeqNumModulus = 4
  SizeModulus = 16
  WindowSize = 2
  RSWindowSize = 3
  AckQueueBound = 1
  None = None
INVARIANTS
  WindowFollowsDelivery
PROPERTIES
  EventuallyDelivered
  ReceiverStops
