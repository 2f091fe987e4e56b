SPECIFICATION Spec
CONSTANTS
  Protocol = "selective-repeat"
  NumPackets = 1
  SeqNumModulus = 8
  SizeModulus = 16
  WindowSize = 2
  RSWindowSize = 2
  AckQueueBound = 1
  None = None
INVARIANTS
  WindowFollowsDelivery
