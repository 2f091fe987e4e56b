SPECIFICATION FairSpec
CONSTANTS
  Protocol = "go-back-n"
  NumPackets = 1
  SeqNumModulus = 4
  SizeModulus = 16
  WindowSize = 1
  RSWindowSize = 1
  AckQueueBound = 1
  None = None
PROPERTIES
  TransmitterStops
