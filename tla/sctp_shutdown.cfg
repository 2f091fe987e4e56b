SPECIFICATION LauncherSpec
CONSTANTS
  Protocol = "dummy-sctp"
  NumPackets = 1
  SeqNumModulus = 4
  SizeModulus = 16
  WindowSize = 1
  RSWindowSize = 1
  AckQueueBound = 1
  NumAddrs = 1
  MaxAttempts = 1
  None = None
PROPERTIES
  TransmitterStopsUnlessFails
CHECK_DEADLOCK FALSE
