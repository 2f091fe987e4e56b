SPECIFICATION LauncherSpec
CONSTANTS
  Protocol = "dummy-sctp"
  NumPackets = 2
  SeqNumModulus = 8
  SizeModulus = 16
  WindowSize = 1
  RSWindowSize = 1
  AckQueueBound = 1
  NumAddrs = 2
  MaxAttempts = 2
  None = None
INVARIANTS
  AcksAreTrue
  SocketUsable
  OnlyListenerLeaks
  DescriptorsKept
  TransferKept
PROPERTIES
  ReliablyTransfers
  DeliversUnlessFails
CHECK_DEADLOCK FALSE
