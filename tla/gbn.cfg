SPECIFICATION Spec
CONSTANTS
  Protocol = "go-back-n"
  NumPackets = 2
  SeqNumModulus = 8
  SizeModulus = 16
  WindowSize = 2
  RSWindowSize = 1
  AckQueueBound = 1
  None = None
INVARIANTS
  InOrderExactlyOnce
  NothingForgotten
  AcksAreTrue
  ReceiverStopsComplete
  IInv
PROPERTIES
  ReliablyTransfers
