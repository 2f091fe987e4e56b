SPECIFICATION Spec
CONSTANTS
  Protocol = "selective-repeat"
  NumPackets = 2
  SeqNumModulus = 8
  SizeModulus = 16
  WindowSize = 2
  RSWindowSize = 2
  AckQueueBound = 1
  None = None
INVARIANTS
  InOrderExactlyOnce
  ReceiverStopsComplete
  NoProtocolException
  WindowConsistent
  ArrivalsFitWindow
  AcksAreTrueOrVoid
  IInv
PROPERTIES
  ReliablyTransfers
