SPECIFICATION Spec
CONSTANTS
  Protocol = "stop-and-wait"
  NumPackets = 2
  SeqNumModulus = 3
  SizeModulus = 16
  WindowSize = 1
  RSWindowSize = 1
  AckQueueBound = 1
  None = None
INVARIANTS
  TypeOK
  CompletionSound
  AcksAreTrue
  NoProtocolException
  WholeTransmissionInOrder
  IInv
