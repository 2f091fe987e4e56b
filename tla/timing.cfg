SPECIFICATION TimedSpec
CONSTANTS
  Protocol = "go-back-n"
  NumPackets = 1
  SeqNumModulus = 4
  SizeModulus = 16
  WindowSize = 2
  AckQueueBound = 1
  Timeout = 1
  MaxTime = 5
  PayloadLength = 2
  Base = 2
  MaxUnit = 8
  IDModulus = 5
  None = None
INVARIANTS
  RetransmissionsSpaced
  ReceiverReads
  NewIDsAreFresh
CHECK_DEADLOCK FALSE
