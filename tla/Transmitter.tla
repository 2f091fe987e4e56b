----------------------------- MODULE Transmitter -----------------------------
(***************************************************************************)
(* arq::Transmitter: the application's thread, which submits packets, and  *)
(* the two threads the transmitter starts.  transmitThread owns the        *)
(* retransmission buffer and alternates between sending something and      *)
(* emptying the queue of acknowledgements; ackThread receives              *)
(* acknowledgements and queues them.                                       *)
(*                                                                         *)
(* A step is the code between two accesses to what another thread or the   *)
(* network can see.  Whether a packet's timeout interval has elapsed is    *)
(* left open: any of the packets held may be due at any time.              *)
(***************************************************************************)
EXTENDS ArqCommon, Channel

CONSTANT WindowSize  \* windowSize_ of the retransmission buffer

ASSUME WindowSizeAssumption == WindowSize \in 1 .. SizeModulus - 1

VARIABLES
  nextSubmit,      \* lastSequenceNumber_ + 1 of the input buffer, not wrapped
  inputPackets_,   \* queue of the input buffer
  rt,              \* retransmissionBuffer_
  endOfTxSeqNum_,
  endOfTxAcked_,
  txAckQueue,      \* ackQueue_
  txPc,            \* where transmitThread is
  txAckPc          \* where ackThread is

RT == INSTANCE RetransmissionBuffer

txVars == <<nextSubmit, inputPackets_, rt, endOfTxSeqNum_, endOfTxAcked_,
            txAckQueue, txPc, txAckPc>>

(* What transmitThread alone changes, and what ackThread leaves alone.     *)
txThreadVars == <<rt, endOfTxSeqNum_, endOfTxAcked_, txPc>>

TransmitterTypeOK ==
  /\ nextSubmit \in 0 .. NumPackets + 1
  /\ inputPackets_ \in Seq(Packets)
  /\ rt \in RT!Buffers
  /\ endOfTxSeqNum_ \in SequenceNumbers \cup {None}
  /\ endOfTxAcked_ \in BOOLEAN
  /\ txAckQueue \in Seq(SequenceNumbers)
  /\ txPc \in {"send", "acks", "exited", "terminated"}
  /\ txAckPc \in {"loop", "recv", "exited"}

TransmitterInit ==
  /\ nextSubmit = 0
  /\ inputPackets_ = <<>>
  /\ rt = RT!Empty
  /\ endOfTxSeqNum_ = None
  /\ endOfTxAcked_ = FALSE
  /\ txAckQueue = <<>>
  /\ txPc = "send"
  /\ txAckPc = "loop"

(***************************************************************************)
(* The application.                                                        *)
(***************************************************************************)
(* A variant with a bug: a packet is submitted after the EoT.              *)
sendPacket_oneTooMany ==
  /\ nextSubmit <= NumPackets + 1
  /\ inputPackets_' = Append(inputPackets_, nextSubmit)
  /\ nextSubmit' = nextSubmit + 1
  /\ UNCHANGED <<txThreadVars, txAckQueue, txAckPc, dataChannel, ackChannel>>

sendPacket ==
  /\ nextSubmit \in Packets
  /\ inputPackets_' = Append(inputPackets_, nextSubmit)
  /\ nextSubmit' = nextSubmit + 1
  /\ UNCHANGED <<txThreadVars, txAckQueue, txAckPc, dataChannel, ackChannel>>

(***************************************************************************)
(* transmitThread.                                                         *)
(***************************************************************************)
transmitPacketData(p) == dataChannel' \in Sent(dataChannel, p)

attemptPacketRetransmission(timedOut) ==
  LET p == RT!tryGetPacketSpan(rt, timedOut)
  IN  /\ txPc = "send"
      /\ p # None
      /\ transmitPacketData(p)
      /\ txPc' = "acks"
      /\ UNCHANGED <<nextSubmit, inputPackets_, rt, endOfTxSeqNum_,
                     endOfTxAcked_, txAckQueue, txAckPc, ackChannel>>

(* Reached when no packet is due.  An exception that leaves the thread's   *)
(* function terminates the program.                                        *)
attemptNewPacketTransmission ==
  LET p == Head(inputPackets_)
  IN  /\ txPc = "send"
      /\ RT!readyForNewPacket(rt)
      /\ inputPackets_ # <<>>
      /\ inputPackets_' = Tail(inputPackets_)
      /\ endOfTxSeqNum_' = IF isEndOfTx(p) THEN SeqNum(p) ELSE endOfTxSeqNum_
      /\ transmitPacketData(p)
      /\ rt' = RT!addPacket(rt, p)
      /\ txPc' = IF RT!HasSpace(rt) THEN "acks" ELSE "terminated"
      /\ UNCHANGED <<nextSubmit, endOfTxAcked_, txAckQueue, txAckPc, ackChannel>>

nothingToTransmit ==
  /\ txPc = "send"
  /\ ~ RT!readyForNewPacket(rt) \/ inputPackets_ = <<>>
  /\ txPc' = "acks"
  /\ UNCHANGED <<nextSubmit, inputPackets_, rt, endOfTxSeqNum_, endOfTxAcked_,
                 txAckQueue, txAckPc, dataChannel, ackChannel>>

(* A variant with a bug: once the EoT has been sent, any acknowledgement   *)
(* is taken for its own.                                                   *)
acksEndOfTx_any(sn) == endOfTxSeqNum_ # None

acksEndOfTx(sn) == sn = endOfTxSeqNum_

(* One round of the loop: an acknowledgement of the EoT ends it and, with  *)
(* it, the thread.                                                         *)
processAckQueue ==
  LET sn  == Head(txAckQueue)
      eot == acksEndOfTx(sn)
  IN  /\ txPc = "acks"
      /\ txAckQueue # <<>>
      /\ txAckQueue' = Tail(txAckQueue)
      /\ endOfTxAcked_' = (endOfTxAcked_ \/ eot)
      /\ rt' = IF eot THEN rt ELSE RT!acknowledgePacket(rt, sn)
      /\ txPc' = IF eot THEN "exited" ELSE "acks"
      /\ UNCHANGED <<nextSubmit, inputPackets_, endOfTxSeqNum_, txAckPc,
                     dataChannel, ackChannel>>

ackQueueProcessed ==
  /\ txPc = "acks"
  /\ txAckQueue = <<>>
  /\ txPc' = "send"
  /\ UNCHANGED <<nextSubmit, inputPackets_, rt, endOfTxSeqNum_, endOfTxAcked_,
                 txAckQueue, txAckPc, dataChannel, ackChannel>>

transmitThread ==
  \/ \E timedOut \in SUBSET RT!Held(rt) : attemptPacketRetransmission(timedOut)
  \/ attemptNewPacketTransmission
  \/ nothingToTransmit
  \/ processAckQueue
  \/ ackQueueProcessed

(***************************************************************************)
(* ackThread.                                                              *)
(***************************************************************************)
ackThreadLoop ==
  /\ txAckPc = "loop"
  /\ txAckPc' = IF endOfTxAcked_ THEN "exited" ELSE "recv"
  /\ UNCHANGED <<nextSubmit, inputPackets_, txThreadVars, txAckQueue,
                 dataChannel, ackChannel>>

(* The acknowledgement arrives and is queued.  The queue is bounded only   *)
(* while transmitThread is there to empty it.                              *)
receiveAck(sn) ==
  /\ txAckPc = "recv"
  /\ sn \in Arriving(ackChannel)
  /\ ackChannel' \in AfterArrival(ackChannel, sn)
  /\ Len(txAckQueue) < AckQueueBound \/ txPc = "exited"
  /\ txAckQueue' = Append(txAckQueue, sn)
  /\ txAckPc' = "loop"
  /\ UNCHANGED <<nextSubmit, inputPackets_, txThreadVars, dataChannel>>

receiveNoAck(peerGone) ==
  /\ txAckPc = "recv"
  /\ RecvFails(ackChannel, peerGone)
  /\ txAckPc' = "loop"
  /\ UNCHANGED <<nextSubmit, inputPackets_, txThreadVars, txAckQueue,
                 dataChannel, ackChannel>>

TxAckThread(peerGone) ==
  \/ ackThreadLoop
  \/ \E sn \in SequenceNumbers : receiveAck(sn)
  \/ receiveNoAck(peerGone)

(* ~Transmitter returns once both threads have been joined; the data       *)
(* channel's socket is closed after it.                                    *)
TransmitterDone == txPc = "exited" /\ txAckPc = "exited"
==============================================================================
