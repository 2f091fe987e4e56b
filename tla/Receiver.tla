------------------------------ MODULE Receiver -------------------------------
(***************************************************************************)
(* arq::Receiver: the two threads it starts and the application's calls of *)
(* tryGetPacket.  resequencingThread receives packets, feeds them to the   *)
(* resequencing buffer, queues the acknowledgement and delivers what is in *)
(* sequence to the output buffer; ackThread sends what is queued.          *)
(***************************************************************************)
EXTENDS ArqCommon, Channel

CONSTANT RSWindowSize  \* windowSize_ of the resequencing buffer

ASSUME RSWindowSizeAssumption == RSWindowSize \in 1 .. SizeModulus - 1

VARIABLES
  rs,                   \* resequencingBuffer_
  received,             \* packet being processed by resequencingThread
  endOfTxSn_,
  ackedEndOfTx_,
  rxAckQueue,           \* ackQueue_
  nextSequenceNumber_,  \* of the output buffer
  outputPackets_,       \* queue of the output buffer
  taken,                \* packets the application has got, in that order
  rxPc,                 \* where resequencingThread is
  rxAckPc,              \* where ackThread is
  nextToAck             \* local variable of ackThread

RS == INSTANCE ResequencingBuffer

rxVars == <<rs, received, endOfTxSn_, ackedEndOfTx_, rxAckQueue,
            nextSequenceNumber_, outputPackets_, taken, rxPc, rxAckPc, nextToAck>>

ReceiverTypeOK ==
  /\ rs \in RS!Buffers
  /\ received \in Packets \cup {None}
  /\ endOfTxSn_ \in SequenceNumbers \cup {None}
  /\ ackedEndOfTx_ \in BOOLEAN
  /\ rxAckQueue \in Seq(SequenceNumbers)
  /\ nextSequenceNumber_ \in SequenceNumbers
  /\ outputPackets_ \in Seq(Packets)
  /\ taken \in Seq(Packets)
  /\ rxPc \in {"loop", "recv", "add", "deliver", "exited"}
  /\ rxAckPc \in {"pop", "check", "exited"}
  /\ nextToAck \in SequenceNumbers \cup {None}

ReceiverInit ==
  /\ rs = RS!Empty
  /\ received = None
  /\ endOfTxSn_ = None
  /\ ackedEndOfTx_ = FALSE
  /\ rxAckQueue = <<>>
  /\ nextSequenceNumber_ = 0
  /\ outputPackets_ = <<>>
  /\ taken = <<>>
  /\ rxPc = "loop"
  /\ rxAckPc = "pop"
  /\ nextToAck = None

(***************************************************************************)
(* resequencingThread.                                                     *)
(***************************************************************************)
resequencingLoop ==
  /\ rxPc = "loop"
  /\ rxPc' = IF ackedEndOfTx_ THEN "exited" ELSE "recv"
  /\ UNCHANGED <<rs, received, endOfTxSn_, ackedEndOfTx_, rxAckQueue,
                 nextSequenceNumber_, outputPackets_, taken, rxAckPc, nextToAck,
                 dataChannel, ackChannel>>

(* A packet arrives, and the sequence number of an EoT is recorded.        *)
receivePacket(p) ==
  /\ rxPc = "recv"
  /\ p \in Arriving(dataChannel)
  /\ dataChannel' \in AfterArrival(dataChannel, p)
  /\ received' = p
  /\ endOfTxSn_' = IF isEndOfTx(p) THEN SeqNum(p) ELSE endOfTxSn_
  /\ rxPc' = "add"
  /\ UNCHANGED <<rs, ackedEndOfTx_, rxAckQueue, nextSequenceNumber_,
                 outputPackets_, taken, rxAckPc, nextToAck, ackChannel>>

receiveNoPacket(peerGone) ==
  /\ rxPc = "recv"
  /\ RecvFails(dataChannel, peerGone)
  /\ rxPc' = "deliver"
  /\ UNCHANGED <<rs, received, endOfTxSn_, ackedEndOfTx_, rxAckQueue,
                 nextSequenceNumber_, outputPackets_, taken, rxAckPc, nextToAck,
                 dataChannel, ackChannel>>

(* The packet goes to the resequencing buffer, and any acknowledgement it  *)
(* returns into the queue, bounded only while ackThread empties it.        *)
resequencePacket ==
  LET result == RS!addPacket(rs, received)
  IN  /\ rxPc = "add"
      /\ Len(rxAckQueue) < AckQueueBound \/ rxAckPc = "exited"
      /\ rs' = result.rs
      /\ rxAckQueue' = IF result.ack = None THEN rxAckQueue
                       ELSE Append(rxAckQueue, result.ack)
      /\ received' = None
      /\ rxPc' = "deliver"
      /\ UNCHANGED <<endOfTxSn_, ackedEndOfTx_, nextSequenceNumber_,
                     outputPackets_, taken, rxAckPc, nextToAck,
                     dataChannel, ackChannel>>

(* A variant with a bug: the output buffer takes any packet.               *)
inOutputSequence_any(p) == TRUE

(* OutputBuffer::addPacket rejects a packet that is not the next one.      *)
inOutputSequence(p) == SeqNum(p) = nextSequenceNumber_

(* One round of the delivery loop.                                         *)
deliverPacket ==
  LET result == RS!getNextPacket(rs)
      p      == result.packet
  IN  /\ rxPc = "deliver"
      /\ p # None
      /\ rs' = result.rs
      /\ IF inOutputSequence(p)
         THEN /\ nextSequenceNumber_' = (nextSequenceNumber_ + 1) % SeqNumModulus
              /\ outputPackets_' = Append(outputPackets_, p)
         ELSE UNCHANGED <<nextSequenceNumber_, outputPackets_>>
      /\ UNCHANGED <<received, endOfTxSn_, ackedEndOfTx_, rxAckQueue, taken,
                     rxPc, rxAckPc, nextToAck, dataChannel, ackChannel>>

nothingToDeliver ==
  /\ rxPc = "deliver"
  /\ RS!getNextPacket(rs).packet = None
  /\ rxPc' = "loop"
  /\ UNCHANGED <<rs, received, endOfTxSn_, ackedEndOfTx_, rxAckQueue,
                 nextSequenceNumber_, outputPackets_, taken, rxAckPc, nextToAck,
                 dataChannel, ackChannel>>

resequencingThread(peerGone) ==
  \/ resequencingLoop
  \/ \E p \in Packets : receivePacket(p)
  \/ receiveNoPacket(peerGone)
  \/ resequencePacket
  \/ deliverPacket
  \/ nothingToDeliver

(***************************************************************************)
(* ackThread.  While the queue is empty it polls, which changes nothing.   *)
(***************************************************************************)
sendAck ==
  /\ rxAckPc = "pop"
  /\ rxAckQueue # <<>>
  /\ rxAckQueue' = Tail(rxAckQueue)
  /\ nextToAck' = Head(rxAckQueue)
  /\ ackChannel' \in Sent(ackChannel, Head(rxAckQueue))
  /\ rxAckPc' = "check"
  /\ UNCHANGED <<rs, received, endOfTxSn_, ackedEndOfTx_, nextSequenceNumber_,
                 outputPackets_, taken, rxPc, dataChannel>>

(* A variant with a bug: the thread stops after any acknowledgement sent   *)
(* since the EoT has been received.                                        *)
sentLastAck_any == endOfTxSn_ # None

sentLastAck == nextToAck = endOfTxSn_

(* endOfTxSn_ is read after the acknowledgement has been sent.             *)
checkEndOfTx ==
  /\ rxAckPc = "check"
  /\ ackedEndOfTx_' = sentLastAck
  /\ rxAckPc' = IF sentLastAck THEN "exited" ELSE "pop"
  /\ nextToAck' = None
  /\ UNCHANGED <<rs, received, endOfTxSn_, rxAckQueue, nextSequenceNumber_,
                 outputPackets_, taken, rxPc, dataChannel, ackChannel>>

RxAckThread == sendAck \/ checkEndOfTx

(***************************************************************************)
(* The application.                                                        *)
(***************************************************************************)
(* A variant with a bug: the packet stays in the output buffer.            *)
tryGetPacket_withoutPop ==
  /\ outputPackets_ # <<>>
  /\ taken' = Append(taken, Head(outputPackets_))
  /\ Len(taken) <= NumPackets
  /\ UNCHANGED <<rs, received, endOfTxSn_, ackedEndOfTx_, rxAckQueue, outputPackets_,
                 nextSequenceNumber_, rxPc, rxAckPc, nextToAck,
                 dataChannel, ackChannel>>

tryGetPacket ==
  /\ outputPackets_ # <<>>
  /\ taken' = Append(taken, Head(outputPackets_))
  /\ outputPackets_' = Tail(outputPackets_)
  /\ UNCHANGED <<rs, received, endOfTxSn_, ackedEndOfTx_, rxAckQueue,
                 nextSequenceNumber_, rxPc, rxAckPc, nextToAck,
                 dataChannel, ackChannel>>

ReceiverDone == rxPc = "exited" /\ rxAckPc = "exited"
==============================================================================
