---------------------------- MODULE ArqProperties ----------------------------
(***************************************************************************)
(* What makes a transmission correct.                                      *)
(***************************************************************************)
EXTENDS ArqSystem, FiniteSets

(* The sequence of the first n packets.                                    *)
FirstPackets(n) == [i \in 1 .. n |-> i - 1]

(* Delivered to the application's side of the receiver, in that order.     *)
Delivered == taken \o outputPackets_

Elements(s) == {s[i] : i \in DOMAIN s}

(* The packets the receiver has in sequence: no packet of them needs to be *)
(* transmitted again.                                                      *)
Accepted == Elements(Delivered) \cup RS!Waiting(rs)

(* Acknowledgements queued or under way.                                   *)
AcksInFlight == Elements(rxAckQueue) \cup Elements(txAckQueue)
                  \cup (IF UsesSCTP THEN Elements(ackChannel) ELSE ackChannel)

(* Every variable keeps its type: counters stay in their width, indices in *)
(* their buffers.                                                          *)
TypeOK ==
  /\ TransmitterTypeOK
  /\ ReceiverTypeOK
  /\ IF UsesSCTP THEN /\ dataChannel \in Seq(Packets)
                      /\ ackChannel \in Seq(SequenceNumbers)
                 ELSE /\ dataChannel \subseteq Packets
                      /\ ackChannel \subseteq SequenceNumbers

(* The application gets the packets in the order they were submitted, each *)
(* once, whatever the network repeats or reorders and however often a      *)
(* packet is sent again (OutputBuffer::addPacket and the RS buffers).      *)
InOrderExactlyOnce == Delivered = FirstPackets(Len(Delivered))

(* With 2^16 - 1 data packets the EoT has the last sequence number, the    *)
(* receiver's counters come back to 0 when it is accepted, and copies of   *)
(* packet 0 are taken for new ones.  Even then what the application gets   *)
(* is the transmission from its first packet to its last, before it starts *)
(* again (the comparisons with nextSequenceNumber_).                       *)
WholeTransmissionInOrder ==
  \A i \in DOMAIN Delivered : Delivered[i] = (i - 1) % (NumPackets + 1)

(* The transmitter takes the transmission to be complete only if the       *)
(* receiver has accepted every packet (the comparison with endOfTxSeqNum_  *)
(* in processAckQueue).                                                    *)
CompletionSound == endOfTxAcked_ => Packets \subseteq Accepted

(* No packet is dropped from the transmitter before the receiver has it:   *)
(* it waits for its first transmission, or for its acknowledgement, or has *)
(* been accepted (acknowledgePacket of the RT buffers).                    *)
NothingForgotten ==
  0 .. nextSubmit - 1 \subseteq
    Elements(inputPackets_) \cup RT!Held(rt) \cup Accepted

(* An acknowledgement tells the truth, however late it is read: the        *)
(* receiver has accepted the packet of that sequence number and every one  *)
(* before it (do_addPacket of the RS buffers).                             *)
AcksAreTrue == \A sn \in AcksInFlight : 0 .. sn \subseteq Accepted

(* Selective repeat may also acknowledge packet -1, when the first packet  *)
(* to arrive is not packet 0: earliestExpected_ - 1 is 2^16 - 1 then.  No  *)
(* other acknowledgement is untrue (do_addPacket).                         *)
AcksAreTrueOrVoid ==
  \A sn \in AcksInFlight : sn = SeqNumModulus - 1 \/ 0 .. sn \subseteq Accepted

(* resequencingThread does not stop before the last packet is in the       *)
(* output buffer, although it is ackThread that tells it to stop.          *)
ReceiverStopsComplete == rxPc = "exited" => Elements(Delivered) = Packets

(* The window of the transmitter holds consecutive packets, from the next  *)
(* one to be acknowledged on, and packetsInBuffer_ counts them: the        *)
(* circular index, the sequence number and the counter agree               *)
(* (do_addPacket and do_acknowledgePacket of the GBN and SR RT buffers).   *)
WindowConsistent ==
  LET held(i) == rt.buffer_[(rt.startIdx_ + i) % WindowSize]
  IN  \A i \in 0 .. WindowSize - 1 :
        held(i) = IF i < rt.packetsInBuffer_ THEN rt.nextToAck_ + i ELSE None

(* addPacket never finds the RT buffer full: transmitThread would end with *)
(* an ArqProtocolException and, with it, the program.                      *)
NoProtocolException == txPc # "terminated"

(* A packet under way is less than a transmitter window ahead of the one   *)
(* that the receiver waits for, however late its acknowledgements are: the *)
(* range check of do_addPacket turns no packet away that is new as long as *)
(* its window is at least the transmitter's.                               *)
ArrivalsFitWindow ==
  \A p \in dataChannel : p < rs.earliestExpected_ + WindowSize

(* The window of the SR receiver starts right after the packets that are   *)
(* in sequence: earliestExpected_ is "the SN corresponding to the earliest *)
(* packet in the RS buffer", and updateBuffer "updates RS buffer tracking  *)
(* information" as it forwards packets.                                    *)
WindowFollowsDelivery == rs.earliestExpected_ = SeqNum(Cardinality(Accepted))

(* The system implements the reliable transfer it promises.                *)
Promise == INSTANCE ReliableTransfer
             WITH submitted <- nextSubmit,
                  accepted  <- Cardinality(Accepted),
                  delivered <- taken,
                  completed <- endOfTxAcked_
ReliablyTransfers == Promise!Spec

(* Every packet reaches the application, although packets and their        *)
(* acknowledgements are lost (retransmission, and the RS buffers answering *)
(* a packet they have already accepted).                                   *)
EventuallyDelivered == <>(taken = FirstPackets(NumPackets + 1))

(* The receiver's threads end (receiver.hpp: ackThread "exits once the     *)
(* last ACK has been sent").                                               *)
ReceiverStops == <>ReceiverDone

(* "The acknowledgement thread ... runs until an ACK is received for an    *)
(* EoT packet": both threads of the transmitter end.                       *)
TransmitterStops == <>TransmitterDone
==============================================================================
