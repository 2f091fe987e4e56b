-------------------------- MODULE TimedTransmitter ---------------------------
(***************************************************************************)
(* The transmitter with what Transmitter leaves open: the clock, the times *)
(* kept with each packet, on which retransmission depends, and the bytes   *)
(* that are sent.  The receiver is any process that acknowledges, in       *)
(* order, packets that have reached it.                                    *)
(***************************************************************************)
EXTENDS Transmitter, DataPacket, ConversationIDAllocator

CONSTANTS
  Timeout,        \* timeoutInterval_
  MaxTime,        \* bound of the model: the clock stops there
  PayloadLength   \* packet_payload_length

ASSUME TimedAssumption == /\ Timeout \in Nat /\ MaxTime \in Nat
                          /\ PayloadLength \in 1 .. MaxPayload
                          /\ Base > 1 /\ IDModulus > 1
                          /\ SeqNumModulus = Base * Base
                          /\ Protocol \in {"stop-and-wait", "go-back-n",
                                          "selective-repeat"}

VARIABLES
  now,      \* ClockType::now()
  objects,  \* the TransmitBufferObject of each packet submitted
  asked,    \* has tryGetPacketSpan returned in this turn of transmitThread?
  span,     \* what it has returned, until that has been sent
  sent,     \* of each packet: its last two transmissions, and how many it had
  wire,     \* the transmission made by the last step, if it made one
  allocator \* of conversation identifiers

turnVars == <<asked, span>>

timedVars == <<txVars, dataChannel, ackChannel, now, objects, turnVars, sent,
               wire, allocator>>

(* The launcher asks a new allocator for the conversation's identifier.    *)
launcherAllocator == getNewID(newAllocator)

conversationID == launcherAllocator.lastAllocated

(* The random payload of a packet, one byte standing for all.              *)
content(p) == [i \in 1 .. PayloadLength |-> (p + 1) % Base]

(* What the launcher submits: a packet of the payload length filled with   *)
(* data, and last an EoT.                                                  *)
newPacket(p) ==
  IF isEndOfTx(p)
  THEN updateDataLength(updateConversationID(newDataPacket, 1), 0)
  ELSE writePayload(
         updateConversationID(updateDataLength(newDataPacket, PayloadLength), 1),
         content(p))

(* InputBuffer::addPacket: both times are the time of submission.          *)
bufferObject(p) ==
  [packet_      |-> updateSequenceNumber(newPacket(p), SeqNum(p)),
   firstTxTime_ |-> now,
   lastTxTime_  |-> now]

isPacketTimedOut(p) == now - objects[p].lastTxTime_ > Timeout

TimedOut == {p \in RT!Held(rt) : isPacketTimedOut(p)}

DuePacket == RT!tryGetPacketSpan(rt, TimedOut)

MaxCopies == 3  \* of a packet sent more often, the count stays at this

transmission(p) ==
  LET copies == IF sent[p].copies < MaxCopies THEN sent[p].copies + 1 ELSE MaxCopies
  IN  /\ sent' = [sent EXCEPT ![p] = [at |-> now, before |-> sent[p].at,
                                     copies |-> copies]]
      /\ wire' = [packet |-> p, copies |-> copies,
                  sinceLast       |-> now - sent[p].at,
                  sinceLastButOne |-> now - sent[p].before,
                  sinceSubmit     |-> now - objects[p].firstTxTime_,
                  bytes |-> objects[p].packet_.data_]

TimedInit ==
  /\ TransmitterInit
  /\ dataChannel = EmptyChannel /\ ackChannel = EmptyChannel
  /\ now = 0
  /\ objects = [p \in Packets |-> None]
  /\ asked = FALSE /\ span = None
  /\ sent = [p \in Packets |-> [at |-> 0, before |-> 0, copies |-> 0]]
  /\ wire = None
  /\ allocator = newAllocator

(* Before the transmission the allocator may be used in any way; what the  *)
(* launcher does is one of them.                                           *)
allocate ==
  /\ nextSubmit = 0
  /\ \/ hasFreeID(allocator) /\ allocator' = getNewID(allocator)
     \/ \E id \in IDs : allocator' \in {registerID(allocator, id),
                                      releaseID(allocator, id)}
  /\ wire' = None
  /\ UNCHANGED <<txVars, dataChannel, ackChannel, now, objects, turnVars, sent>>

submit ==
  /\ allocator = launcherAllocator
  /\ sendPacket
  /\ objects' = [objects EXCEPT ![nextSubmit] = bufferObject(nextSubmit)]
  /\ wire' = None
  /\ UNCHANGED <<now, turnVars, sent, allocator>>

(* A variant with a bug: lastTxTime_ is left as it is.                     *)
updateLastTxTime_never(p) == objects' = objects

updateLastTxTime(p) == objects' = [objects EXCEPT ![p].lastTxTime_ = now]

(* lastTxTime_ is updated when a packet is found to be due.                *)
tryGetPacketSpan ==
  /\ txPc = "send" /\ ~ asked
  /\ asked' = TRUE
  /\ span' = DuePacket
  /\ IF DuePacket = None THEN UNCHANGED objects ELSE updateLastTxTime(DuePacket)
  /\ wire' = None
  /\ UNCHANGED <<txVars, dataChannel, ackChannel, now, sent, allocator>>

(* The turn goes on with what tryGetPacketSpan has returned.               *)
endTurn == asked /\ asked' = FALSE /\ span' = None

(* It is sent some time later: txFn_ looks the peer's address up first.    *)
retransmit ==
  /\ span # None /\ endTurn
  /\ attemptPacketRetransmission({span})
  /\ transmission(span)
  /\ UNCHANGED <<now, objects, allocator>>

transmitNew ==
  /\ span = None /\ endTurn
  /\ attemptNewPacketTransmission
  /\ transmission(Head(inputPackets_))
  /\ UNCHANGED <<now, objects, allocator>>

(* The steps that transmit nothing.                                        *)
quietStep ==
  /\ \/ span = None /\ endTurn /\ nothingToTransmit
     \/ (processAckQueue \/ ackQueueProcessed \/ TxAckThread(FALSE))
          /\ UNCHANGED turnVars
  /\ wire' = None
  /\ UNCHANGED <<now, objects, sent, allocator>>

(* The receiver acknowledges a packet once all up to it have arrived.      *)
acknowledge(sn) ==
  /\ 0 .. sn \subseteq dataChannel
  /\ ackChannel' = ackChannel \cup {sn}
  /\ wire' = None
  /\ UNCHANGED <<txVars, dataChannel, now, objects, turnVars, sent, allocator>>

tick ==
  /\ now < MaxTime
  /\ now' = now + 1
  /\ wire' = None
  /\ UNCHANGED <<txVars, dataChannel, ackChannel, objects, turnVars, sent,
                 allocator>>

TimedNext ==
  \/ allocate \/ submit \/ tryGetPacketSpan \/ retransmit \/ transmitNew
  \/ quietStep \/ tick
  \/ \E sn \in SequenceNumbers : acknowledge(sn)

TimedSpec == TimedInit /\ [][TimedNext]_timedVars

(***************************************************************************)
(* Properties.                                                             *)
(***************************************************************************)
(* A packet is not sent a second time within a timeout interval of its     *)
(* submission, and never three times within one, however long a packet     *)
(* that is due takes to be sent (lastTxTime_ through the input buffer, the *)
(* RT buffer and the loop of tryGetPacketSpan).                            *)
RetransmissionsSpaced ==
  wire # None => /\ wire.copies >= 2 => wire.sinceSubmit > Timeout
                 /\ wire.copies >= 3 => wire.sinceLastButOne > Timeout

(* lastTxTime_ is the "time at which packet was last transmitted", and a   *)
(* packet is sent again when "the timeout interval [has] elapsed since     *)
(* this packet was last transmitted" (isPacketTimedOut): so is a packet    *)
(* that has been sent once.                                                *)
TimeoutSinceFirstTx ==
  wire # None /\ wire.copies = 2 => wire.sinceLast > Timeout

(* Every transmission, however often and after whatever updates, is read   *)
(* by the receiver as the packet submitted: its buffer of MaxUnit bytes    *)
(* starts with the bytes sent, and the rest of it is not initialised.      *)
ReceiverReads ==
  wire # None =>
    LET p      == wire.packet
        buffer == [i \in 1 .. MaxUnit |-> IF i <= Len(wire.bytes) THEN wire.bytes[i]
                                          ELSE Base - 1]
        packet == received(buffer)
    IN  /\ packet.header_ = [id_             |-> conversationID,
                             sequenceNumber_ |-> SeqNum(p),
                             length_ |-> IF isEndOfTx(p) THEN 0 ELSE PayloadLength]
        /\ hasNoPayload(packet) = isEndOfTx(p)
        /\ \A i \in 1 .. packet.header_.length_ : payload(packet)[i] = content(p)[i]

(* However identifiers have been allocated, registered and released, and   *)
(* wherever the counter has wrapped, getNewID gives out one that is not in *)
(* use, if there is one.                                                   *)
NewIDsAreFresh == NextIDIsFresh(allocator)
==============================================================================
