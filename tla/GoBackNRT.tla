------------------------------ MODULE GoBackNRT ------------------------------
(***************************************************************************)
(* arq::rt::GoBackN: a sliding window of packets that await an             *)
(* acknowledgement, kept in a circular buffer of WindowSize slots.         *)
(*                                                                         *)
(* Sequence numbers are 16-bit, but the code compares them after promotion *)
(* to int: nextToAck_ + windowSize_ and nextToAck_ + i do not wrap, while  *)
(* the assignment to nextToAck_ does.  packetsInBuffer_ is a size_t and is *)
(* decremented once per sequence number acknowledged, whether or not its   *)
(* slot was occupied.                                                      *)
(***************************************************************************)
EXTENDS ArqCommon, FiniteSets

CONSTANT WindowSize  \* windowSize_ of the retransmission buffer

Slots == 0 .. WindowSize - 1

Buffers == [buffer_          : [Slots -> Packets \cup {None}],
            startIdx_        : Slots,
            nextToAck_       : SequenceNumbers,
            packetsInBuffer_ : 0 .. SizeModulus - 1]

GoBackN == [buffer_          |-> [s \in Slots |-> None],
            startIdx_        |-> 0,
            nextToAck_       |-> 0,
            packetsInBuffer_ |-> 0]

(* The slot i places after the start of the window.                        *)
Slot(rt, i) == (rt.startIdx_ + i) % WindowSize

(* A variant with a bug: ready although the window is full.                *)
do_readyForNewPacket_offByOne(rt) == rt.packetsInBuffer_ <= WindowSize

do_readyForNewPacket(rt) == rt.packetsInBuffer_ < WindowSize

do_packetsPending(rt) == rt.packetsInBuffer_ > 0

(* Offsets of the empty slots; do_addPacket throws ArqProtocolException    *)
(* when there is none and fills the first one otherwise.                   *)
EmptyOffsets(rt) == {i \in Slots : rt.buffer_[Slot(rt, i)] = None}

HasSpace(rt) == EmptyOffsets(rt) # {}

do_addPacket(rt, p) ==
  IF HasSpace(rt)
  THEN [rt EXCEPT !.buffer_[Slot(rt, Least(EmptyOffsets(rt)))] = p,
                  !.packetsInBuffer_ = (@ + 1) % SizeModulus]
  ELSE rt

Held(rt) == {rt.buffer_[s] : s \in Slots} \ {None}

(* The first packet of the window whose timeout interval has elapsed.      *)
do_tryGetPacketSpan(rt, timedOut) ==
  LET due == {i \in Slots : rt.buffer_[Slot(rt, i)] \in timedOut}
  IN  IF do_packetsPending(rt) /\ due # {}
      THEN rt.buffer_[Slot(rt, Least(due))]
      ELSE None

(* A variant with a bug: covers one packet too many.                       *)
AckedOffsets_oneTooMany(rt, sn) == {i \in Slots : rt.nextToAck_ + i <= sn + 1}

(* A variant with a bug: covers one packet too few.                        *)
AckedOffsets_oneTooFew(rt, sn) == {i \in Slots : rt.nextToAck_ + i < sn}

(* An acknowledgement covers every sequence number up to its own.          *)
AckedOffsets(rt, sn) == {i \in Slots : rt.nextToAck_ + i <= sn}

do_acknowledgePacket(rt, sn) ==
  LET acked == AckedOffsets(rt, sn)
      ackedSlots == {Slot(rt, i) : i \in acked}
  IN  IF \/ sn >= rt.nextToAck_ + WindowSize
         \/ ~ do_packetsPending(rt)
         \/ sn < rt.nextToAck_
      THEN rt
      ELSE [buffer_ |-> [s \in Slots |-> IF s \in ackedSlots THEN None
                                                             ELSE rt.buffer_[s]],
            startIdx_        |-> Slot(rt, sn + 1 - rt.nextToAck_),
            nextToAck_       |-> (sn + 1) % SeqNumModulus,
            packetsInBuffer_ |-> (rt.packetsInBuffer_ - Cardinality(acked))
                                   % SizeModulus]
==============================================================================
