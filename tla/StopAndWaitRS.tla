---------------------------- MODULE StopAndWaitRS ----------------------------
(***************************************************************************)
(* arq::rs::StopAndWait: the receiver tracks one packet at a time.  A      *)
(* buffer is the record of its members; do_addPacket returns the new       *)
(* buffer with the acknowledgement to send, do_getNextPacket the new       *)
(* buffer with the packet to deliver, None standing for std::nullopt.      *)
(***************************************************************************)
EXTENDS ArqCommon

Buffers == [expectedPacketSeqNum_ : SequenceNumbers,
            packetForDelivery_    : Packets \cup {None}]

StopAndWait == [expectedPacketSeqNum_ |-> 0,
                packetForDelivery_    |-> None]

(* A variant with a bug: acknowledges the packet it expects.               *)
do_addPacket_acksExpected(rs, p) ==
  LET expected == SeqNum(p) = rs.expectedPacketSeqNum_
  IN  [rs  |-> IF expected THEN [rs EXCEPT !.packetForDelivery_ = p] ELSE rs,
       ack |-> rs.expectedPacketSeqNum_]

(* A variant with a bug: no answer to a packet received before.            *)
do_addPacket_silent(rs, p) ==
  LET expected == SeqNum(p) = rs.expectedPacketSeqNum_
  IN  [rs  |-> IF expected THEN [rs EXCEPT !.packetForDelivery_ = p] ELSE rs,
       ack |-> IF expected THEN SeqNum(p) ELSE None]

(* The expected packet is kept; it and every earlier one are acknowledged, *)
(* unless a packet still waits to be delivered.                            *)
do_addPacket(rs, p) ==
  LET free     == rs.packetForDelivery_ = None
      expected == SeqNum(p) = rs.expectedPacketSeqNum_
      earlier  == SeqNum(p) < rs.expectedPacketSeqNum_
  IN  [rs  |-> IF free /\ expected
               THEN [rs EXCEPT !.packetForDelivery_ = p] ELSE rs,
       ack |-> IF free /\ (expected \/ earlier) THEN SeqNum(p) ELSE None]

(* The packets accepted that still wait to be delivered.                  *)
Waiting(rs) == {rs.packetForDelivery_} \ {None}

do_getNextPacket(rs) ==
  IF rs.packetForDelivery_ = None
  THEN [rs |-> rs, packet |-> None]
  ELSE [rs     |-> [packetForDelivery_    |-> None,
                    expectedPacketSeqNum_ |->
                      (rs.expectedPacketSeqNum_ + 1) % SeqNumModulus],
        packet |-> rs.packetForDelivery_]
==============================================================================
