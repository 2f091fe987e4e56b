----------------------------- MODULE DummySCTPRS -----------------------------
(***************************************************************************)
(* arq::rs::DummySCTP: SCTP delivers in order, so the buffer only passes   *)
(* packets on.  The trimming of the stream to the length of a packet is    *)
(* not modelled: what arrives is one whole packet.                         *)
(***************************************************************************)
EXTENDS ArqCommon

Buffers == [shadowBuffer_       : Seq(Packets),
            nextSequenceNumber_ : SequenceNumbers]

DummySCTP == [shadowBuffer_       |-> <<>>,
              nextSequenceNumber_ |-> 0]

(* A variant with a bug: acknowledges the packet it expects next.          *)
do_addPacket_acksNext(rs, p) ==
  [rs  |-> [shadowBuffer_       |-> Append(rs.shadowBuffer_, p),
            nextSequenceNumber_ |-> (rs.nextSequenceNumber_ + 1) % SeqNumModulus],
   ack |-> (SeqNum(p) + 1) % SeqNumModulus]

(* A variant with a bug: the sequence number expected is not incremented.  *)
do_addPacket_stuck(rs, p) ==
  IF SeqNum(p) = rs.nextSequenceNumber_
  THEN [rs |-> [rs EXCEPT !.shadowBuffer_ = Append(@, p)], ack |-> SeqNum(p)]
  ELSE [rs |-> rs, ack |-> None]

do_addPacket(rs, p) ==
  IF SeqNum(p) = rs.nextSequenceNumber_
  THEN [rs  |-> [shadowBuffer_       |-> Append(rs.shadowBuffer_, p),
                 nextSequenceNumber_ |->
                   (rs.nextSequenceNumber_ + 1) % SeqNumModulus],
        ack |-> SeqNum(p)]
  ELSE [rs |-> rs, ack |-> None]

(* The packets accepted that still wait to be delivered.                  *)
Waiting(rs) == {rs.shadowBuffer_[i] : i \in DOMAIN rs.shadowBuffer_}

do_getNextPacket(rs) ==
  IF rs.shadowBuffer_ = <<>>
  THEN [rs |-> rs, packet |-> None]
  ELSE [rs     |-> [rs EXCEPT !.shadowBuffer_ = Tail(@)],
        packet |-> Head(rs.shadowBuffer_)]
==============================================================================
