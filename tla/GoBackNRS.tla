------------------------------ MODULE GoBackNRS ------------------------------
(***************************************************************************)
(* arq::rs::GoBackN: only the next packet in sequence is accepted, and     *)
(* whatever else arrives is answered with the last sequence number that    *)
(* was.  Accepted packets wait in a SafeQueue that the resequencing thread *)
(* alone uses.                                                             *)
(***************************************************************************)
EXTENDS ArqCommon

Buffers == [shadowBuffer_       : Seq(Packets),
            nextSequenceNumber_ : SequenceNumbers,
            canSendAcks_        : BOOLEAN]

GoBackN == [shadowBuffer_       |-> <<>>,
            nextSequenceNumber_ |-> 0,
            canSendAcks_        |-> FALSE]

(* nextSequenceNumber_ - 1 is computed in int and cut to 16 bits.          *)
lastAccepted(rs) == (rs.nextSequenceNumber_ - 1) % SeqNumModulus

Accepted(rs, p) ==
  [shadowBuffer_       |-> Append(rs.shadowBuffer_, p),
   nextSequenceNumber_ |-> (rs.nextSequenceNumber_ + 1) % SeqNumModulus,
   canSendAcks_        |-> TRUE]

(* A variant with a bug: acknowledges a packet it rejects.                 *)
do_addPacket_acksRejected(rs, p) ==
  [rs  |-> IF SeqNum(p) = rs.nextSequenceNumber_ THEN Accepted(rs, p) ELSE rs,
   ack |-> SeqNum(p)]

(* A variant with a bug: no answer to a packet it rejects.                 *)
do_addPacket_silent(rs, p) ==
  IF SeqNum(p) = rs.nextSequenceNumber_
  THEN [rs |-> Accepted(rs, p), ack |-> SeqNum(p)]
  ELSE [rs |-> rs, ack |-> None]

do_addPacket(rs, p) ==
  IF SeqNum(p) = rs.nextSequenceNumber_
  THEN [rs |-> Accepted(rs, p), ack |-> SeqNum(p)]
  ELSE [rs  |-> rs,
        ack |-> IF rs.canSendAcks_ THEN lastAccepted(rs) ELSE None]

(* The packets accepted that still wait to be delivered.                  *)
Waiting(rs) == {rs.shadowBuffer_[i] : i \in DOMAIN rs.shadowBuffer_}

do_getNextPacket(rs) ==
  IF rs.shadowBuffer_ = <<>>
  THEN [rs |-> rs, packet |-> None]
  ELSE [rs     |-> [rs EXCEPT !.shadowBuffer_ = Tail(@)],
        packet |-> Head(rs.shadowBuffer_)]
==============================================================================
