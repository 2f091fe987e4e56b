----------------------------- MODULE ArqInvariant -----------------------------
(***************************************************************************)
(* The inductive invariant of the three protocols that run over UDP, which *)
(* makes their safety properties theorems.  It ties together counts of     *)
(* packets that all parts of the system agree on:                          *)
(*                                                                         *)
(*   released <= acknowledged <= accepted                                  *)
(*               delivered    <= accepted <= transmitted <= nextSubmit     *)
(*                                                                         *)
(* The counts do not wrap.  With NumPackets + 1 = SeqNumModulus packets    *)
(* the receiver may take old copies for a second transmission: accepted    *)
(* and delivered go on counting then, and the packet in position k is      *)
(* PacketAt(k).                                                            *)
(***************************************************************************)
EXTENDS ArqProperties

ASSUME UDPAssumption ==
  Protocol \in {"stop-and-wait", "go-back-n", "selective-repeat"}

(* At most 65535 data packets; with selective repeat, few enough that the  *)
(* number 2^16 - 1 is never in the transmitter's window: the receiver      *)
(* sends it before it has packet 0.                                        *)
ASSUME RolloverAssumption ==
  /\ NumPackets + 1 <= SeqNumModulus
  /\ Protocol = "selective-repeat" => NumPackets + WindowSize < SeqNumModulus

StopAndWait == Protocol = "stop-and-wait"
GoBackN == Protocol = "go-back-n"
SelectiveRepeat == Protocol = "selective-repeat"

(* Does the receiver count as if the transmission started again?           *)
RollsOver == NumPackets + 1 = SeqNumModulus

PacketAt(k) == k % (NumPackets + 1)

(* The packets in the positions i, i + 1, ..., j - 1 in a queue.           *)
IsRun(q, i, j) == /\ Len(q) = j - i
                  /\ \A n \in 1 .. Len(q) : q[n] = PacketAt(i + n - 1)

(***************************************************************************)
(* The counts.                                                             *)
(***************************************************************************)
transmitted == nextSubmit - Len(inputPackets_)

released == transmitted - Cardinality(RT!Held(rt))

delivered == Len(Delivered)

(* What selective repeat forwards again has been accepted before.          *)
accepted == IF SelectiveRepeat THEN Cardinality(Accepted)
            ELSE delivered + Cardinality(RS!Waiting(rs))

(* Selective repeat acknowledges what its window has moved past.           *)
acknowledged == IF SelectiveRepeat THEN rs.earliestExpected_ ELSE accepted

(***************************************************************************)
(* What the buffers hold.                                                  *)
(***************************************************************************)
(* The RT buffer r holds the packets i, i + 1, ..., j - 1.                 *)
WindowHolds(r, i, j) ==
  /\ r.nextToAck_ = i /\ r.packetsInBuffer_ = j - i
  /\ j - i \in 0 .. WindowSize
  /\ \A k \in 0 .. WindowSize - 1 :
       r.buffer_[(r.startIdx_ + k) % WindowSize] = IF k < j - i THEN i + k ELSE None

RTHolds(r, i, j) ==
  /\ r \in RT!Buffers
  /\ StopAndWait =>
       \/ i = j /\ r.retransmitPacket_ = None
       \/ i = j - 1 /\ r.retransmitPacket_ = i
  /\ ~ StopAndWait => WindowHolds(r, i, j)

(* The RS buffer r after n packets have been delivered and a accepted.     *)
StopAndWaitHolds(r, n, a) ==
  /\ r.expectedPacketSeqNum_ = n % SeqNumModulus
  /\ \/ a = n /\ r.packetForDelivery_ = None
     \/ a = n + 1 /\ r.packetForDelivery_ = PacketAt(n)

GoBackNHolds(r, n, a) ==
  /\ r.nextSequenceNumber_ = a % SeqNumModulus
  /\ r.canSendAcks_ => a > 0
  /\ \/ a = n /\ r.shadowBuffer_ = <<>>
     \/ a = n + 1 /\ r.shadowBuffer_ = <<PacketAt(n)>>

(* Packets before t are where they belong; the shadow buffer may start     *)
(* with packets that have been delivered before.                           *)
SelectiveRepeatHolds(r, n, a, t) ==
  /\ r.earliestExpected_ <= a
  /\ \A i \in 0 .. RSWindowSize - 1 :
       LET p == r.buffer_[(r.startIdx_ + i) % RSWindowSize]
       IN  p # None => p = r.earliestExpected_ + i /\ p < t
  /\ \E k \in 0 .. n :
       LET end == k + Len(r.shadowBuffer_)
       IN  /\ IsRun(r.shadowBuffer_, k, end)
           /\ a = IF end > n THEN end ELSE n

RSHolds(r, n, a, t) ==
  /\ r \in RS!Buffers
  /\ StopAndWait => StopAndWaitHolds(r, n, a)
  /\ GoBackN => GoBackNHolds(r, n, a)
  /\ SelectiveRepeat => SelectiveRepeatHolds(r, n, a, t)

BuffersHold ==
  /\ RTHolds(rt, released, transmitted)
  /\ RSHolds(rs, delivered, accepted, transmitted)

(***************************************************************************)
(* The invariant.                                                          *)
(***************************************************************************)
Counts ==
  /\ released <= acknowledged
  /\ acknowledged <= accepted
  /\ \/ accepted <= transmitted
     \/ RollsOver /\ transmitted = NumPackets + 1
  /\ WindowSize < RSWindowSize => acknowledged = accepted

(* The input buffer holds what has been submitted and not transmitted, the *)
(* receiving application and the output buffer what has been delivered.    *)
Queues ==
  /\ IsRun(inputPackets_, transmitted, nextSubmit)
  /\ IsRun(taken, 0, Len(taken))
  /\ IsRun(outputPackets_, Len(taken), delivered)
  /\ nextSequenceNumber_ = delivered % SeqNumModulus

(* Selective repeat also acknowledges packet -1.                           *)
AckHolds(sn) ==
  \/ sn < acknowledged
  \/ SelectiveRepeat /\ sn = SeqNumModulus - 1

(* Only transmitted packets arrive, and only what may be acknowledged is.  *)
InFlight ==
  /\ \A p \in dataChannel : p < transmitted
  /\ received # None => received < transmitted
  /\ \A sn \in ackChannel : AckHolds(sn)
  /\ \A i \in DOMAIN rxAckQueue : AckHolds(rxAckQueue[i])
  /\ \A i \in DOMAIN txAckQueue : AckHolds(txAckQueue[i])
  /\ nextToAck # None => AckHolds(nextToAck)

(* What the threads know of the EoT, and where they are.                   *)
EndOfTx ==
  /\ endOfTxSeqNum_ = IF transmitted = NumPackets + 1 THEN NumPackets ELSE None
  /\ endOfTxAcked_ => accepted > NumPackets
  /\ endOfTxSn_ \in {None, NumPackets}
  /\ ackedEndOfTx_ => accepted > NumPackets /\ rxAckPc = "exited"
  /\ (received = None) = (rxPc # "add")
  /\ (nextToAck = None) = (rxAckPc # "check")
  /\ RS!Waiting(rs) # {} => rxPc = "deliver"
  /\ rxPc = "exited" => ackedEndOfTx_
  /\ NoProtocolException

IInv == TypeOK /\ BuffersHold /\ Counts /\ Queues /\ InFlight /\ EndOfTx
==============================================================================
