---------------------------- MODULE StopAndWaitRT ----------------------------
(***************************************************************************)
(* arq::rt::StopAndWait: at most one packet awaits its acknowledgement.    *)
(* A buffer is the record of its members; an operation that changes the    *)
(* buffer returns the new record.                                          *)
(***************************************************************************)
EXTENDS ArqCommon

Buffers == [retransmitPacket_ : Packets \cup {None}]

StopAndWait == [retransmitPacket_ |-> None]

(* A variant with a bug: always ready.                                     *)
do_readyForNewPacket_always(rt) == TRUE

do_readyForNewPacket(rt) == rt.retransmitPacket_ = None

(* do_addPacket throws ArqProtocolException when this is false.            *)
HasSpace(rt) == rt.retransmitPacket_ = None

do_addPacket(rt, p) ==
  IF HasSpace(rt) THEN [rt EXCEPT !.retransmitPacket_ = p] ELSE rt

(* The packets held, the candidates for a retransmission.                  *)
Held(rt) == {rt.retransmitPacket_} \ {None}

(* timedOut is the set of held packets whose timeout interval has elapsed. *)
do_tryGetPacketSpan(rt, timedOut) ==
  IF rt.retransmitPacket_ \in timedOut THEN rt.retransmitPacket_ ELSE None

(* A variant with a bug: any acknowledgement releases the packet.          *)
do_acknowledgePacket_anySeqNum(rt, sn) == [rt EXCEPT !.retransmitPacket_ = None]

do_acknowledgePacket(rt, sn) ==
  IF rt.retransmitPacket_ # None /\ sn = SeqNum(rt.retransmitPacket_)
  THEN [rt EXCEPT !.retransmitPacket_ = None]
  ELSE rt
==============================================================================
