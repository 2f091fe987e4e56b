------------------------------ MODULE ArqSystem ------------------------------
(***************************************************************************)
(* A transmitter and a receiver over one data channel: the five threads of *)
(* a transmission (the application's two are one action each), their       *)
(* interleavings and the losses, repetitions and reorderings of UDP.       *)
(***************************************************************************)
EXTENDS Transmitter, Receiver

vars == <<txVars, rxVars, dataChannel, ackChannel>>

Init ==
  /\ TransmitterInit
  /\ ReceiverInit
  /\ dataChannel = EmptyChannel
  /\ ackChannel = EmptyChannel

TransmitterStep ==
  /\ \/ sendPacket
     \/ transmitThread
     \/ TxAckThread(ReceiverDone)
  /\ UNCHANGED rxVars

ReceiverStep ==
  /\ \/ resequencingThread(TransmitterDone)
     \/ RxAckThread
     \/ tryGetPacket
  /\ UNCHANGED txVars

(* Both processes have ended and the application has got everything.       *)
Terminated ==
  /\ TransmitterDone /\ ReceiverDone
  /\ outputPackets_ = <<>>
  /\ UNCHANGED vars

Next == TransmitterStep \/ ReceiverStep \/ Terminated

Spec == Init /\ [][Next]_vars

(***************************************************************************)
(* Fairness.  Every thread keeps running.  The network gives no guarantee  *)
(* for a datagram sent once.  Of one that is sent again and again some     *)
(* copy gets through and is received; this is asked for only where it      *)
(* matters, of the packet the transmitter has held longest (its timeout    *)
(* interval elapses after every transmission, and it is the first that     *)
(* tryGetPacketSpan looks at) and of the acknowledgements that release it. *)
(* And a datagram is not repeated for ever: what arrives is, every now and *)
(* then, a last copy.                                                      *)
(***************************************************************************)
ThreadsFair ==
  /\ WF_vars(sendPacket /\ UNCHANGED rxVars)
  /\ WF_vars(transmitThread /\ UNCHANGED rxVars)
  /\ WF_vars(TxAckThread(ReceiverDone) /\ UNCHANGED rxVars)
  /\ WF_vars(resequencingThread(TransmitterDone) /\ UNCHANGED txVars)
  /\ WF_vars(RxAckThread /\ UNCHANGED txVars)
  /\ WF_vars(tryGetPacket /\ UNCHANGED txVars)

FirstHeld(p) == RT!tryGetPacketSpan(rt, RT!Held(rt)) = p

Releasing(sn) == \E p \in Packets : FirstHeld(p) /\ SeqNum(p) <= sn

RetransmissionCarried ==
  \E p \in Packets : /\ FirstHeld(p)
                     /\ attemptPacketRetransmission({p})
                     /\ dataChannel' = Carried(dataChannel, p)
                     /\ UNCHANGED rxVars

AckCarried ==
  /\ rxAckQueue # <<>> /\ Releasing(Head(rxAckQueue))
  /\ sendAck
  /\ ackChannel' = Carried(ackChannel, Head(rxAckQueue))
  /\ UNCHANGED txVars

LastPacketArrives(p) ==
  /\ receivePacket(p)
  /\ dataChannel' = LastArrival(dataChannel, p)
  /\ UNCHANGED txVars

LastAckArrives(sn) ==
  /\ receiveAck(sn)
  /\ ackChannel' = LastArrival(ackChannel, sn)
  /\ UNCHANGED rxVars

NetworkFair ==
  /\ SF_vars(RetransmissionCarried)
  /\ SF_vars(AckCarried)
  /\ SF_vars(\E p \in Packets : FirstHeld(p) /\ LastPacketArrives(p))
  /\ SF_vars(\E sn \in SequenceNumbers : Releasing(sn) /\ LastAckArrives(sn))
  /\ SF_vars(\E p \in Packets : LastPacketArrives(p))
  /\ SF_vars(\E sn \in SequenceNumbers : LastAckArrives(sn))

FairSpec == Spec /\ ThreadsFair /\ NetworkFair
==============================================================================
