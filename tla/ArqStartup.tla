------------------------------ MODULE ArqStartup -------------------------------
(***************************************************************************)
(* The construction of a transmitter and of a receiver.  Members are       *)
(* initialised in the order of their declaration, and both classes declare *)
(* their two threads before members the threads use: a thread runs while   *)
(* the constructor still has to initialise the queue of acknowledgements,  *)
(* the flag that ends the threads and the record of the EoT.               *)
(*                                                                         *)
(* Both objects are local variables, so a flag or a record read too early  *)
(* has any value.  An operation on a queue that is not initialised either  *)
(* ends the program or works on memory that the initialisation empties.    *)
(***************************************************************************)
EXTENDS ArqProperties

VARIABLES
  txMade,  \* how many members of TxMembers are initialised
  rxMade   \* how many members of RxMembers are initialised

startVars == <<vars, txMade, rxMade>>

(* What is initialised after both threads have been started.               *)
TxMembers == <<"ackQueue_", "endOfTxSeqNum_", "endOfTxAcked_">>
RxMembers == <<"ackQueue_", "ackedEndOfTx_", "endOfTxSn_">>

txHas(member) == \E i \in 1 .. txMade : TxMembers[i] = member
rxHas(member) == \E i \in 1 .. rxMade : RxMembers[i] = member

TxConstructed == txMade = Len(TxMembers)
RxConstructed == rxMade = Len(RxMembers)

(* The first step of a thread may be as late as it likes, so the threads   *)
(* are taken to run already.  endOfTxSeqNum_ is not read before the        *)
(* constructor has returned; endOfTxSn_ = None stands for any value as     *)
(* long as it is not initialised (see endOfTxRead).                        *)
StartInit ==
  /\ endOfTxAcked_ \in BOOLEAN
  /\ ackedEndOfTx_ \in BOOLEAN
  /\ endOfTxSeqNum_ = None /\ endOfTxSn_ = None
  /\ txMade = 0 /\ rxMade = 0
  /\ nextSubmit = 0 /\ inputPackets_ = <<>> /\ rt = RT!Empty
  /\ txAckQueue = <<>> /\ txPc = "send" /\ txAckPc = "loop"
  /\ rs = RS!Empty /\ received = None /\ rxAckQueue = <<>>
  /\ nextSequenceNumber_ = 0 /\ outputPackets_ = <<>> /\ taken = <<>>
  /\ rxPc = "loop" /\ rxAckPc = "pop" /\ nextToAck = None
  /\ dataChannel = EmptyChannel /\ ackChannel = EmptyChannel

Crashed == "terminated" \in {txPc, rxPc}

(* A thread has ended though its flag is not set, or the flag of a         *)
(* complete receiver is set too early, or the program has crashed.         *)
(* Nothing is promised of what follows, and the model stops there.         *)
Misfired ==
  \/ Crashed
  \/ "exited" \in {txPc, txAckPc} /\ ~ endOfTxAcked_
  \/ "exited" \in {rxPc, rxAckPc} /\ ~ ackedEndOfTx_
  \/ RxConstructed /\ ackedEndOfTx_ /\ ~ (Packets \subseteq Accepted)

(***************************************************************************)
(* The constructors.  The next member is initialised, whatever a thread    *)
(* has stored there.                                                       *)
(***************************************************************************)
constructTransmitter ==
  /\ ~ Misfired /\ ~ TxConstructed
  /\ txMade' = txMade + 1
  /\ LET initialised(member) == TxMembers[txMade + 1] = member
     IN  /\ txAckQueue' = IF initialised("ackQueue_") THEN <<>> ELSE txAckQueue
         /\ endOfTxSeqNum_' =
              IF initialised("endOfTxSeqNum_") THEN None ELSE endOfTxSeqNum_
         /\ endOfTxAcked_' = (endOfTxAcked_ /\ ~ initialised("endOfTxAcked_"))
  /\ UNCHANGED <<nextSubmit, inputPackets_, rt, txPc, txAckPc, rxVars, rxMade,
                 dataChannel, ackChannel>>

constructReceiver ==
  /\ ~ Misfired /\ ~ RxConstructed
  /\ rxMade' = rxMade + 1
  /\ LET initialised(member) == RxMembers[rxMade + 1] = member
     IN  /\ rxAckQueue' = IF initialised("ackQueue_") THEN <<>> ELSE rxAckQueue
         /\ ackedEndOfTx_' = (ackedEndOfTx_ /\ ~ initialised("ackedEndOfTx_"))
         /\ endOfTxSn_' = IF initialised("endOfTxSn_") THEN None ELSE endOfTxSn_
  /\ UNCHANGED <<rs, received, nextSequenceNumber_, outputPackets_, taken, rxPc,
                 rxAckPc, nextToAck, txVars, txMade, dataChannel, ackChannel>>

(***************************************************************************)
(* The transmitter's side.  The application submits packets only to a      *)
(* complete transmitter.  transmitThread tests endOfTxAcked_ before each   *)
(* round and before it looks into the queue of acknowledgements.           *)
(***************************************************************************)
submitPacket ==
  /\ ~ Misfired /\ TxConstructed /\ sendPacket
  /\ UNCHANGED <<rxVars, txMade, rxMade>>

startedTransmitThread ==
  /\ ~ Misfired /\ ~ endOfTxAcked_ /\ transmitThread
  /\ UNCHANGED <<rxVars, txMade, rxMade>>

(* The flag is set, or has that value before it is initialised.            *)
endTransmitThread ==
  /\ ~ Misfired /\ endOfTxAcked_ /\ txPc \in {"send", "acks"}
  /\ txPc' = "exited"
  /\ UNCHANGED <<nextSubmit, inputPackets_, rt, endOfTxSeqNum_, endOfTxAcked_,
                 txAckQueue, txAckPc, dataChannel, ackChannel, rxVars, txMade, rxMade>>

(* A pop from the queue before it is initialised.                          *)
crashTransmitThread ==
  /\ ~ Misfired /\ ~ txHas("ackQueue_") /\ txPc = "acks" /\ ~ endOfTxAcked_
  /\ txPc' = "terminated"
  /\ UNCHANGED <<nextSubmit, inputPackets_, rt, endOfTxSeqNum_, endOfTxAcked_,
                 txAckQueue, txAckPc, dataChannel, ackChannel, rxVars, txMade, rxMade>>

TransmitThread == startedTransmitThread \/ endTransmitThread \/ crashTransmitThread

(* The queue of a transmitter whose transmitThread has ended too early is  *)
(* bounded here.                                                           *)
startedTxAckThread ==
  /\ ~ Misfired /\ TxAckThread(ReceiverDone)
  /\ Len(txAckQueue') <= AckQueueBound + 1
  /\ UNCHANGED <<rxVars, txMade, rxMade>>

(***************************************************************************)
(* The receiver's side.                                                    *)
(***************************************************************************)
startedResequencingThread ==
  /\ ~ Misfired /\ resequencingThread(TransmitterDone)
  /\ Len(rxAckQueue') <= AckQueueBound + 1
  /\ UNCHANGED <<txVars, txMade, rxMade>>

(* A push to the queue, or a pop from it, before it is initialised.        *)
crashReceiver ==
  /\ ~ Misfired /\ ~ rxHas("ackQueue_")
  /\ \/ rxPc = "add" /\ RS!addPacket(rs, received).ack # None
     \/ rxAckPc = "pop" /\ ~ ackedEndOfTx_
  /\ rxPc' = "terminated"
  /\ UNCHANGED <<rs, received, endOfTxSn_, ackedEndOfTx_, rxAckQueue,
                 nextSequenceNumber_, outputPackets_, taken, rxAckPc, nextToAck,
                 dataChannel, ackChannel, txVars, txMade, rxMade>>

startedSendAck ==
  /\ ~ Misfired /\ ~ ackedEndOfTx_ /\ sendAck
  /\ UNCHANGED <<txVars, txMade, rxMade>>

(* What the comparison with endOfTxSn_ may say: anything while neither the *)
(* constructor nor resequencingThread has stored a value there.            *)
endOfTxRead ==
  IF rxHas("endOfTxSn_") \/ endOfTxSn_ # None THEN {sentLastAck} ELSE BOOLEAN

(* The loop is left at its next test of ackedEndOfTx_: the constructor may *)
(* clear the flag in between.                                              *)
startedCheckEndOfTx ==
  /\ ~ Misfired /\ rxAckPc = "check"
  /\ \E last \in endOfTxRead : ackedEndOfTx_' = (ackedEndOfTx_ \/ last)
  /\ rxAckPc' = "pop"
  /\ nextToAck' = None
  /\ UNCHANGED <<rs, received, endOfTxSn_, rxAckQueue, nextSequenceNumber_,
                 outputPackets_, taken, rxPc, dataChannel, ackChannel,
                 txVars, txMade, rxMade>>

endRxAckThread ==
  /\ ~ Misfired /\ rxAckPc = "pop" /\ ackedEndOfTx_
  /\ rxAckPc' = "exited"
  /\ UNCHANGED <<rs, received, endOfTxSn_, ackedEndOfTx_, rxAckQueue,
                 nextSequenceNumber_, outputPackets_, taken, rxPc, nextToAck,
                 dataChannel, ackChannel, txVars, txMade, rxMade>>

StartedRxAckThread == startedSendAck \/ startedCheckEndOfTx \/ endRxAckThread

takePacket ==
  /\ ~ Misfired /\ RxConstructed /\ tryGetPacket
  /\ UNCHANGED <<txVars, txMade, rxMade>>

StartNext ==
  \/ constructTransmitter \/ submitPacket \/ TransmitThread \/ startedTxAckThread
  \/ constructReceiver \/ startedResequencingThread \/ crashReceiver
  \/ StartedRxAckThread \/ takePacket

StartSpec == StartInit /\ [][StartNext]_startVars

(***************************************************************************)
(* Fairness: every thread and both constructors keep running.              *)
(***************************************************************************)
StartThreadsFair ==
  /\ WF_startVars(constructTransmitter)
  /\ WF_startVars(constructReceiver)
  /\ WF_startVars(submitPacket)
  /\ WF_startVars(TransmitThread)
  /\ WF_startVars(startedTxAckThread)
  /\ WF_startVars(startedResequencingThread)
  /\ WF_startVars(StartedRxAckThread)
  /\ WF_startVars(takePacket)

(* The network's is weaker than in ArqSystem: with a window of one packet  *)
(* any last copy will do.                                                  *)
StartNetworkFair ==
  /\ SF_startVars(startedTransmitThread /\ RetransmissionCarried)
  /\ SF_startVars(startedSendAck /\ AckCarried)
  /\ SF_startVars(\E p \in Packets :
                    startedResequencingThread /\ LastPacketArrives(p))
  /\ SF_startVars(\E sn \in SequenceNumbers :
                    startedTxAckThread /\ LastAckArrives(sn))

FairStartSpec == StartSpec /\ StartThreadsFair /\ StartNetworkFair

(***************************************************************************)
(* Properties.                                                             *)
(***************************************************************************)
(* What goes wrong goes wrong during the construction: once both objects   *)
(* are complete no thread ends before its time, whatever it has read or    *)
(* stored before (the initialisations of the two constructors).            *)
OnlyStartUpMisfires ==
  [][TxConstructed /\ RxConstructed /\ ~ Misfired => ~ Misfired']_startVars

(* A start-up that does not misfire costs nothing: acknowledgements lost   *)
(* when ackQueue_ is initialised are sent again, everything is delivered.  *)
DeliversUnlessMisfired ==
  <>(Misfired \/ taken = FirstPackets(NumPackets + 1))

(* The record of the EoT is the one loss that nothing makes good: once a   *)
(* complete receiver has it, its threads end.                              *)
StopsAfterEndOfTx ==
  (RxConstructed /\ endOfTxSn_ # None) ~> (ReceiverDone \/ Misfired)
==============================================================================
