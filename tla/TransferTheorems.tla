-------------------------- MODULE TransferTheorems ---------------------------
(***************************************************************************)
(* What the inductive invariant implies, with each of the three protocols  *)
(* over UDP: the safety properties of a transmission, and that the system  *)
(* implements the reliable transfer.                                       *)
(***************************************************************************)
EXTENDS InvariantProofs

(***************************************************************************)
(* What the receiver has.                                                  *)
(***************************************************************************)
(* What has been delivered are the packets in the first positions.         *)
LEMMA DeliveredRun ==
  ASSUME IInv
  PROVE  /\ Delivered \in Seq(Packets) /\ Len(Delivered) = delivered
         /\ IsRun(Delivered, 0, delivered)
         /\ Elements(Delivered) = {PacketAt(k) : k \in 0 .. delivered - 1}
<1>1. /\ taken \in Seq(Packets) /\ outputPackets_ \in Seq(Packets)
      /\ Len(taken) \in Int /\ delivered \in Int /\ 0 \in Int
      /\ IsRun(taken, 0, Len(taken))
      /\ IsRun(outputPackets_, Len(taken), delivered)
  <2>1. taken \in Seq(Packets) /\ outputPackets_ \in Seq(Packets)
    BY DEF IInv, TypeOK, ReceiverTypeOK
  <2> QED
    BY <2>1, Numbers, ReceiverNow
<1>2. Delivered \in Seq(Packets) /\ IsRun(Delivered, 0, delivered)
  BY <1>1, RunConcat DEF Delivered
<1> QED
  BY <1>1, <1>2, RunPackets DEF delivered

(* What has been accepted are the packets in the first positions.          *)
LEMMA AcceptedRun ==
  ASSUME IInv
  PROVE  /\ Accepted = {PacketAt(k) : k \in 0 .. accepted - 1}
         /\ SelectiveRepeat => Cardinality(Accepted) = accepted
<1>1. /\ Delivered \in Seq(Packets) /\ IsRun(Delivered, 0, delivered)
      /\ delivered \in Nat /\ accepted \in Nat
      /\ RSHolds(rs, delivered, accepted, transmitted)
      /\ SelectiveRepeat => accepted <= NumPackets + 1
  BY DeliveredRun, Numbers
<1>2. Elements(Delivered) \cup RS!Waiting(rs) = {PacketAt(k) : k \in 0 .. accepted - 1}
  BY <1>1, ReceiverCounts
<1> QED
  BY <1>2 DEF Accepted, accepted

(* A packet in a position before the count of those accepted is accepted.  *)
LEMMA AcceptedHas ==
  ASSUME IInv, NEW p \in Packets, p < accepted
  PROVE  p \in Accepted
<1>1. p \in Nat /\ p <= NumPackets /\ accepted \in Nat
  BY Numbers, ConstantTypes DEF Packets
<1>2. p \in 0 .. accepted - 1 /\ PacketAt(p) = p
  BY <1>1, PacketAtIs
<1>3. p \in {PacketAt(k) : k \in 0 .. accepted - 1}
  BY <1>2
<1> QED
  BY <1>3, AcceptedRun

(* With at most 65534 data packets positions are packets, and the counts   *)
(* stay below the number of packets submitted.                             *)
LEMMA WithoutRollOver ==
  ASSUME IInv, NumPackets + 1 < SeqNumModulus
  PROVE  /\ Accepted = 0 .. accepted - 1 /\ Cardinality(Accepted) = accepted
         /\ delivered \in Nat /\ delivered <= accepted
         /\ accepted \in Nat /\ accepted <= nextSubmit
         /\ nextSubmit \in Nat /\ nextSubmit <= NumPackets + 1
<1>1. /\ delivered \in Nat /\ delivered <= accepted
      /\ accepted \in Nat /\ accepted <= nextSubmit
      /\ nextSubmit \in Nat /\ nextSubmit <= NumPackets + 1
  BY Numbers, ConstantTypes DEF RollsOver
<1>2. \A k \in 0 .. accepted - 1 : PacketAt(k) = k
  BY <1>1, PacketAtIs, ConstantTypes
<1>3. Accepted = 0 .. accepted - 1
  BY <1>2, AcceptedRun
<1>4. Cardinality(0 .. accepted - 1) = accepted
  <2> HIDE DEF accepted
  <2> QED
    BY <1>1, FS_Interval
<1> QED
  BY <1>1, <1>3, <1>4

(***************************************************************************)
(* The safety properties.                                                  *)
(***************************************************************************)
(* The output buffer has the submitted packets, in order.                  *)
LEMMA IInvWholeTransmission == IInv => WholeTransmissionInOrder
<1> SUFFICES ASSUME IInv, NEW i \in DOMAIN Delivered
             PROVE  Delivered[i] = (i - 1) % (NumPackets + 1)
  BY DEF WholeTransmissionInOrder
<1>1. Delivered \in Seq(Packets) /\ IsRun(Delivered, 0, delivered)
  BY DeliveredRun
<1>2. i \in 1 .. Len(Delivered) /\ i \in Int
  BY <1>1
<1>3. Delivered[i] = PacketAt(0 + i - 1)
  BY <1>1, <1>2 DEF IsRun
<1> QED
  BY <1>2, <1>3 DEF PacketAt

(* Without a roll-over, each of them once.                                 *)
LEMMA IInvInOrder ==
  ASSUME NumPackets + 1 < SeqNumModulus
  PROVE  IInv => InOrderExactlyOnce
<1> SUFFICES ASSUME IInv PROVE InOrderExactlyOnce
  OBVIOUS
<1> DEFINE n == Len(Delivered)
<1>1. Delivered \in Seq(Packets) /\ n \in Nat /\ n <= NumPackets + 1
  BY DeliveredRun, WithoutRollOver, ConstantTypes
<1>2. ASSUME NEW i \in 1 .. n
      PROVE  Delivered[i] = i - 1
  <2>1. Delivered[i] = PacketAt(0 + i - 1)
    BY DeliveredRun DEF IsRun
  <2>2. 0 + i - 1 = i - 1 /\ i - 1 \in Nat /\ i - 1 <= NumPackets
    BY <1>1, ConstantTypes
  <2> QED
    BY <2>1, <2>2, PacketAtIs
<1>3. Delivered = [i \in 1 .. n |-> Delivered[i]]
  BY <1>1
<1>4. Delivered = [i \in 1 .. n |-> i - 1]
  BY <1>2, <1>3
<1> QED
  BY <1>4 DEF InOrderExactlyOnce, FirstPackets

(* The EoT acknowledged means every packet accepted.                       *)
LEMMA IInvCompletion == IInv => CompletionSound
<1> SUFFICES ASSUME IInv, endOfTxAcked_, NEW p \in Packets
             PROVE  p \in Accepted
  BY DEF CompletionSound
<1>1. accepted > NumPackets
  BY DEF IInv, EndOfTx
<1>2. p < accepted
  BY <1>1, Numbers, ConstantTypes DEF Packets
<1> QED
  BY <1>2, AcceptedHas

(* A packet no longer held for retransmission was accepted.                *)
LEMMA IInvNothingForgotten == IInv => NothingForgotten
<1> SUFFICES ASSUME IInv, NEW p \in 0 .. nextSubmit - 1
             PROVE  p \in Elements(inputPackets_) \cup RT!Held(rt) \cup Accepted
  BY DEF NothingForgotten
<1>1. /\ transmitted \in Nat /\ nextSubmit \in 0 .. NumPackets + 1
      /\ released \in Int /\ accepted \in Int /\ released <= accepted
  BY Numbers
<1>2. p \in Packets /\ p \in Int
  BY <1>1, ConstantTypes DEF Packets
<1>3. CASE p >= transmitted
  <2>1. Elements(inputPackets_) = transmitted .. nextSubmit - 1
    BY <1>1, Numbers, RunElements
  <2> QED
    BY <1>1, <1>2, <1>3, <2>1
<1>4. CASE p < transmitted /\ p >= released
  <2>1. p \in released .. transmitted - 1
    BY <1>1, <1>2, <1>4
  <2> QED
    BY <2>1, Numbers
<1>5. CASE p < released
  <2>1. p < accepted
    BY <1>1, <1>2, <1>5
  <2> QED
    BY <1>2, <2>1, AcceptedHas
<1> QED
  BY <1>1, <1>2, <1>3, <1>4, <1>5

(* What an acknowledgement under way says.                                 *)
LEMMA AckSays ==
  ASSUME IInv, NEW sn \in AcksInFlight
  PROVE  /\ sn \in SequenceNumbers /\ AckBelow(sn, acknowledged)
         /\ sn < acknowledged => 0 .. sn \subseteq Accepted
<1>1. sn \in SequenceNumbers /\ AckBelow(sn, acknowledged)
  <2>1. CASE sn \in Elements(rxAckQueue)
    BY <2>1, AcksBelow DEF Elements
  <2>2. CASE sn \in Elements(txAckQueue)
    BY <2>2, AcksBelow DEF Elements
  <2>3. CASE sn \in ackChannel
    BY <2>3, AcksBelow, Numbers
  <2> QED
    BY <2>1, <2>2, <2>3, Protocols DEF AcksInFlight
<1>2. ASSUME sn < acknowledged, NEW p \in 0 .. sn
      PROVE  p \in Accepted
  <2>1. /\ sn \in Int /\ sn <= SeqNumModulus - 1 /\ SeqNumModulus \in Int
        /\ acknowledged \in Int /\ accepted \in Int /\ acknowledged <= accepted
        /\ accepted <= NumPackets + 1 \/ NumPackets + 1 = SeqNumModulus
        /\ NumPackets \in Int
    BY <1>1, Numbers, ConstantTypes DEF SequenceNumbers, RollsOver
  <2>2. p < accepted /\ p \in 0 .. NumPackets
    BY <1>2, <2>1
  <2> QED
    BY <2>2, AcceptedHas DEF Packets
<1> QED
  BY <1>1, <1>2

(* The acknowledgements under way are of packets accepted, but for that of *)
(* packet -1,                                                              *)
LEMMA IInvAcksOrVoid == IInv => AcksAreTrueOrVoid
BY AckSays DEF AcksAreTrueOrVoid, AckBelow

(* which only selective repeat sends.                                      *)
LEMMA IInvAcks ==
  ASSUME ~ SelectiveRepeat
  PROVE  IInv => AcksAreTrue
BY AckSays DEF AcksAreTrue, AckBelow

(* The offsets of the window are numbers from nextToAck_ on.               *)
LEMMA IInvWindow ==
  ASSUME ~ StopAndWait
  PROVE  IInv => WindowConsistent
<1> SUFFICES ASSUME IInv PROVE WindowConsistent
  OBVIOUS
<1>1. WindowHolds(rt, released, transmitted)
  BY Numbers DEF RTHolds
<1> QED
  BY <1>1 DEF WindowHolds, WindowConsistent

(* What is under way was in the transmitter's window when it was sent.     *)
LEMMA IInvArrivals ==
  ASSUME SelectiveRepeat
  PROVE  IInv => ArrivalsFitWindow
<1> SUFFICES ASSUME IInv, NEW p \in dataChannel
             PROVE  p < rs.earliestExpected_ + WindowSize
  BY DEF ArrivalsFitWindow
<1>1. p < transmitted /\ p \in Int
  BY Numbers DEF IInv, InFlight, Packets
<1>2. /\ transmitted \in Int /\ released \in Int /\ acknowledged \in Int
      /\ transmitted <= released + WindowSize /\ released <= acknowledged
      /\ acknowledged = rs.earliestExpected_ /\ WindowSize \in Int
  BY Numbers, ReceiverNow, ConstantTypes
<1> QED
  BY <1>1, <1>2

(* With room to spare the receiver's window follows what it accepts.       *)
LEMMA IInvWindowFollows ==
  ASSUME SelectiveRepeat, WindowSize < RSWindowSize
  PROVE  IInv => WindowFollowsDelivery
<1> SUFFICES ASSUME IInv PROVE WindowFollowsDelivery
  OBVIOUS
<1>1. rs.earliestExpected_ = accepted /\ Cardinality(Accepted) = accepted
  BY ReceiverNow, AcceptedRun
<1>2. accepted \in 0 .. SeqNumModulus - 1 /\ SeqNumModulus \in Nat \ {0}
  BY Numbers, ConstantTypes
<1>3. accepted % SeqNumModulus = accepted
  BY <1>2, SmallMod
<1> QED
  BY <1>1, <1>3 DEF WindowFollowsDelivery, SeqNum

(* resequencingThread stops after it has delivered everything.             *)
LEMMA IInvReceiverStops == IInv => ReceiverStopsComplete
<1> SUFFICES ASSUME IInv, rxPc = "exited"
             PROVE  Elements(Delivered) = Packets
  BY DEF ReceiverStopsComplete
<1>1. accepted > NumPackets /\ RS!Waiting(rs) = {}
  BY ReceiverNow
<1>2. delivered \in Nat /\ delivered > NumPackets
  BY <1>1, Numbers, WaitingIs
<1>3. Elements(Delivered) = {PacketAt(k) : k \in 0 .. delivered - 1}
  BY DeliveredRun
<1>4. ASSUME NEW p \in Packets
      PROVE  p \in Elements(Delivered)
  <2>1. p \in Nat /\ p <= NumPackets
    BY ConstantTypes DEF Packets
  <2>2. p \in 0 .. delivered - 1 /\ PacketAt(p) = p
    BY <1>2, <2>1, PacketAtIs, ConstantTypes
  <2> QED
    BY <1>3, <2>2
<1>5. \A k \in 0 .. delivered - 1 : PacketAt(k) \in Packets
  BY <1>2, PacketAtIs
<1> QED
  BY <1>3, <1>4, <1>5

(* Every variable keeps its type: packetsInBuffer_, startIdx_ and          *)
(* earliestExpected_ stay in range, and no sequence number is cut off.     *)
THEOREM TransferTypes == Spec => []TypeOK
<1>1. IInv => TypeOK
  BY DEF IInv
<1> QED
  BY <1>1, SystemInvariant, PTL

(* What the receiving application gets is the transmission in order,       *)
(* whatever is lost, repeated or reordered, and even if the sequence       *)
(* numbers come back to 0 with the EoT.                                    *)
THEOREM WholeTransferInOrder == Spec => []WholeTransmissionInOrder
BY IInvWholeTransmission, SystemInvariant, PTL

(* With at most 65534 data packets it gets each of them at most once.      *)
THEOREM TransferInOrder ==
  ASSUME NumPackets + 1 < SeqNumModulus
  PROVE  Spec => []InOrderExactlyOnce
<1>1. IInv => InOrderExactlyOnce
  BY IInvInOrder
<1> QED
  BY <1>1, SystemInvariant, PTL

(* processAckQueue takes the transmission to be complete only if the       *)
(* receiver has accepted every packet.                                     *)
THEOREM TransferCompletion == Spec => []CompletionSound
BY IInvCompletion, SystemInvariant, PTL

(* acknowledgePacket releases no packet that the receiver does not have in *)
(* sequence.                                                               *)
THEOREM TransferNothingForgotten == Spec => []NothingForgotten
BY IInvNothingForgotten, SystemInvariant, PTL

(* No acknowledgement, however late it is read, is of a packet that the    *)
(* receiver's do_addPacket has not accepted, with stop-and-wait and        *)
(* go-back-n;                                                              *)
THEOREM TransferAcksAreTrue ==
  ASSUME ~ SelectiveRepeat
  PROVE  Spec => []AcksAreTrue
<1>1. IInv => AcksAreTrue
  BY IInvAcks
<1> QED
  BY <1>1, SystemInvariant, PTL

(* with selective repeat, none but that of packet -1.                      *)
THEOREM TransferAcksAreTrueOrVoid == Spec => []AcksAreTrueOrVoid
BY IInvAcksOrVoid, SystemInvariant, PTL

(* The circular index, the sequence number and the counter of the RT       *)
(* buffers with a window agree.                                            *)
THEOREM TransferWindow ==
  ASSUME ~ StopAndWait
  PROVE  Spec => []WindowConsistent
<1>1. IInv => WindowConsistent
  BY IInvWindow
<1> QED
  BY <1>1, SystemInvariant, PTL

(* The window check of selective repeat's do_addPacket turns no new packet *)
(* away, if the receiver's window is as large as the transmitter's.        *)
THEOREM TransferArrivals ==
  ASSUME SelectiveRepeat
  PROVE  Spec => []ArrivalsFitWindow
<1>1. IInv => ArrivalsFitWindow
  BY IInvArrivals
<1> QED
  BY <1>1, SystemInvariant, PTL

(* If it is larger, updateBuffer always moves its window up to the first   *)
(* packet that is missing.                                                 *)
THEOREM TransferWindowFollows ==
  ASSUME SelectiveRepeat, WindowSize < RSWindowSize
  PROVE  Spec => []WindowFollowsDelivery
<1>1. IInv => WindowFollowsDelivery
  BY IInvWindowFollows
<1> QED
  BY <1>1, SystemInvariant, PTL

(* resequencingThread stops only when the output buffer has had it all.    *)
THEOREM TransferReceiverStops == Spec => []ReceiverStopsComplete
BY IInvReceiverStops, SystemInvariant, PTL

(* transmitThread never ends with an ArqProtocolException.                 *)
THEOREM TransferNoException == Spec => []NoProtocolException
<1>1. IInv => NoProtocolException
  BY DEF IInv, EndOfTx
<1> QED
  BY <1>1, SystemInvariant, PTL

(***************************************************************************)
(* The system implements the reliable transfer.                            *)
(***************************************************************************)
(* What the promise looks at, in numbers.                                  *)
LEMMA PromiseNumbers ==
  ASSUME NumPackets + 1 < SeqNumModulus
  PROVE  IInv => /\ Cardinality(Accepted) = accepted
                 /\ accepted \in Nat /\ accepted <= nextSubmit
BY WithoutRollOver

(* The same after a step.                                                  *)
LEMMA PromiseNumbersNext ==
  ASSUME NumPackets + 1 < SeqNumModulus
  PROVE  (IInv => /\ Cardinality(Accepted) = accepted
                  /\ accepted \in Nat /\ accepted <= nextSubmit)'
BY PromiseNumbers, PTL

(* Before and after it, together.                                          *)
LEMMA AcceptedCounts ==
  ASSUME NumPackets + 1 < SeqNumModulus, IInv, IInv'
  PROVE  /\ Cardinality(Accepted) = accepted
         /\ Cardinality(Accepted)' = accepted'
         /\ accepted \in Nat /\ accepted' \in Nat /\ accepted' <= nextSubmit'
BY PromiseNumbers, PromiseNumbersNext

(* The initial states are initial states of the promise.                   *)
LEMMA PromiseInit ==
  ASSUME NumPackets + 1 < SeqNumModulus
  PROVE  Init => Promise!Init
<1> SUFFICES ASSUME Init PROVE Promise!Init
  OBVIOUS
<1>1. IInv /\ nextSubmit = 0 /\ taken = <<>> /\ endOfTxAcked_ = FALSE
  BY InitIInv DEF Init, TransmitterInit, ReceiverInit
<1>2. Cardinality(Accepted) = 0
  BY <1>1, PromiseNumbers
<1> QED
  BY <1>1, <1>2 DEF Promise!Init

(* A step of the transmitter submits a packet, completes the transmission  *)
(* or changes nothing that the applications can see.                       *)
LEMMA TransmitterStepPromise ==
  ASSUME NumPackets + 1 < SeqNumModulus, IInv, IInv', TransmitterStep
  PROVE  [Promise!Next]_Promise!vars
<1>1. Cardinality(Accepted)' = Cardinality(Accepted) /\ taken' = taken
  <2>1. UNCHANGED rxVars
    BY DEF TransmitterStep
  <2>2. accepted' = accepted
    BY <2>1, ReceiverSame
  <2> QED
    BY <2>1, <2>2, AcceptedCounts DEF rxVars
<1>2. CASE sendPacket
  <2>1. nextSubmit <= NumPackets
    BY <1>2, ConstantTypes DEF sendPacket, Packets
  <2> QED
    BY <1>1, <1>2, <2>1
       DEF sendPacket, txThreadVars, Promise!Next, Promise!Submit
<1>3. CASE processAckQueue
  <2>1. nextSubmit' = nextSubmit
    BY <1>3 DEF processAckQueue
  <2>2. CASE endOfTxAcked_' = TRUE
    <3>1. accepted' > NumPackets
      BY <2>2 DEF IInv, EndOfTx
    <3>2. nextSubmit \in 0 .. NumPackets + 1
      BY Numbers
    <3>3. Cardinality(Accepted) = NumPackets + 1
      BY <1>1, <2>1, <3>1, <3>2, AcceptedCounts, ConstantTypes
    <3> QED
      BY <1>1, <2>1, <2>2, <3>3 DEF Promise!Next, Promise!Complete
  <2>3. CASE endOfTxAcked_' = FALSE
    <3>1. endOfTxAcked_ = FALSE
      BY <1>3, <2>3 DEF processAckQueue, IInv, TypeOK, TransmitterTypeOK
    <3> QED
      BY <1>1, <2>1, <2>3, <3>1 DEF Promise!vars
  <2>4. endOfTxAcked_' \in BOOLEAN
    BY DEF IInv, TypeOK, TransmitterTypeOK
  <2> QED
    BY <2>2, <2>3, <2>4
<1>4. ASSUME ~ sendPacket, ~ processAckQueue
      PROVE  UNCHANGED <<nextSubmit, endOfTxAcked_>>
  BY <1>4 DEF TransmitterStep, transmitThread, attemptPacketRetransmission,
              attemptNewPacketTransmission, nothingToTransmit,
              ackQueueProcessed, TxAckThread, ackThreadLoop, receiveAck,
              receiveNoAck, txThreadVars
<1> QED
  BY <1>1, <1>2, <1>3, <1>4 DEF Promise!vars

(* Taking the first packet of the output buffer changes nothing but who    *)
(* has it.                                                                 *)
LEMMA TakenFromOutput ==
  ASSUME NEW q \in Seq(Packets), NEW d \in Seq(Packets), q # <<>>
  PROVE  Append(d, Head(q)) \o Tail(q) = d \o q
OBVIOUS

(* A step of the receiver accepts packets, delivers one or changes nothing *)
(* that the applications can see.                                          *)
LEMMA ReceiverStepPromise ==
  ASSUME NumPackets + 1 < SeqNumModulus, IInv, IInv', ReceiverStep
  PROVE  [Promise!Next]_Promise!vars
<1>1. UNCHANGED <<nextSubmit, endOfTxAcked_>> /\ UNCHANGED txVars
  BY DEF ReceiverStep, txVars
<1>2. CASE tryGetPacket
  <2>1. /\ taken' = Append(taken, PacketAt(Len(taken))) /\ Len(taken) \in Nat
        /\ Len(taken) < delivered
    BY <1>2, TakesNext
  <2>2. accepted' = accepted
    <3>1. /\ rs' = rs
          /\ Delivered' = Delivered
      <4>1. /\ outputPackets_ # <<>> /\ rs' = rs
            /\ taken' = Append(taken, Head(outputPackets_))
            /\ outputPackets_' = Tail(outputPackets_)
        BY <1>2 DEF tryGetPacket
      <4>2. outputPackets_ \in Seq(Packets) /\ taken \in Seq(Packets)
        BY DEF IInv, TypeOK, ReceiverTypeOK
      <4> QED
        BY <4>1, <4>2, TakenFromOutput DEF Delivered
    <3> QED
      BY <3>1 DEF accepted, Accepted, delivered
  <2>3. Len(taken) < accepted /\ Len(taken) <= NumPackets
    BY <2>1, WithoutRollOver, ConstantTypes
  <2>4. PacketAt(Len(taken)) = Len(taken)
    BY <2>1, <2>3, PacketAtIs
  <2> QED
    BY <1>1, <2>1, <2>2, <2>3, <2>4, AcceptedCounts DEF Promise!Next, Promise!Deliver
<1>3. CASE taken' = taken
  <2>1. accepted <= accepted'
    BY ReceiverStepIInv DEF ReceiverKept
  <2>2. CASE accepted' = accepted
    BY <1>1, <1>3, <2>2, AcceptedCounts DEF Promise!vars
  <2>3. CASE accepted' # accepted
    <3>1. accepted' \in accepted + 1 .. nextSubmit
      BY <1>1, <2>1, <2>3, AcceptedCounts, Numbers
    <3> QED
      BY <1>1, <1>3, <3>1, AcceptedCounts DEF Promise!Next, Promise!Accept
  <2> QED
    BY <2>2, <2>3
<1>4. ASSUME ~ tryGetPacket
      PROVE  taken' = taken
  BY <1>4 DEF ReceiverStep, resequencingThread, resequencingLoop, receivePacket,
              receiveNoPacket, resequencePacket, deliverPacket, nothingToDeliver,
              RxAckThread, sendAck, checkEndOfTx
<1> QED
  BY <1>2, <1>3, <1>4

(* A step in which nothing changes is a stutter of the promise too.        *)
LEMMA StutterPromise ==
  ASSUME NumPackets + 1 < SeqNumModulus, IInv, IInv', UNCHANGED vars
  PROVE  UNCHANGED Promise!vars
<1>1. UNCHANGED <<nextSubmit, taken, endOfTxAcked_>> /\ UNCHANGED rxVars
  BY DEF vars, txVars, rxVars
<1>2. accepted' = accepted
  BY <1>1, ReceiverSame
<1> QED
  BY <1>1, <1>2, AcceptedCounts DEF Promise!vars

(* With at most 65534 data packets the transmitter, the receiver and the   *)
(* network together implement the abstract reliable transfer: what the     *)
(* applications see are submissions, acceptances, deliveries in order and  *)
(* a completion that is sound.                                             *)
THEOREM TransfersReliably ==
  ASSUME NumPackets + 1 < SeqNumModulus
  PROVE  Spec => ReliablyTransfers
<1>1. Init => Promise!Init
  BY PromiseInit
<1>2. IInv /\ IInv' /\ [Next]_vars => [Promise!Next]_Promise!vars
  BY TransmitterStepPromise, ReceiverStepPromise, StutterPromise
     DEF Next, Terminated
<1> QED
  BY <1>1, <1>2, SystemInvariant, PTL DEF Spec, ReliablyTransfers, Promise!Spec
==============================================================================
