--------------------------- MODULE InvariantProofs ---------------------------
(***************************************************************************)
(* The system keeps its inductive invariant, with each of the three        *)
(* protocols that run over UDP, for every number of packets, every window  *)
(* and every bound of the model.                                           *)
(***************************************************************************)
EXTENDS BufferProofs

(***************************************************************************)
(* The counts are numbers.                                                 *)
(***************************************************************************)
(* A set of packets has a size.                                            *)
LEMMA PacketsCounted ==
  ASSUME NEW S \in SUBSET Packets
  PROVE  Cardinality(S) \in Nat
<1>1. IsFiniteSet(Packets)
  BY ConstantTypes, FS_Interval DEF Packets
<1> QED
  BY <1>1, FS_Subset, FS_CardinalityType

(* A sequence of packets has packets as its elements.                      *)
LEMMA ElementsArePackets ==
  ASSUME NEW q \in Seq(Packets)
  PROVE  Elements(q) \subseteq Packets
BY DEF Elements

(* Only packets wait in the receiver's buffer.                             *)
LEMMA WaitingArePackets ==
  ASSUME NEW r \in RS!Buffers
  PROVE  RS!Waiting(r) \subseteq Packets
<1>1. CASE StopAndWait
  <2>1. r.packetForDelivery_ \in Packets \cup {None}
    <3>1. r \in [expectedPacketSeqNum_ : SequenceNumbers,
                packetForDelivery_    : Packets \cup {None}]
      BY <1>1, StopAndWaitRSCalls, Zenon
    <3> QED
      BY <3>1
  <2> QED
    BY <1>1, <2>1, StopAndWaitRSCalls
<1>2. CASE GoBackN
  <2>1. r.shadowBuffer_ \in Seq(Packets)
    <3>1. r \in [shadowBuffer_       : Seq(Packets),
                nextSequenceNumber_ : SequenceNumbers,
                canSendAcks_        : BOOLEAN]
      BY <1>2, GoBackNRSCalls, Zenon
    <3> QED
      BY <3>1
  <2> QED
    BY <1>2, <2>1, GoBackNRSCalls, ElementsArePackets
<1>3. CASE SelectiveRepeat
  <2>1. r.shadowBuffer_ \in Seq(Packets)
    BY <1>3, SelectiveRepeatFields
  <2> QED
    BY <1>3, <2>1, SelectiveRepeatRSCalls, ElementsArePackets
<1> QED
  BY <1>1, <1>2, <1>3, Protocols

(* Only packets are held in the transmitter's.                             *)
LEMMA HeldArePackets ==
  ASSUME NEW r \in RT!Buffers
  PROVE  RT!Held(r) \subseteq Packets
<1>1. CASE StopAndWait
  <2>1. r.retransmitPacket_ \in Packets \cup {None}
    <3>1. r \in [retransmitPacket_ : Packets \cup {None}]
      BY <1>1, StopAndWaitRTCalls, Zenon
    <3> QED
      BY <3>1
  <2> QED
    BY <1>1, <2>1, StopAndWaitRTCalls
<1>2. CASE ~ StopAndWait
  <2>1. r \in GB!Buffers /\ RT!Held(r) = GB!Held(r)
    BY <1>2, WindowCalls
  <2>2. r.buffer_ \in [0 .. WindowSize - 1 -> Packets \cup {None}]
    BY <2>1, WindowFields
  <2> QED
    BY <2>1, <2>2 DEF GB!Held, GB!Slots
<1> QED
  BY <1>1, <1>2

(* The counts of the transmitter, from what its buffers hold.              *)
LEMMA TransmitterCounts ==
  ASSUME NEW q, NEW s \in Int, NEW r, NEW i \in Int, NEW j \in Int,
         IsRun(q, j, s), RTHolds(r, i, j)
  PROVE  s - Len(q) = j /\ (s - Len(q)) - Cardinality(RT!Held(r)) = i
<1>1. Len(q) = s - j
  BY DEF IsRun
<1>2. Cardinality(RT!Held(r)) = j - i
  BY RTHeld
<1> QED
  BY <1>1, <1>2

(* The counts of the receiver, likewise.                                   *)
LEMMA ReceiverCounts ==
  ASSUME NEW d \in Seq(Packets), NEW n \in Nat, NEW a \in Nat, NEW r, NEW t,
         IsRun(d, 0, n), RSHolds(r, n, a, t),
         SelectiveRepeat => a <= NumPackets + 1
  PROVE  /\ Len(d) = n /\ n <= a
         /\ Elements(d) \cup RS!Waiting(r) = {PacketAt(k) : k \in 0 .. a - 1}
         /\ a = IF SelectiveRepeat
                THEN Cardinality(Elements(d) \cup RS!Waiting(r))
                ELSE Len(d) + Cardinality(RS!Waiting(r))
<1>1. Len(d) = n
  BY DEF IsRun
<1>2. Elements(d) = {PacketAt(k) : k \in 0 .. n - 1}
  BY RunPackets
<1>3. /\ n <= a
      /\ ~ SelectiveRepeat => Cardinality(RS!Waiting(r)) = a - n
      /\ Elements(d) \cup RS!Waiting(r) = {PacketAt(k) : k \in 0 .. a - 1}
  BY <1>2, WaitingIs
<1>4. ASSUME SelectiveRepeat
      PROVE  Cardinality(Elements(d) \cup RS!Waiting(r)) = a
  <2>1. \A k \in 0 .. a - 1 : PacketAt(k) = k
    BY <1>4, PacketAtIs, ConstantTypes
  <2>2. {PacketAt(k) : k \in 0 .. a - 1} = 0 .. a - 1
    BY <2>1
  <2>3. Cardinality(0 .. a - 1) = a
    BY FS_Interval
  <2> QED
    BY <1>3, <2>2, <2>3
<1> QED
  BY <1>1, <1>3, <1>4

(***************************************************************************)
(* What the invariant says, in numbers.                                    *)
(***************************************************************************)
(* An acknowledgement that may be sent when k packets are acknowledged.    *)
AckBelow(sn, k) == \/ sn < k
                   \/ SelectiveRepeat /\ sn = SeqNumModulus - 1

(* The counts are in order, and the buffers and queues hold what the       *)
(* counts say.                                                             *)
LEMMA Numbers ==
  ASSUME IInv
  PROVE  /\ nextSubmit \in 0 .. NumPackets + 1
         /\ inputPackets_ \in Seq(Packets)
         /\ transmitted \in 0 .. nextSubmit
         /\ IsRun(inputPackets_, transmitted, nextSubmit)
         /\ released \in Int /\ released <= transmitted
         /\ transmitted <= released + WindowSize
         /\ RT!Held(rt) = released .. transmitted - 1
         /\ released < transmitted => released \in Nat
         /\ rt \in RT!Buffers /\ RTHolds(rt, released, transmitted)
         /\ delivered \in Nat /\ accepted \in Nat /\ acknowledged \in Nat
         /\ delivered <= accepted /\ acknowledged <= accepted
         /\ released <= acknowledged
         /\ accepted <= NumPackets + 1 \/ RollsOver
         /\ accepted <= transmitted \/ (RollsOver /\ transmitted = NumPackets + 1)
         /\ SelectiveRepeat => accepted <= NumPackets + 1 /\ accepted <= transmitted
         /\ rs \in RS!Buffers /\ RSHolds(rs, delivered, accepted, transmitted)
         /\ dataChannel \subseteq Packets /\ ackChannel \subseteq SequenceNumbers
<1>1. /\ nextSubmit \in 0 .. NumPackets + 1 /\ inputPackets_ \in Seq(Packets)
      /\ rt \in RT!Buffers /\ rs \in RS!Buffers
      /\ taken \in Seq(Packets) /\ outputPackets_ \in Seq(Packets)
      /\ dataChannel \subseteq Packets /\ ackChannel \subseteq SequenceNumbers
  BY Protocols DEF IInv, TypeOK, TransmitterTypeOK, ReceiverTypeOK
<1>2. /\ NumPackets \in Nat /\ WindowSize \in Nat \ {0}
      /\ NumPackets + 1 <= SeqNumModulus /\ SeqNumModulus \in Nat
      /\ SelectiveRepeat => NumPackets + 1 < SeqNumModulus
  BY ConstantTypes
<1>3. /\ RTHolds(rt, released, transmitted)
      /\ RSHolds(rs, delivered, accepted, transmitted)
      /\ IsRun(inputPackets_, transmitted, nextSubmit)
  BY DEF IInv, BuffersHold, Queues
<1>4. /\ transmitted \in Int /\ transmitted <= nextSubmit
      /\ released \in Int /\ delivered \in Nat
  <2>1. Cardinality(RT!Held(rt)) \in Nat
    BY <1>1, HeldArePackets, PacketsCounted
  <2>2. Delivered \in Seq(Packets)
    BY <1>1 DEF Delivered
  <2> QED
    BY <1>1, <2>1, <2>2 DEF transmitted, released, delivered
<1>5. accepted \in Nat
  <2>1. Cardinality(RS!Waiting(rs)) \in Nat
    BY <1>1, WaitingArePackets, PacketsCounted
  <2>2. Cardinality(Accepted) \in Nat
    <3>1. Delivered \in Seq(Packets)
      BY <1>1 DEF Delivered
    <3>2. Accepted \subseteq Packets
      BY <1>1, <3>1, WaitingArePackets, ElementsArePackets DEF Accepted
    <3> QED
      BY <3>2, PacketsCounted
  <2> QED
    BY <1>4, <2>1, <2>2 DEF accepted
<1>6. acknowledged \in Nat
  BY <1>3, <1>5, RSExpects DEF acknowledged
<1>7. /\ released <= acknowledged /\ acknowledged <= accepted
      /\ accepted <= transmitted \/ (RollsOver /\ transmitted = NumPackets + 1)
  BY DEF IInv, Counts
<1>8. /\ released <= transmitted /\ transmitted <= released + WindowSize
      /\ RT!Held(rt) = released .. transmitted - 1
      /\ released < transmitted => released \in Nat
  BY <1>3, <1>4, RTHeld
<1>9. delivered <= accepted
  BY <1>3, <1>4, <1>5, WaitingIs
<1>10. /\ transmitted \in 0 .. nextSubmit
       /\ accepted <= NumPackets + 1 \/ RollsOver
       /\ SelectiveRepeat => accepted <= NumPackets + 1 /\ accepted <= transmitted
  BY <1>1, <1>2, <1>4, <1>5, <1>7 DEF RollsOver
<1> QED
  BY <1>1, <1>3, <1>4, <1>5, <1>6, <1>7, <1>8, <1>9, <1>10

(* What may be acknowledged, with the counts as they are.                  *)
LEMMA AcksBelow ==
  ASSUME IInv
  PROVE  /\ txAckQueue \in Seq(SequenceNumbers)
         /\ rxAckQueue \in Seq(SequenceNumbers)
         /\ \A sn \in ackChannel : AckBelow(sn, acknowledged)
         /\ \A i \in DOMAIN txAckQueue : AckBelow(txAckQueue[i], acknowledged)
         /\ \A i \in DOMAIN rxAckQueue : AckBelow(rxAckQueue[i], acknowledged)
         /\ nextToAck # None => /\ nextToAck \in SequenceNumbers
                               /\ AckBelow(nextToAck, acknowledged)
BY DEF IInv, InFlight, AckHolds, AckBelow, TypeOK, TransmitterTypeOK,
       ReceiverTypeOK

(* It may still be acknowledged when more is.                              *)
LEMMA StillBelow ==
  ASSUME NEW sn \in SequenceNumbers, NEW k \in Nat, NEW k2 \in Nat, k <= k2,
         AckBelow(sn, k)
  PROVE  AckBelow(sn, k2)
BY ConstantTypes DEF AckBelow, SequenceNumbers

(* The acknowledgement of the EoT says that every packet is accepted.      *)
LEMMA EndOfTxAccepted ==
  ASSUME NEW k \in Nat, AckBelow(NumPackets, k)
  PROVE  k > NumPackets
BY ConstantTypes DEF AckBelow

(* The head of a queue of acknowledgements is one of them, and the others  *)
(* stay.                                                                   *)
LEMMA HeadBelow ==
  ASSUME NEW q \in Seq(SequenceNumbers), NEW k, q # <<>>,
         \A i \in DOMAIN q : AckBelow(q[i], k)
  PROVE  /\ Head(q) \in SequenceNumbers /\ AckBelow(Head(q), k)
         /\ Tail(q) \in Seq(SequenceNumbers)
         /\ \A i \in DOMAIN Tail(q) : AckBelow(Tail(q)[i], k)
<1>1. Head(q) = q[1] /\ 1 \in DOMAIN q
  OBVIOUS
<1>2. ASSUME NEW i \in DOMAIN Tail(q)
      PROVE  AckBelow(Tail(q)[i], k)
  <2>1. i + 1 \in DOMAIN q /\ Tail(q)[i] = q[i + 1]
    OBVIOUS
  <2> QED
    BY <2>1
<1> QED
  BY <1>1, <1>2

(* An acknowledgement is added to a queue of them.                         *)
LEMMA AppendBelow ==
  ASSUME NEW q \in Seq(SequenceNumbers), NEW k,
         \A i \in DOMAIN q : AckBelow(q[i], k),
         NEW sn \in SequenceNumbers, AckBelow(sn, k)
  PROVE  /\ Append(q, sn) \in Seq(SequenceNumbers)
         /\ \A i \in DOMAIN Append(q, sn) : AckBelow(Append(q, sn)[i], k)
<1>1. Append(q, sn) \in Seq(SequenceNumbers)
  OBVIOUS
<1>2. ASSUME NEW i \in DOMAIN Append(q, sn)
      PROVE  AckBelow(Append(q, sn)[i], k)
  <2>1. CASE i \in DOMAIN q
    <3>1. Append(q, sn)[i] = q[i]
      BY <2>1
    <3> QED
      BY <2>1, <3>1
  <2>2. CASE i \notin DOMAIN q
    <3>1. Append(q, sn)[i] = sn
      BY <2>2
    <3> QED
      BY <3>1
  <2> QED
    BY <2>1, <2>2
<1> QED
  BY <1>1, <1>2

(***************************************************************************)
(* The invariant holds initially.                                          *)
(***************************************************************************)
(* Before the first step of any thread the invariant holds.                *)
LEMMA InitIInv == Init => IInv
<1> SUFFICES ASSUME Init PROVE IInv
  OBVIOUS
<1> USE DEF Init, TransmitterInit, ReceiverInit
<1>1. dataChannel = {} /\ ackChannel = {}
  BY Protocols DEF EmptyChannel
<1>2. /\ <<>> \in Seq(Packets) /\ <<>> \in Seq(SequenceNumbers)
      /\ 0 \in 0 .. NumPackets + 1 /\ 0 \in SequenceNumbers
      /\ NumPackets \in Nat /\ SeqNumModulus \in Nat \ {0}
      /\ 0 % SeqNumModulus = 0
  BY ConstantTypes DEF SequenceNumbers
<1>3. IsRun(<<>>, 0, 0)
  BY RunEmpty
<1>4. /\ RTHolds(rt, 0, 0) /\ RSHolds(rs, 0, 0, 0) /\ RS!Waiting(rs) = {}
      /\ SelectiveRepeat => rs.earliestExpected_ = 0
  BY RTEmpty, RSEmpty
<1>5. transmitted = 0 /\ released = 0
  <2>1. nextSubmit = 0 /\ inputPackets_ = <<>> /\ 0 \in Int
    OBVIOUS
  <2>2. 0 - Len(<<>>) = 0 /\ (0 - Len(<<>>)) - Cardinality(RT!Held(rt)) = 0
    BY <1>3, <1>4, <2>1, TransmitterCounts
  <2> QED
    BY <2>1, <2>2 DEF transmitted, released
<1>6. Delivered = <<>> /\ delivered = 0
  BY <1>2 DEF Delivered, delivered
<1>7. accepted = 0
  <2>1. 0 \in Nat /\ <<>> \in Seq(Packets) /\ (SelectiveRepeat => 0 <= NumPackets + 1)
    BY <1>2
  <2>2. 0 = IF SelectiveRepeat
            THEN Cardinality(Elements(<<>>) \cup RS!Waiting(rs))
            ELSE Len(<<>>) + Cardinality(RS!Waiting(rs))
    BY <1>3, <1>4, <2>1, ReceiverCounts
  <2> QED
    BY <1>6, <2>2 DEF accepted, Accepted, delivered
<1>8. acknowledged = 0
  BY <1>4, <1>7 DEF acknowledged
<1>9. TypeOK
  <2>1. rt \in RT!Buffers /\ rs \in RS!Buffers
    BY <1>4 DEF RTHolds, RSHolds
  <2>2. TransmitterTypeOK
    BY <1>2, <2>1 DEF TransmitterTypeOK
  <2>3. ReceiverTypeOK
    BY <1>2, <2>1 DEF ReceiverTypeOK
  <2> QED
    BY <1>1, <2>2, <2>3, Protocols DEF TypeOK
<1>10. BuffersHold
  BY <1>4, <1>5, <1>6, <1>7 DEF BuffersHold
<1>11. Counts
  BY <1>5, <1>7, <1>8 DEF Counts
<1>12. Queues
  BY <1>2, <1>3, <1>5, <1>6 DEF Queues
<1>13. InFlight
  BY <1>1 DEF InFlight
<1>14. EndOfTx
  BY <1>2, <1>4, <1>5 DEF EndOfTx, NoProtocolException
<1> QED
  BY <1>9, <1>10, <1>11, <1>12, <1>13, <1>14 DEF IInv

(***************************************************************************)
(* What a step of one side may change, for the invariant to hold after it. *)
(***************************************************************************)
(* A step of the transmitter does not change the receiver's counts.        *)
LEMMA ReceiverSame ==
  ASSUME UNCHANGED rxVars
  PROVE  /\ delivered' = delivered /\ accepted' = accepted
         /\ acknowledged' = acknowledged
<1>1. rs' = rs /\ taken' = taken /\ outputPackets_' = outputPackets_
  BY DEF rxVars
<1>2. Delivered' = Delivered
  BY <1>1 DEF Delivered
<1>3. delivered' = delivered
  BY <1>2 DEF delivered
<1>4. accepted' = accepted
  BY <1>1, <1>2, <1>3 DEF accepted, Accepted
<1> QED
  BY <1>1, <1>3, <1>4 DEF acknowledged

(* Nor one of the receiver the transmitter's.                              *)
LEMMA TransmitterSame ==
  ASSUME UNCHANGED txVars
  PROVE  transmitted' = transmitted /\ released' = released
BY DEF txVars, transmitted, released

(* A step of the transmitter.                                              *)
LEMMA TransmitterKeeps ==
  ASSUME IInv, UNCHANGED rxVars, TransmitterTypeOK',
         NEW i \in Int, NEW j \in Nat,
         RTHolds(rt', i, j), IsRun(inputPackets_', j, nextSubmit'),
         transmitted <= j, i <= acknowledged,
         dataChannel' \subseteq Packets, \A p \in dataChannel' : p < j,
         ackChannel' \subseteq ackChannel,
         \A k \in DOMAIN txAckQueue' : AckBelow(txAckQueue'[k], acknowledged),
         endOfTxSeqNum_' = IF j = NumPackets + 1 THEN NumPackets ELSE None,
         endOfTxAcked_' => accepted > NumPackets,
         txPc' # "terminated"
  PROVE  IInv'
<1>1. transmitted' = j /\ released' = i
  <2>1. nextSubmit' \in Int
    BY ConstantTypes DEF TransmitterTypeOK
  <2> QED
    BY <2>1, TransmitterCounts DEF transmitted, released
<1>2. delivered' = delivered /\ accepted' = accepted /\ acknowledged' = acknowledged
  BY ReceiverSame
<1>3. TypeOK'
  <2>1. ReceiverTypeOK'
    BY DEF IInv, TypeOK, ReceiverTypeOK, rxVars
  <2> QED
    BY <2>1, Numbers, Protocols DEF TypeOK, UsesSCTP
<1>4. BuffersHold'
  <2>1. RSHolds(rs, delivered, accepted, j)
    BY Numbers, RSLater, ConstantTypes
  <2>2. rs' = rs
    BY DEF rxVars
  <2> QED
    BY <1>1, <1>2, <2>1, <2>2 DEF BuffersHold
<1>5. Counts'
  <2>1. \/ accepted <= j
        \/ RollsOver /\ j = NumPackets + 1
    <3>1. j <= NumPackets + 1
      <4>1. nextSubmit' \in 0 .. NumPackets + 1 /\ inputPackets_' \in Seq(Packets)
        BY DEF TransmitterTypeOK
      <4>2. Len(inputPackets_') \in Nat
        BY <4>1
      <4>3. Len(inputPackets_') = nextSubmit' - j
        BY DEF IsRun
      <4> QED
        BY <4>1, <4>2, <4>3, ConstantTypes
    <3> QED
      BY <3>1, Numbers, ConstantTypes
  <2>2. rs' = rs
    BY DEF rxVars
  <2> QED
    BY <1>1, <1>2, <2>1 DEF IInv, Counts
<1>6. Queues'
  BY <1>1, <1>2 DEF IInv, Queues, rxVars
<1>7. InFlight'
  <2>1. received' # None => received' < j
    <3>1. received # None => received < transmitted /\ received \in Int
      BY DEF IInv, InFlight, TypeOK, ReceiverTypeOK, Packets
    <3> QED
      BY <3>1, Numbers DEF rxVars
  <2>2. \A sn \in ackChannel' : AckBelow(sn, acknowledged)
    BY AcksBelow
  <2>3. rxAckQueue' = rxAckQueue /\ nextToAck' = nextToAck
    BY DEF rxVars
  <2> QED
    BY <1>1, <1>2, <2>1, <2>2, <2>3, AcksBelow DEF InFlight, AckHolds, AckBelow
<1>8. EndOfTx'
  BY <1>1, <1>2 DEF IInv, EndOfTx, NoProtocolException, rxVars
<1> QED
  BY <1>3, <1>4, <1>5, <1>6, <1>7, <1>8 DEF IInv

(* The invariant holds after the step, and what has been accepted stays so *)
ReceiverKept == IInv' /\ accepted <= accepted'

(* A step of the receiver.                                                 *)
LEMMA ReceiverKeeps ==
  ASSUME IInv, UNCHANGED txVars, ReceiverTypeOK',
         dataChannel' \subseteq dataChannel,
         ackChannel' \subseteq SequenceNumbers,
         NEW n \in Nat, NEW a \in Nat,
         IsRun(taken', 0, Len(taken')), IsRun(outputPackets_', Len(taken'), n),
         nextSequenceNumber_' = n % SeqNumModulus,
         RSHolds(rs', n, a, transmitted),
         accepted <= a,
         a <= transmitted \/ (RollsOver /\ transmitted = NumPackets + 1),
         SelectiveRepeat => acknowledged <= rs'.earliestExpected_,
         SelectiveRepeat /\ WindowSize < RSWindowSize => rs'.earliestExpected_ = a,
         received' # None => received' < transmitted,
         NEW e, e = IF SelectiveRepeat THEN rs'.earliestExpected_ ELSE a,
         \A sn \in ackChannel' : AckBelow(sn, e),
         \A k \in DOMAIN rxAckQueue' : AckBelow(rxAckQueue'[k], e),
         nextToAck' # None => AckBelow(nextToAck', e),
         endOfTxSn_' \in {None, NumPackets},
         ackedEndOfTx_' => a > NumPackets /\ rxAckPc' = "exited",
         (received' = None) <=> (rxPc' # "add"),
         (nextToAck' = None) <=> (rxAckPc' # "check"),
         RS!Waiting(rs') # {} => rxPc' = "deliver",
         rxPc' = "exited" => ackedEndOfTx_'
  PROVE  ReceiverKept
<1>1. transmitted' = transmitted /\ released' = released
  BY TransmitterSame
<1>2. SelectiveRepeat => a <= NumPackets + 1
  BY Numbers, ConstantTypes DEF RollsOver
<1>3. delivered' = n /\ accepted' = a /\ acknowledged' = e
  <2>1. taken' \in Seq(Packets) /\ outputPackets_' \in Seq(Packets)
        /\ Len(taken') \in Int /\ n \in Int /\ 0 \in Int
    BY DEF ReceiverTypeOK
  <2>2. Delivered' \in Seq(Packets) /\ IsRun(Delivered', 0, n)
    BY <2>1, RunConcat DEF Delivered
  <2>3. /\ Len(Delivered') = n
        /\ a = IF SelectiveRepeat
               THEN Cardinality(Elements(Delivered') \cup RS!Waiting(rs'))
               ELSE Len(Delivered') + Cardinality(RS!Waiting(rs'))
    BY <1>2, <2>2, ReceiverCounts
  <2>4. delivered' = n
    BY <2>3 DEF delivered
  <2>5. accepted' = a
    BY <2>3, <2>4 DEF accepted, Accepted
  <2> QED
    BY <2>4, <2>5 DEF acknowledged
<1>4. e \in Nat /\ acknowledged <= e /\ e <= a
  <2>1. CASE SelectiveRepeat
    BY <2>1, RSExpects
  <2>2. CASE ~ SelectiveRepeat
    BY <2>2, Numbers DEF acknowledged
  <2> QED
    BY <2>1, <2>2
<1>5. TypeOK'
  <2>1. TransmitterTypeOK'
    BY DEF IInv, TypeOK, TransmitterTypeOK, txVars
  <2> QED
    BY <2>1, Numbers, Protocols DEF TypeOK, UsesSCTP
<1>6. BuffersHold'
  <2>1. rt' = rt /\ RTHolds(rt, released, transmitted)
    BY Numbers DEF txVars
  <2> QED
    BY <1>1, <1>3, <2>1 DEF BuffersHold
<1>7. Counts'
  <2>1. released <= e
    BY <1>4, Numbers
  <2>2. WindowSize < RSWindowSize => e = a
    OBVIOUS
  <2> QED
    BY <1>1, <1>3, <1>4, <2>1, <2>2 DEF Counts
<1>8. Queues'
  BY <1>1, <1>3 DEF IInv, Queues, txVars
<1>9. InFlight'
  <2>1. \A p \in dataChannel' : p < transmitted
    BY DEF IInv, InFlight
  <2>2. ASSUME NEW k \in DOMAIN txAckQueue
        PROVE  AckBelow(txAckQueue[k], e)
    <3>1. txAckQueue[k] \in SequenceNumbers /\ AckBelow(txAckQueue[k], acknowledged)
      BY AcksBelow
    <3> QED
      BY <1>4, <3>1, Numbers, StillBelow
  <2>3. txAckQueue' = txAckQueue
    BY DEF txVars
  <2> QED
    BY <1>1, <1>3, <2>1, <2>2, <2>3 DEF InFlight, AckHolds, AckBelow
<1>10. EndOfTx'
  <2>1. endOfTxAcked_' => a > NumPackets
    BY Numbers, ConstantTypes DEF IInv, EndOfTx, txVars
  <2> QED
    BY <1>1, <1>3, <2>1 DEF IInv, EndOfTx, NoProtocolException, txVars
<1> QED
  BY <1>3, <1>5, <1>6, <1>7, <1>8, <1>9, <1>10 DEF IInv, ReceiverKept

(***************************************************************************)
(* The network.                                                            *)
(***************************************************************************)
(* What is handed to the network is all that it may come to hold.          *)
LEMMA SentAdds ==
  ASSUME NEW channel, NEW m, NEW channel2 \in Sent(channel, m)
  PROVE  channel2 \subseteq channel \cup {m}
BY Protocols DEF Sent, Carried

(* Nothing appears in the network when a datagram arrives.                 *)
LEMMA ArrivalTakes ==
  ASSUME NEW channel, NEW m \in Arriving(channel),
         NEW channel2 \in AfterArrival(channel, m)
  PROVE  m \in channel /\ channel2 \subseteq channel
BY Protocols DEF Arriving, AfterArrival, LastArrival

(***************************************************************************)
(* The steps of the transmitter.                                           *)
(***************************************************************************)
(* A step in which a thread of the transmitter only goes on to its next    *)
(* place, or queues an acknowledgement that has arrived, keeps the         *)
(* invariant.                                                              *)
LEMMA TransmitterIdleStep ==
  ASSUME IInv, UNCHANGED rxVars,
         UNCHANGED <<nextSubmit, inputPackets_, rt, endOfTxSeqNum_, endOfTxAcked_,
                     dataChannel>>,
         ackChannel' \subseteq ackChannel,
         txAckQueue' \in Seq(SequenceNumbers),
         \A k \in DOMAIN txAckQueue' : AckBelow(txAckQueue'[k], acknowledged),
         txPc' \in {txPc, "send", "acks"},
         txAckPc' \in {"loop", "recv", "exited"}
  PROVE  IInv'
<1>1. TransmitterTypeOK'
  BY DEF IInv, TypeOK, TransmitterTypeOK
<1>2. /\ released \in Int /\ transmitted \in Nat /\ released <= acknowledged
      /\ RTHolds(rt', released, transmitted)
      /\ IsRun(inputPackets_', transmitted, nextSubmit')
      /\ dataChannel' \subseteq Packets
  BY Numbers
<1>3. /\ \A p \in dataChannel' : p < transmitted
      /\ endOfTxSeqNum_' = IF transmitted = NumPackets + 1 THEN NumPackets ELSE None
      /\ endOfTxAcked_' => accepted > NumPackets
      /\ txPc' # "terminated"
  BY DEF IInv, InFlight, EndOfTx, NoProtocolException
<1> QED
  BY <1>1, <1>2, <1>3, TransmitterKeeps

(* Submitting a packet keeps the invariant.                                *)
LEMMA SendPacketStep ==
  ASSUME IInv, sendPacket, UNCHANGED rxVars
  PROVE  IInv'
<1>1. /\ nextSubmit \in Packets
      /\ inputPackets_' = Append(inputPackets_, nextSubmit)
      /\ nextSubmit' = nextSubmit + 1
      /\ UNCHANGED <<rt, endOfTxSeqNum_, endOfTxAcked_, txPc, txAckQueue, txAckPc,
                     dataChannel, ackChannel>>
  BY DEF sendPacket, txThreadVars
<1>2. nextSubmit \in Nat /\ nextSubmit <= NumPackets /\ nextSubmit = PacketAt(nextSubmit)
  BY <1>1, PacketAtIs, ConstantTypes DEF Packets
<1>3. /\ inputPackets_' \in Seq(Packets)
      /\ IsRun(inputPackets_', transmitted, nextSubmit')
  <2>1. /\ inputPackets_ \in Seq(Packets) /\ transmitted \in Int
        /\ IsRun(inputPackets_, transmitted, nextSubmit)
    BY Numbers
  <2> QED
    BY <1>1, <1>2, <2>1, RunAppend
<1>4. TransmitterTypeOK'
  BY <1>1, <1>2, <1>3, ConstantTypes DEF IInv, TypeOK, TransmitterTypeOK
<1>5. /\ released \in Int /\ transmitted \in Nat /\ released <= acknowledged
      /\ RTHolds(rt', released, transmitted)
      /\ dataChannel' \subseteq Packets
  BY <1>1, Numbers
<1>6. /\ \A p \in dataChannel' : p < transmitted
      /\ endOfTxSeqNum_' = IF transmitted = NumPackets + 1 THEN NumPackets ELSE None
      /\ endOfTxAcked_' => accepted > NumPackets
      /\ txPc' # "terminated"
  BY <1>1 DEF IInv, InFlight, EndOfTx, NoProtocolException
<1>7. \A k \in DOMAIN txAckQueue' : AckBelow(txAckQueue'[k], acknowledged)
  BY <1>1, AcksBelow
<1> QED
  BY <1>1, <1>3, <1>4, <1>5, <1>6, <1>7, TransmitterKeeps

(* Sending a held packet again keeps the invariant.                        *)
LEMMA RetransmissionStep ==
  ASSUME IInv, NEW timedOut \in SUBSET RT!Held(rt),
         attemptPacketRetransmission(timedOut), UNCHANGED rxVars
  PROVE  IInv'
<1> DEFINE p == RT!tryGetPacketSpan(rt, timedOut)
<1>1. /\ p # None /\ dataChannel' \in Sent(dataChannel, p)
      /\ txPc' = "acks"
      /\ UNCHANGED <<nextSubmit, inputPackets_, rt, endOfTxSeqNum_,
                     endOfTxAcked_, txAckQueue, txAckPc, ackChannel>>
  BY DEF attemptPacketRetransmission, transmitPacketData
<1>2. p \in Packets /\ p < transmitted
  <2>1. p \in RT!Held(rt)
    BY <1>1, Numbers, RTDue
  <2>2. p \in released .. transmitted - 1 /\ p \in Packets
    BY <2>1, Numbers, HeldArePackets
  <2> QED
    BY <2>2, Numbers
<1> HIDE DEF p
<1>3. dataChannel' \subseteq dataChannel \cup {p}
  BY <1>1, SentAdds
<1>4. TransmitterTypeOK'
  BY <1>1 DEF IInv, TypeOK, TransmitterTypeOK
<1>5. /\ released \in Int /\ transmitted \in Nat /\ released <= acknowledged
      /\ RTHolds(rt', released, transmitted)
      /\ IsRun(inputPackets_', transmitted, nextSubmit')
      /\ dataChannel' \subseteq Packets
  BY <1>1, <1>2, <1>3, Numbers
<1>6. /\ \A q \in dataChannel' : q < transmitted
      /\ endOfTxSeqNum_' = IF transmitted = NumPackets + 1 THEN NumPackets ELSE None
      /\ endOfTxAcked_' => accepted > NumPackets
      /\ txPc' # "terminated"
  BY <1>1, <1>2, <1>3 DEF IInv, InFlight, EndOfTx
<1>7. \A k \in DOMAIN txAckQueue' : AckBelow(txAckQueue'[k], acknowledged)
  BY <1>1, AcksBelow
<1> QED
  BY <1>1, <1>4, <1>5, <1>6, <1>7, TransmitterKeeps

(* Sending the next packet of the input buffer for the first time keeps    *)
(* the invariant: the buffer has space for it.                             *)
LEMMA NewTransmissionStep ==
  ASSUME IInv, attemptNewPacketTransmission, UNCHANGED rxVars
  PROVE  IInv'
<1> DEFINE p == Head(inputPackets_)
<1>1. /\ RT!readyForNewPacket(rt) /\ inputPackets_ # <<>>
      /\ inputPackets_' = Tail(inputPackets_)
      /\ endOfTxSeqNum_' = IF isEndOfTx(p) THEN SeqNum(p) ELSE endOfTxSeqNum_
      /\ dataChannel' \in Sent(dataChannel, p)
      /\ rt' = RT!addPacket(rt, p)
      /\ txPc' = IF RT!HasSpace(rt) THEN "acks" ELSE "terminated"
      /\ UNCHANGED <<nextSubmit, endOfTxAcked_, txAckQueue, txAckPc, ackChannel>>
  BY DEF attemptNewPacketTransmission, transmitPacketData
<1>2. /\ p = transmitted /\ p \in Packets /\ p < nextSubmit
      /\ inputPackets_' \in Seq(Packets)
      /\ IsRun(inputPackets_', transmitted + 1, nextSubmit)
  <2>1. /\ inputPackets_ \in Seq(Packets) /\ transmitted \in Int
        /\ nextSubmit \in Int
        /\ IsRun(inputPackets_, transmitted, nextSubmit)
    BY Numbers
  <2>2. /\ p = PacketAt(transmitted) /\ p \in Packets /\ transmitted < nextSubmit
        /\ Tail(inputPackets_) \in Seq(Packets)
        /\ IsRun(Tail(inputPackets_), transmitted + 1, nextSubmit)
    BY <1>1, <2>1, RunTail
  <2>3. transmitted \in Nat /\ transmitted <= NumPackets
    BY <2>2, Numbers, ConstantTypes
  <2> QED
    BY <1>1, <2>2, <2>3, PacketAtIs
<1> HIDE DEF p
<1>3. RT!HasSpace(rt) /\ RTHolds(rt', released, transmitted + 1)
  <2>1. released \in Int /\ RTHolds(rt, released, p)
    BY <1>2, Numbers
  <2> QED
    BY <1>1, <1>2, <2>1, RTAdd
<1>4. dataChannel' \subseteq dataChannel \cup {p}
  BY <1>1, SentAdds
<1>5. /\ released \in Int /\ transmitted \in Nat /\ transmitted + 1 \in Nat
      /\ transmitted <= transmitted + 1 /\ released <= acknowledged
      /\ dataChannel' \subseteq Packets
  BY <1>2, <1>4, Numbers
<1>6. \A q \in dataChannel' : q < transmitted + 1
  <2>1. \A q \in dataChannel : q < transmitted /\ q \in Int
    BY Numbers DEF IInv, InFlight, Packets
  <2> QED
    BY <1>2, <1>4, <1>5, <2>1
<1>7. endOfTxSeqNum_' = IF transmitted + 1 = NumPackets + 1 THEN NumPackets ELSE None
  <2>1. isEndOfTx(p) <=> transmitted + 1 = NumPackets + 1
    BY <1>2, <1>5, ConstantTypes DEF isEndOfTx
  <2>2. CASE isEndOfTx(p)
    <3>1. SeqNum(p) = NumPackets
      BY <1>2, <2>2, SeqNumIsPosition DEF isEndOfTx
    <3> QED
      BY <1>1, <2>1, <2>2, <3>1
  <2>3. CASE ~ isEndOfTx(p)
    <3>1. endOfTxSeqNum_ = None
      <4>1. transmitted # NumPackets + 1
        BY <1>2, ConstantTypes DEF Packets
      <4> QED
        BY <4>1 DEF IInv, EndOfTx
    <3> QED
      BY <1>1, <2>1, <2>3, <3>1
  <2> QED
    BY <2>2, <2>3
<1>8. TransmitterTypeOK'
  <2>1. endOfTxSeqNum_' \in SequenceNumbers \cup {None}
    BY <1>7, ConstantTypes DEF SequenceNumbers
  <2>2. rt' \in RT!Buffers
    BY <1>3 DEF RTHolds
  <2>3. txPc' = "acks"
    BY <1>1, <1>3
  <2> QED
    BY <1>1, <1>2, <2>1, <2>2, <2>3 DEF IInv, TypeOK, TransmitterTypeOK
<1>9. /\ endOfTxAcked_' => accepted > NumPackets
      /\ txPc' # "terminated"
  BY <1>1, <1>3 DEF IInv, EndOfTx
<1>10. \A k \in DOMAIN txAckQueue' : AckBelow(txAckQueue'[k], acknowledged)
  BY <1>1, AcksBelow
<1>11. IsRun(inputPackets_', transmitted + 1, nextSubmit')
  BY <1>1, <1>2
<1> QED
  BY <1>1, <1>3, <1>5, <1>6, <1>7, <1>8, <1>9, <1>10, <1>11, TransmitterKeeps

(* Reading an acknowledgement keeps the invariant: what it releases has    *)
(* been accepted, and if it is the EoT's so has everything.                *)
LEMMA ProcessAckStep ==
  ASSUME IInv, processAckQueue, UNCHANGED rxVars
  PROVE  IInv'
<1> DEFINE sn == Head(txAckQueue)
           eot == acksEndOfTx(sn)
<1>1. /\ txAckQueue # <<>> /\ txAckQueue' = Tail(txAckQueue)
      /\ endOfTxAcked_' = (endOfTxAcked_ \/ eot)
      /\ rt' = IF eot THEN rt ELSE RT!acknowledgePacket(rt, sn)
      /\ txPc' = IF eot THEN "exited" ELSE "acks"
      /\ UNCHANGED <<nextSubmit, inputPackets_, endOfTxSeqNum_, txAckPc,
                     dataChannel, ackChannel>>
  BY DEF processAckQueue
<1>2. /\ sn \in SequenceNumbers /\ AckBelow(sn, acknowledged)
      /\ txAckQueue' \in Seq(SequenceNumbers)
      /\ \A k \in DOMAIN txAckQueue' : AckBelow(txAckQueue'[k], acknowledged)
  BY <1>1, AcksBelow, HeadBelow
<1>3. /\ released \in Int /\ transmitted \in Nat /\ released <= acknowledged
      /\ acknowledged \in Nat /\ accepted \in Nat /\ acknowledged <= accepted
      /\ RTHolds(rt, released, transmitted) /\ transmitted <= NumPackets + 1
      /\ accepted <= transmitted \/ (RollsOver /\ transmitted = NumPackets + 1)
      /\ SelectiveRepeat => accepted <= transmitted
      /\ IsRun(inputPackets_, transmitted, nextSubmit)
      /\ sn \in Int
  BY <1>2, Numbers, ConstantTypes DEF SequenceNumbers
<1>4. eot <=> transmitted = NumPackets + 1 /\ sn = NumPackets
  BY <1>3, ConstantTypes DEF IInv, EndOfTx, acksEndOfTx
<1> HIDE DEF sn, eot
<1>5. eot => accepted > NumPackets
  BY <1>2, <1>3, <1>4, EndOfTxAccepted, ConstantTypes
<1>6. \E i \in Int : i <= acknowledged /\ RTHolds(rt', i, transmitted)
  <2>1. CASE eot
    BY <1>1, <1>3, <2>1
  <2>2. CASE ~ eot
    <3>1. \/ sn < transmitted /\ sn # NumPackets
          \/ SelectiveRepeat /\ sn = SeqNumModulus - 1
      <4>1. CASE sn < acknowledged
        <5>1. sn \in 0 .. SeqNumModulus - 1 /\ NumPackets + 1 <= SeqNumModulus
              /\ SeqNumModulus \in Nat /\ NumPackets \in Nat
          BY <1>2, ConstantTypes DEF SequenceNumbers
        <5>2. CASE accepted <= transmitted
          BY <1>3, <1>4, <2>2, <4>1, <5>1, <5>2
        <5>3. CASE RollsOver /\ transmitted = NumPackets + 1
          BY <1>3, <1>4, <2>2, <4>1, <5>1, <5>3 DEF RollsOver
        <5> QED
          BY <1>3, <5>2, <5>3
      <4> QED
        BY <1>2, <4>1 DEF AckBelow
    <3>2. PICK i2 \in released .. transmitted :
            /\ RTHolds(RT!acknowledgePacket(rt, sn), i2, transmitted)
            /\ i2 = released \/ (sn < transmitted /\ i2 = sn + 1)
      BY <1>2, <1>3, <3>1, RTAcknowledge
    <3>3. i2 <= acknowledged /\ i2 \in Int
      <4>1. CASE i2 = released
        BY <1>3, <4>1
      <4>2. CASE sn < transmitted /\ i2 = sn + 1
        <5>1. sn < acknowledged
          BY <1>2, <1>3, <4>2, ConstantTypes DEF AckBelow
        <5> QED
          BY <1>3, <4>2, <5>1
      <4> QED
        BY <3>2, <4>1, <4>2
    <3> QED
      BY <1>1, <2>2, <3>2, <3>3
  <2> QED
    BY <2>1, <2>2
<1>7. PICK i \in Int : i <= acknowledged /\ RTHolds(rt', i, transmitted)
  BY <1>6
<1>8. TransmitterTypeOK'
  <2>1. rt' \in RT!Buffers
    BY <1>7 DEF RTHolds
  <2>2. txPc' \in {"exited", "acks"}
    BY <1>1
  <2>3. endOfTxAcked_' \in BOOLEAN
    BY <1>1, <1>4 DEF IInv, TypeOK, TransmitterTypeOK
  <2> QED
    BY <1>1, <1>2, <2>1, <2>2, <2>3 DEF IInv, TypeOK, TransmitterTypeOK
<1>9. /\ dataChannel' \subseteq Packets
      /\ \A p \in dataChannel' : p < transmitted
      /\ endOfTxSeqNum_' = IF transmitted = NumPackets + 1 THEN NumPackets ELSE None
      /\ endOfTxAcked_' => accepted > NumPackets
      /\ txPc' # "terminated"
  BY <1>1, <1>5, Numbers DEF IInv, InFlight, EndOfTx
<1> QED
  BY <1>1, <1>2, <1>3, <1>7, <1>8, <1>9, TransmitterKeeps

(* Receiving an acknowledgement keeps the invariant.                       *)
LEMMA ReceiveAckStep ==
  ASSUME IInv, NEW sn \in SequenceNumbers, receiveAck(sn), UNCHANGED rxVars
  PROVE  IInv'
<1>1. /\ sn \in ackChannel /\ ackChannel' \subseteq ackChannel
      /\ txAckQueue' = Append(txAckQueue, sn)
      /\ txAckPc' = "loop"
      /\ UNCHANGED <<nextSubmit, inputPackets_, rt, endOfTxSeqNum_,
                     endOfTxAcked_, txPc, dataChannel>>
  BY ArrivalTakes DEF receiveAck, txThreadVars
<1>2. /\ txAckQueue' \in Seq(SequenceNumbers)
      /\ \A k \in DOMAIN txAckQueue' : AckBelow(txAckQueue'[k], acknowledged)
  BY <1>1, AcksBelow, AppendBelow
<1> QED
  BY <1>1, <1>2, TransmitterIdleStep

(* Every step of the transmitter keeps the invariant.                      *)
LEMMA TransmitterStepIInv ==
  ASSUME IInv, TransmitterStep
  PROVE  IInv'
<1> USE DEF TransmitterStep
<1> DEFINE Rest == UNCHANGED <<nextSubmit, inputPackets_, rt, endOfTxSeqNum_,
                               endOfTxAcked_, txAckQueue, dataChannel, ackChannel>>
<1>1. /\ txAckQueue \in Seq(SequenceNumbers)
      /\ \A k \in DOMAIN txAckQueue : AckBelow(txAckQueue[k], acknowledged)
      /\ txAckPc \in {"loop", "recv", "exited"}
  BY AcksBelow DEF IInv, TypeOK, TransmitterTypeOK
<1>2. CASE sendPacket
  BY <1>2, SendPacketStep
<1>3. CASE transmitThread
  <2>1. ASSUME NEW timedOut \in SUBSET RT!Held(rt),
               attemptPacketRetransmission(timedOut)
        PROVE  IInv'
    BY <2>1, RetransmissionStep
  <2>2. CASE attemptNewPacketTransmission
    BY <2>2, NewTransmissionStep
  <2>3. CASE nothingToTransmit
    <3>1. Rest /\ txAckPc' = txAckPc /\ txPc' = "acks"
      BY <2>3 DEF nothingToTransmit
    <3> QED
      BY <1>1, <3>1, TransmitterIdleStep
  <2>4. CASE processAckQueue
    BY <2>4, ProcessAckStep
  <2>5. CASE ackQueueProcessed
    <3>1. Rest /\ txAckPc' = txAckPc /\ txPc' = "send"
      BY <2>5 DEF ackQueueProcessed
    <3> QED
      BY <1>1, <3>1, TransmitterIdleStep
  <2> QED
    BY <1>3, <2>1, <2>2, <2>3, <2>4, <2>5 DEF transmitThread
<1>4. CASE TxAckThread(ReceiverDone)
  <2>1. CASE ackThreadLoop
    <3>1. Rest /\ txAckPc' \in {"exited", "recv"} /\ txPc' = txPc
      BY <2>1 DEF ackThreadLoop, txThreadVars
    <3> QED
      BY <1>1, <3>1, TransmitterIdleStep
  <2>2. ASSUME NEW sn \in SequenceNumbers, receiveAck(sn)
        PROVE  IInv'
    BY <2>2, ReceiveAckStep
  <2>3. CASE receiveNoAck(ReceiverDone)
    <3>1. Rest /\ txAckPc' = "loop" /\ txPc' = txPc
      BY <2>3 DEF receiveNoAck, txThreadVars
    <3> QED
      BY <1>1, <3>1, TransmitterIdleStep
  <2> QED
    BY <1>4, <2>1, <2>2, <2>3 DEF TxAckThread
<1> QED
  BY <1>2, <1>3, <1>4

(***************************************************************************)
(* The steps of the receiver.                                              *)
(***************************************************************************)
(* What the receiver's acknowledgements and queues are before a step.      *)
LEMMA ReceiverNow ==
  ASSUME IInv
  PROVE  /\ IsRun(taken, 0, Len(taken)) /\ IsRun(outputPackets_, Len(taken), delivered)
         /\ nextSequenceNumber_ = delivered % SeqNumModulus
         /\ acknowledged = IF SelectiveRepeat THEN rs.earliestExpected_ ELSE accepted
         /\ WindowSize < RSWindowSize => acknowledged = accepted
         /\ received # None => received < transmitted /\ received \in Packets
         /\ endOfTxSn_ \in {None, NumPackets}
         /\ ackedEndOfTx_ => accepted > NumPackets /\ rxAckPc = "exited"
         /\ (received = None) <=> (rxPc # "add")
         /\ (nextToAck = None) <=> (rxAckPc # "check")
         /\ RS!Waiting(rs) # {} => rxPc = "deliver"
         /\ rxPc = "exited" => ackedEndOfTx_
BY DEF IInv, Counts, Queues, InFlight, EndOfTx, acknowledged, TypeOK, ReceiverTypeOK

(* A step that changes neither the resequencing buffer nor what has been   *)
(* delivered.                                                              *)
LEMMA ReceiverIdleStep ==
  ASSUME IInv, UNCHANGED txVars, ReceiverTypeOK',
         UNCHANGED <<rs, nextSequenceNumber_, outputPackets_, taken>>,
         dataChannel' \subseteq dataChannel,
         ackChannel' \subseteq SequenceNumbers,
         received' # None => received' < transmitted,
         \A sn \in ackChannel' : AckBelow(sn, acknowledged),
         \A k \in DOMAIN rxAckQueue' : AckBelow(rxAckQueue'[k], acknowledged),
         nextToAck' # None => AckBelow(nextToAck', acknowledged),
         endOfTxSn_' \in {None, NumPackets},
         ackedEndOfTx_' => accepted > NumPackets /\ rxAckPc' = "exited",
         (received' = None) <=> (rxPc' # "add"),
         (nextToAck' = None) <=> (rxAckPc' # "check"),
         RS!Waiting(rs) # {} => rxPc' = "deliver",
         rxPc' = "exited" => ackedEndOfTx_'
  PROVE  ReceiverKept
<1>1. /\ delivered \in Nat /\ accepted \in Nat
      /\ RSHolds(rs', delivered, accepted, transmitted)
      /\ accepted <= accepted
      /\ accepted <= transmitted \/ (RollsOver /\ transmitted = NumPackets + 1)
      /\ acknowledged \in Nat /\ acknowledged <= acknowledged
  BY Numbers
<1>2. /\ IsRun(taken', 0, Len(taken')) /\ IsRun(outputPackets_', Len(taken'), delivered)
      /\ nextSequenceNumber_' = delivered % SeqNumModulus
      /\ acknowledged = IF SelectiveRepeat THEN rs'.earliestExpected_ ELSE accepted
      /\ WindowSize < RSWindowSize => acknowledged = accepted
  BY ReceiverNow
<1>3. /\ SelectiveRepeat => acknowledged <= rs'.earliestExpected_
      /\ SelectiveRepeat /\ WindowSize < RSWindowSize => rs'.earliestExpected_ = accepted
  BY <1>1, <1>2
<1>4. RS!Waiting(rs') # {} => rxPc' = "deliver"
  OBVIOUS
<1> QED
  BY <1>1, <1>2, <1>3, <1>4, ReceiverKeeps

(* A step in which resequencingThread only goes on to its next place.      *)
LEMMA ResequencingIdleStep ==
  ASSUME IInv,
         UNCHANGED <<rs, received, endOfTxSn_, ackedEndOfTx_, rxAckQueue,
                     nextSequenceNumber_, outputPackets_, taken, rxAckPc, nextToAck,
                     txVars, dataChannel, ackChannel>>,
         rxPc # "add", rxPc' \in {"loop", "recv", "deliver", "exited"},
         RS!Waiting(rs) # {} => rxPc' = "deliver",
         rxPc' = "exited" => ackedEndOfTx_
  PROVE  ReceiverKept
<1>1. ReceiverTypeOK'
  BY DEF IInv, TypeOK, ReceiverTypeOK
<1>2. /\ dataChannel' \subseteq dataChannel /\ ackChannel' \subseteq SequenceNumbers
      /\ \A sn \in ackChannel' : AckBelow(sn, acknowledged)
      /\ \A k \in DOMAIN rxAckQueue' : AckBelow(rxAckQueue'[k], acknowledged)
      /\ nextToAck' # None => AckBelow(nextToAck', acknowledged)
  BY AcksBelow, Numbers
<1>3. /\ received' # None => received' < transmitted
      /\ endOfTxSn_' \in {None, NumPackets}
      /\ ackedEndOfTx_' => accepted > NumPackets /\ rxAckPc' = "exited"
      /\ (received' = None) <=> (rxPc' # "add")
      /\ (nextToAck' = None) <=> (rxAckPc' # "check")
  BY ReceiverNow
<1> QED
  BY <1>1, <1>2, <1>3, ReceiverIdleStep

(* Receiving a packet keeps the invariant.                                 *)
LEMMA ReceivePacketStep ==
  ASSUME IInv, NEW p \in Packets, receivePacket(p), UNCHANGED txVars
  PROVE  ReceiverKept
<1>1. /\ p \in dataChannel /\ dataChannel' \subseteq dataChannel
      /\ rxPc = "recv" /\ rxPc' = "add"
      /\ received' = p
      /\ endOfTxSn_' = IF isEndOfTx(p) THEN SeqNum(p) ELSE endOfTxSn_
      /\ UNCHANGED <<rs, ackedEndOfTx_, rxAckQueue, nextSequenceNumber_,
                     outputPackets_, taken, rxAckPc, nextToAck, ackChannel>>
  BY ArrivalTakes DEF receivePacket
<1>2. /\ endOfTxSn_' \in SequenceNumbers \cup {None}
      /\ endOfTxSn_' \in {None, NumPackets}
  BY <1>1, SeqNumIsPosition, ReceiverNow
     DEF isEndOfTx, IInv, TypeOK, ReceiverTypeOK
<1>3. received' # None /\ received' < transmitted
  BY <1>1, ConstantTypes DEF Packets, IInv, InFlight
<1>4. ReceiverTypeOK'
  BY <1>1, <1>2 DEF IInv, TypeOK, ReceiverTypeOK
<1>5. /\ ackChannel' \subseteq SequenceNumbers
      /\ \A sn \in ackChannel' : AckBelow(sn, acknowledged)
      /\ \A k \in DOMAIN rxAckQueue' : AckBelow(rxAckQueue'[k], acknowledged)
      /\ nextToAck' # None => AckBelow(nextToAck', acknowledged)
  BY <1>1, AcksBelow, Numbers
<1>6. /\ ackedEndOfTx_' => accepted > NumPackets /\ rxAckPc' = "exited"
      /\ (received' = None) <=> (rxPc' # "add")
      /\ (nextToAck' = None) <=> (rxAckPc' # "check")
      /\ RS!Waiting(rs) # {} => rxPc' = "deliver"
      /\ rxPc' = "exited" => ackedEndOfTx_'
  BY <1>1, <1>3, ReceiverNow
<1> QED
  BY <1>1, <1>2, <1>3, <1>4, <1>5, <1>6, ReceiverIdleStep

(* Feeding a packet to the resequencing buffer keeps the invariant: the    *)
(* acknowledgement it returns is true, or selective repeat's of packet -1. *)
LEMMA ResequenceStep ==
  ASSUME IInv, resequencePacket, UNCHANGED txVars
  PROVE  ReceiverKept
<1>1. PICK result : result = RS!addPacket(rs, received)
  OBVIOUS
<1>2. /\ rxPc = "add" /\ rxPc' = "deliver"
      /\ rs' = result.rs
      /\ rxAckQueue' = IF result.ack = None THEN rxAckQueue
                       ELSE Append(rxAckQueue, result.ack)
      /\ received' = None
      /\ UNCHANGED <<endOfTxSn_, ackedEndOfTx_, nextSequenceNumber_,
                     outputPackets_, taken, rxAckPc, nextToAck,
                     dataChannel, ackChannel>>
  BY <1>1 DEF resequencePacket
<1>3. /\ received \in Packets /\ received < transmitted
      /\ RS!Waiting(rs) = {}
  BY <1>2, ReceiverNow
<1>4. delivered = accepted /\ RSHolds(rs, accepted, accepted, transmitted)
  <2>1. /\ delivered \in Nat /\ accepted \in Nat
        /\ RSHolds(rs, delivered, accepted, transmitted)
    BY Numbers
  <2>2. accepted = delivered
    BY <1>3, <2>1, WaitingIs
  <2> QED
    BY <2>1, <2>2
<1>5. /\ accepted \in Nat /\ acknowledged \in Nat /\ acknowledged <= accepted
      /\ transmitted \in 0 .. NumPackets + 1
      /\ accepted <= transmitted \/ (RollsOver /\ transmitted = NumPackets + 1)
      /\ transmitted <= released + WindowSize /\ released <= acknowledged
      /\ released \in Int
  BY Numbers, ConstantTypes
<1>6. PICK a \in Nat :
        /\ RSHolds(result.rs, accepted, a, transmitted)
        /\ a <= transmitted \/ (RollsOver /\ transmitted = NumPackets + 1)
        /\ result.ack # None => result.ack \in SequenceNumbers
        /\ ~ SelectiveRepeat => (result.ack # None => result.ack < a)
        /\ SelectiveRepeat =>
             /\ rs.earliestExpected_ <= result.rs.earliestExpected_
             /\ rs.earliestExpected_ = accepted =>
                  \/ result.rs.earliestExpected_ = a
                  \/ accepted + RSWindowSize <= transmitted
             /\ result.ack # None =>
                  \/ result.ack < result.rs.earliestExpected_
                  \/ result.ack = SeqNumModulus - 1
  BY <1>1, <1>3, <1>4, <1>5, RSAdd
<1>7. accepted <= a
  BY <1>5, <1>6, WaitingIs
<1>8. PICK e : e = IF SelectiveRepeat THEN rs'.earliestExpected_ ELSE a
  OBVIOUS
<1>9. e \in Nat /\ acknowledged <= e
  <2>1. CASE SelectiveRepeat
    BY <1>2, <1>6, <1>8, <2>1, RSExpects, ReceiverNow
  <2>2. CASE ~ SelectiveRepeat
    BY <1>6, <1>7, <1>8, <2>2, ReceiverNow
  <2> QED
    BY <2>1, <2>2
<1>10. /\ SelectiveRepeat => acknowledged <= rs'.earliestExpected_
       /\ SelectiveRepeat /\ WindowSize < RSWindowSize => rs'.earliestExpected_ = a
  <2>1. SelectiveRepeat => acknowledged = rs.earliestExpected_
    BY ReceiverNow
  <2>2. WindowSize < RSWindowSize =>
          acknowledged = accepted /\ ~ (accepted + RSWindowSize <= transmitted)
    BY <1>5, ReceiverNow, ConstantTypes
  <2> QED
    BY <1>2, <1>6, <2>1, <2>2
<1>11. result.ack # None => result.ack \in SequenceNumbers /\ AckBelow(result.ack, e)
  BY <1>2, <1>6, <1>8 DEF AckBelow
<1>12. /\ rxAckQueue' \in Seq(SequenceNumbers)
       /\ \A k \in DOMAIN rxAckQueue' : AckBelow(rxAckQueue'[k], e)
  <2>1. /\ rxAckQueue \in Seq(SequenceNumbers)
        /\ \A k \in DOMAIN rxAckQueue : AckBelow(rxAckQueue[k], e)
    <3>1. rxAckQueue \in Seq(SequenceNumbers)
      BY AcksBelow
    <3>2. ASSUME NEW k \in DOMAIN rxAckQueue
          PROVE  AckBelow(rxAckQueue[k], e)
      <4>1. rxAckQueue[k] \in SequenceNumbers /\ AckBelow(rxAckQueue[k], acknowledged)
        BY <3>1, AcksBelow
      <4> QED
        BY <1>5, <1>9, <4>1, StillBelow
    <3> QED
      BY <3>1, <3>2
  <2>2. CASE result.ack = None
    BY <1>2, <2>1, <2>2
  <2>3. CASE result.ack # None
    BY <1>2, <1>11, <2>1, <2>3, AppendBelow
  <2> QED
    BY <2>2, <2>3
<1>13. /\ ackChannel' \subseteq SequenceNumbers
       /\ \A sn \in ackChannel' : AckBelow(sn, e)
       /\ nextToAck' # None => AckBelow(nextToAck', e)
  BY <1>2, <1>5, <1>9, Numbers, AcksBelow, StillBelow
<1>14. ReceiverTypeOK'
  <2>1. rs' \in RS!Buffers
    BY <1>2, <1>6 DEF RSHolds
  <2> QED
    BY <1>2, <1>12, <2>1 DEF IInv, TypeOK, ReceiverTypeOK
<1>15. /\ IsRun(taken', 0, Len(taken')) /\ IsRun(outputPackets_', Len(taken'), accepted)
       /\ nextSequenceNumber_' = accepted % SeqNumModulus
       /\ endOfTxSn_' \in {None, NumPackets}
       /\ (nextToAck' = None) <=> (rxAckPc' # "check")
       /\ dataChannel' \subseteq dataChannel
  BY <1>2, <1>4, ReceiverNow
<1>16. ackedEndOfTx_' => a > NumPackets /\ rxAckPc' = "exited"
  BY <1>2, <1>5, <1>6, <1>7, ReceiverNow, ConstantTypes
<1>17. RSHolds(rs', accepted, a, transmitted)
  BY <1>2, <1>6
<1>18. /\ received' # None => received' < transmitted
       /\ (received' = None) <=> (rxPc' # "add")
       /\ RS!Waiting(rs') # {} => rxPc' = "deliver"
       /\ rxPc' = "exited" => ackedEndOfTx_'
  BY <1>2
<1> QED
  BY <1>5, <1>6, <1>7, <1>8, <1>10, <1>12, <1>13, <1>14, <1>15, <1>16, <1>17, <1>18,
     ReceiverKeeps

(* Delivering a packet to the output buffer keeps the invariant: the       *)
(* output buffer takes the packet in its next position and no other.       *)
LEMMA DeliverStep ==
  ASSUME IInv, deliverPacket, UNCHANGED txVars
  PROVE  ReceiverKept
<1>1. PICK result : result = RS!getNextPacket(rs)
  OBVIOUS
<1> DEFINE p == result.packet
<1>2. /\ rxPc = "deliver" /\ p # None
      /\ rs' = result.rs
      /\ inOutputSequence(p) =>
           /\ nextSequenceNumber_' = (nextSequenceNumber_ + 1) % SeqNumModulus
           /\ outputPackets_' = Append(outputPackets_, p)
      /\ ~ inOutputSequence(p) => UNCHANGED <<nextSequenceNumber_, outputPackets_>>
      /\ UNCHANGED <<received, endOfTxSn_, ackedEndOfTx_, rxAckQueue, taken,
                     rxPc, rxAckPc, nextToAck, dataChannel, ackChannel>>
  BY <1>1 DEF deliverPacket
<1>3. /\ delivered \in Nat /\ accepted \in Nat /\ acknowledged \in Nat
      /\ RSHolds(rs, delivered, accepted, transmitted)
      /\ RollsOver \/ accepted <= NumPackets + 1
      /\ accepted <= accepted
      /\ accepted <= transmitted \/ (RollsOver /\ transmitted = NumPackets + 1)
  BY Numbers
<1>4. /\ p \in Packets
      /\ \/ /\ SeqNum(p) = delivered % SeqNumModulus
            /\ p = PacketAt(delivered)
            /\ RSHolds(rs', delivered + 1, accepted, transmitted)
         \/ /\ SeqNum(p) # delivered % SeqNumModulus
            /\ RSHolds(rs', delivered, accepted, transmitted)
      /\ SelectiveRepeat => rs'.earliestExpected_ = rs.earliestExpected_
  BY <1>1, <1>2, <1>3, RSNext
<1> HIDE DEF p
<1>5. \E n \in Nat :
        /\ IsRun(outputPackets_', Len(taken), n)
        /\ outputPackets_' \in Seq(Packets)
        /\ nextSequenceNumber_' = n % SeqNumModulus
        /\ RSHolds(rs', n, accepted, transmitted)
  <2>1. /\ nextSequenceNumber_ = delivered % SeqNumModulus
        /\ IsRun(outputPackets_, Len(taken), delivered)
        /\ outputPackets_ \in Seq(Packets) /\ Len(taken) \in Int
    BY ReceiverNow DEF IInv, TypeOK, ReceiverTypeOK
  <2>2. CASE SeqNum(p) = delivered % SeqNumModulus
    <3>1. inOutputSequence(p)
      BY <2>1, <2>2 DEF inOutputSequence
    <3>2. p = PacketAt(delivered) /\ RSHolds(rs', delivered + 1, accepted, transmitted)
      BY <1>4, <2>2
    <3>3. (nextSequenceNumber_ + 1) % SeqNumModulus = (delivered + 1) % SeqNumModulus
      BY <1>3, <2>1, Counter
    <3>4. /\ Append(outputPackets_, p) \in Seq(Packets)
          /\ IsRun(Append(outputPackets_, p), Len(taken), delivered + 1)
      BY <1>3, <1>4, <2>1, <3>2, RunAppend
    <3>5. delivered + 1 \in Nat
      BY <1>3
    <3> QED
      BY <1>2, <3>1, <3>2, <3>3, <3>4, <3>5
  <2>3. CASE SeqNum(p) # delivered % SeqNumModulus
    <3>1. ~ inOutputSequence(p)
      BY <2>1, <2>3 DEF inOutputSequence
    <3>2. RSHolds(rs', delivered, accepted, transmitted)
      BY <1>4, <2>3
    <3> QED
      BY <1>2, <1>3, <2>1, <3>1, <3>2
  <2> QED
    BY <2>2, <2>3
<1>6. PICK n \in Nat :
        /\ IsRun(outputPackets_', Len(taken), n)
        /\ outputPackets_' \in Seq(Packets)
        /\ nextSequenceNumber_' = n % SeqNumModulus
        /\ RSHolds(rs', n, accepted, transmitted)
  BY <1>5
<1>7. ReceiverTypeOK'
  <2>1. rs' \in RS!Buffers
    BY <1>6 DEF RSHolds
  <2>2. nextSequenceNumber_' \in SequenceNumbers
    BY <1>6, Counter
  <2> QED
    BY <1>2, <1>6, <2>1, <2>2 DEF IInv, TypeOK, ReceiverTypeOK
<1>8. /\ IsRun(taken', 0, Len(taken')) /\ IsRun(outputPackets_', Len(taken'), n)
      /\ acknowledged = IF SelectiveRepeat THEN rs'.earliestExpected_ ELSE accepted
      /\ SelectiveRepeat => acknowledged <= rs'.earliestExpected_
      /\ SelectiveRepeat /\ WindowSize < RSWindowSize => rs'.earliestExpected_ = accepted
  BY <1>2, <1>3, <1>4, <1>6, ReceiverNow
<1>9. /\ dataChannel' \subseteq dataChannel /\ ackChannel' \subseteq SequenceNumbers
      /\ \A sn \in ackChannel' : AckBelow(sn, acknowledged)
      /\ \A k \in DOMAIN rxAckQueue' : AckBelow(rxAckQueue'[k], acknowledged)
      /\ nextToAck' # None => AckBelow(nextToAck', acknowledged)
  BY <1>2, AcksBelow, Numbers
<1>10. /\ received' # None => received' < transmitted
       /\ endOfTxSn_' \in {None, NumPackets}
       /\ ackedEndOfTx_' => accepted > NumPackets /\ rxAckPc' = "exited"
       /\ (received' = None) <=> (rxPc' # "add")
       /\ (nextToAck' = None) <=> (rxAckPc' # "check")
       /\ RS!Waiting(rs') # {} => rxPc' = "deliver"
       /\ rxPc' = "exited" => ackedEndOfTx_'
  BY <1>2, ReceiverNow
<1> QED
  BY <1>3, <1>6, <1>7, <1>8, <1>9, <1>10, ReceiverKeeps

(* Sending an acknowledgement keeps the invariant.                         *)
LEMMA SendAckStep ==
  ASSUME IInv, sendAck, UNCHANGED txVars
  PROVE  ReceiverKept
<1> DEFINE sn == Head(rxAckQueue)
<1>1. /\ rxAckQueue # <<>> /\ rxAckQueue' = Tail(rxAckQueue)
      /\ nextToAck' = sn /\ ackChannel' \subseteq ackChannel \cup {sn}
      /\ rxAckPc = "pop" /\ rxAckPc' = "check"
      /\ UNCHANGED <<rs, received, endOfTxSn_, ackedEndOfTx_,
                     nextSequenceNumber_, outputPackets_, taken, rxPc,
                     dataChannel>>
  BY SentAdds DEF sendAck
<1>2. /\ sn \in SequenceNumbers /\ AckBelow(sn, acknowledged)
      /\ rxAckQueue' \in Seq(SequenceNumbers)
      /\ \A k \in DOMAIN rxAckQueue' : AckBelow(rxAckQueue'[k], acknowledged)
  BY <1>1, AcksBelow, HeadBelow
<1> HIDE DEF sn
<1>3. sn # None
  BY <1>2, ConstantTypes DEF SequenceNumbers
<1>4. ReceiverTypeOK'
  BY <1>1, <1>2 DEF IInv, TypeOK, ReceiverTypeOK
<1>5. /\ dataChannel' \subseteq dataChannel /\ ackChannel' \subseteq SequenceNumbers
      /\ \A m \in ackChannel' : AckBelow(m, acknowledged)
      /\ nextToAck' # None => AckBelow(nextToAck', acknowledged)
  BY <1>1, <1>2, AcksBelow, Numbers
<1>6. /\ received' # None => received' < transmitted
      /\ endOfTxSn_' \in {None, NumPackets}
      /\ ackedEndOfTx_' => accepted > NumPackets /\ rxAckPc' = "exited"
      /\ (received' = None) <=> (rxPc' # "add")
      /\ (nextToAck' = None) <=> (rxAckPc' # "check")
      /\ RS!Waiting(rs) # {} => rxPc' = "deliver"
      /\ rxPc' = "exited" => ackedEndOfTx_'
  BY <1>1, <1>3, ReceiverNow
<1> QED
  BY <1>1, <1>2, <1>4, <1>5, <1>6, ReceiverIdleStep

(* Comparing it with the EoT's number keeps the invariant: if they are     *)
(* equal, every packet has been accepted.                                  *)
LEMMA CheckEndOfTxStep ==
  ASSUME IInv, checkEndOfTx, UNCHANGED txVars
  PROVE  ReceiverKept
<1>1. /\ rxAckPc = "check" /\ nextToAck' = None
      /\ ackedEndOfTx_' = sentLastAck
      /\ rxAckPc' = IF sentLastAck THEN "exited" ELSE "pop"
      /\ UNCHANGED <<rs, received, endOfTxSn_, rxAckQueue, nextSequenceNumber_,
                     outputPackets_, taken, rxPc, dataChannel, ackChannel>>
  BY DEF checkEndOfTx
<1>2. sentLastAck => accepted > NumPackets
  <2>1. /\ nextToAck # None /\ AckBelow(nextToAck, acknowledged)
        /\ endOfTxSn_ \in {None, NumPackets}
    BY <1>1, ReceiverNow, AcksBelow
  <2>2. sentLastAck => nextToAck = NumPackets
    BY <2>1 DEF sentLastAck
  <2>3. sentLastAck => acknowledged > NumPackets
    BY <2>1, <2>2, Numbers, EndOfTxAccepted
  <2> QED
    BY <2>3, Numbers, ConstantTypes
<1>3. ~ ackedEndOfTx_ /\ rxPc # "exited"
  BY <1>1, ReceiverNow
<1>4. ReceiverTypeOK'
  BY <1>1 DEF IInv, TypeOK, ReceiverTypeOK, sentLastAck
<1>5. /\ dataChannel' \subseteq dataChannel /\ ackChannel' \subseteq SequenceNumbers
      /\ \A sn \in ackChannel' : AckBelow(sn, acknowledged)
      /\ \A k \in DOMAIN rxAckQueue' : AckBelow(rxAckQueue'[k], acknowledged)
      /\ nextToAck' # None => AckBelow(nextToAck', acknowledged)
  BY <1>1, AcksBelow, Numbers
<1>6. /\ received' # None => received' < transmitted
      /\ endOfTxSn_' \in {None, NumPackets}
      /\ ackedEndOfTx_' => accepted > NumPackets /\ rxAckPc' = "exited"
      /\ (received' = None) <=> (rxPc' # "add")
      /\ (nextToAck' = None) <=> (rxAckPc' # "check")
      /\ RS!Waiting(rs) # {} => rxPc' = "deliver"
      /\ rxPc' = "exited" => ackedEndOfTx_'
  BY <1>1, <1>2, <1>3, ReceiverNow
<1> QED
  BY <1>1, <1>4, <1>5, <1>6, ReceiverIdleStep

(* The packet that the application takes is the next one.                  *)
LEMMA TakesNext ==
  ASSUME IInv, tryGetPacket
  PROVE  /\ taken' = Append(taken, PacketAt(Len(taken)))
         /\ Len(taken') = Len(taken) + 1 /\ Len(taken) \in Nat
         /\ Len(taken) < delivered
         /\ taken' \in Seq(Packets) /\ IsRun(taken', 0, Len(taken'))
         /\ outputPackets_' \in Seq(Packets)
         /\ IsRun(outputPackets_', Len(taken'), delivered)
<1>1. /\ outputPackets_ # <<>> /\ outputPackets_' = Tail(outputPackets_)
      /\ taken' = Append(taken, Head(outputPackets_))
  BY DEF tryGetPacket
<1>2. /\ outputPackets_ \in Seq(Packets) /\ taken \in Seq(Packets)
      /\ Len(taken) \in Nat /\ Len(taken) \in Int /\ delivered \in Int
      /\ IsRun(taken, 0, Len(taken)) /\ IsRun(outputPackets_, Len(taken), delivered)
  <2>1. outputPackets_ \in Seq(Packets) /\ taken \in Seq(Packets)
    BY DEF IInv, TypeOK, ReceiverTypeOK
  <2> QED
    BY <2>1, Numbers, ReceiverNow
<1>3. /\ Head(outputPackets_) = PacketAt(Len(taken)) /\ Head(outputPackets_) \in Packets
      /\ Len(taken) < delivered
      /\ Tail(outputPackets_) \in Seq(Packets)
      /\ IsRun(Tail(outputPackets_), Len(taken) + 1, delivered)
  BY <1>1, <1>2, RunTail
<1>4. Len(taken') = Len(taken) + 1
  BY <1>1, <1>2, <1>3
<1>5. taken' \in Seq(Packets) /\ IsRun(taken', 0, Len(taken) + 1)
  <2>1. 0 \in Int
    OBVIOUS
  <2> QED
    BY <1>1, <1>2, <1>3, <2>1, RunAppend
<1> QED
  BY <1>1, <1>2, <1>3, <1>4, <1>5

(* Taking a packet from the output buffer keeps the invariant.             *)
LEMMA TryGetPacketStep ==
  ASSUME IInv, tryGetPacket, UNCHANGED txVars
  PROVE  ReceiverKept
<1>1. UNCHANGED <<rs, received, endOfTxSn_, ackedEndOfTx_, rxAckQueue,
                  nextSequenceNumber_, rxPc, rxAckPc, nextToAck,
                  dataChannel, ackChannel>>
  BY DEF tryGetPacket
<1>2. /\ IsRun(taken', 0, Len(taken')) /\ IsRun(outputPackets_', Len(taken'), delivered)
      /\ taken' \in Seq(Packets) /\ outputPackets_' \in Seq(Packets)
  BY TakesNext
<1>3. ReceiverTypeOK'
  BY <1>1, <1>2 DEF IInv, TypeOK, ReceiverTypeOK
<1>4. /\ delivered \in Nat /\ accepted \in Nat /\ acknowledged \in Nat
      /\ RSHolds(rs', delivered, accepted, transmitted)
      /\ accepted <= accepted
      /\ accepted <= transmitted \/ (RollsOver /\ transmitted = NumPackets + 1)
  BY <1>1, Numbers
<1>5. /\ nextSequenceNumber_' = delivered % SeqNumModulus
      /\ acknowledged = IF SelectiveRepeat THEN rs'.earliestExpected_ ELSE accepted
      /\ SelectiveRepeat => acknowledged <= rs'.earliestExpected_
      /\ SelectiveRepeat /\ WindowSize < RSWindowSize => rs'.earliestExpected_ = accepted
  BY <1>1, <1>4, ReceiverNow
<1>6. /\ dataChannel' \subseteq dataChannel /\ ackChannel' \subseteq SequenceNumbers
      /\ \A sn \in ackChannel' : AckBelow(sn, acknowledged)
      /\ \A k \in DOMAIN rxAckQueue' : AckBelow(rxAckQueue'[k], acknowledged)
      /\ nextToAck' # None => AckBelow(nextToAck', acknowledged)
  BY <1>1, AcksBelow, Numbers
<1>7. /\ received' # None => received' < transmitted
      /\ endOfTxSn_' \in {None, NumPackets}
      /\ ackedEndOfTx_' => accepted > NumPackets /\ rxAckPc' = "exited"
      /\ (received' = None) <=> (rxPc' # "add")
      /\ (nextToAck' = None) <=> (rxAckPc' # "check")
      /\ RS!Waiting(rs') # {} => rxPc' = "deliver"
      /\ rxPc' = "exited" => ackedEndOfTx_'
  BY <1>1, ReceiverNow
<1> QED
  BY <1>2, <1>3, <1>4, <1>5, <1>6, <1>7, ReceiverKeeps

(* Every step of the receiver keeps the invariant.                         *)
LEMMA ReceiverStepIInv ==
  ASSUME IInv, ReceiverStep
  PROVE  ReceiverKept
<1> USE DEF ReceiverStep
<1> DEFINE Rest == UNCHANGED <<rs, received, endOfTxSn_, ackedEndOfTx_, rxAckQueue,
                               nextSequenceNumber_, outputPackets_, taken, rxAckPc,
                               nextToAck, txVars, dataChannel, ackChannel>>
<1>1. CASE resequencingThread(TransmitterDone)
  <2>1. CASE resequencingLoop
    <3>1. /\ Rest /\ rxPc = "loop" /\ rxPc' \in {"exited", "recv"}
          /\ rxPc' = "exited" => ackedEndOfTx_
      BY <2>1 DEF resequencingLoop
    <3>2. RS!Waiting(rs) = {}
      BY <3>1, ReceiverNow
    <3> QED
      BY <3>1, <3>2, ResequencingIdleStep
  <2>2. ASSUME NEW p \in Packets, receivePacket(p)
        PROVE  ReceiverKept
    BY <2>2, ReceivePacketStep
  <2>3. CASE receiveNoPacket(TransmitterDone)
    <3>1. Rest /\ rxPc = "recv" /\ rxPc' = "deliver"
      BY <2>3 DEF receiveNoPacket
    <3> QED
      BY <3>1, ResequencingIdleStep
  <2>4. CASE resequencePacket
    BY <2>4, ResequenceStep
  <2>5. CASE deliverPacket
    BY <2>5, DeliverStep
  <2>6. CASE nothingToDeliver
    <3>1. /\ Rest /\ rxPc = "deliver" /\ rxPc' = "loop"
          /\ RS!getNextPacket(rs).packet = None
      BY <2>6 DEF nothingToDeliver
    <3>2. RS!Waiting(rs) = {}
      BY <3>1, Numbers, RSNext
    <3> QED
      BY <3>1, <3>2, ResequencingIdleStep
  <2> QED
    BY <1>1, <2>1, <2>2, <2>3, <2>4, <2>5, <2>6 DEF resequencingThread
<1>2. CASE RxAckThread
  BY <1>2, SendAckStep, CheckEndOfTxStep DEF RxAckThread
<1>3. CASE tryGetPacket
  BY <1>3, TryGetPacketStep
<1> QED
  BY <1>1, <1>2, <1>3

(***************************************************************************)
(* The invariant is inductive.                                             *)
(***************************************************************************)
(* A step in which nothing changes keeps it.                               *)
LEMMA StutterIInv ==
  ASSUME IInv, UNCHANGED vars
  PROVE  IInv'
<1>1. /\ UNCHANGED rxVars
      /\ UNCHANGED <<nextSubmit, inputPackets_, rt, endOfTxSeqNum_, endOfTxAcked_,
                     txAckQueue, txPc, txAckPc, dataChannel, ackChannel>>
  BY DEF vars, txVars
<1>2. /\ txAckQueue \in Seq(SequenceNumbers)
      /\ \A k \in DOMAIN txAckQueue : AckBelow(txAckQueue[k], acknowledged)
      /\ txAckPc \in {"loop", "recv", "exited"}
  BY AcksBelow DEF IInv, TypeOK, TransmitterTypeOK
<1> QED
  BY <1>1, <1>2, TransmitterIdleStep

(* Every step of the system keeps it.                                      *)
LEMMA NextIInv == IInv /\ [Next]_vars => IInv'
BY TransmitterStepIInv, ReceiverStepIInv, StutterIInv
   DEF Next, Terminated, ReceiverKept

(* The inductive invariant holds of every behaviour of the system, with    *)
(* each of the three protocols over UDP: the counts of packets submitted,  *)
(* transmitted, released, accepted, acknowledged and delivered stay in     *)
(* order, and the buffers hold what they say, whatever the network and the *)
(* five threads do.                                                        *)
THEOREM SystemInvariant == Spec => []IInv
BY InitIInv, NextIInv, PTL DEF Spec
==============================================================================
