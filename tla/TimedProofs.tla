----------------------------- MODULE TimedProofs -----------------------------
(***************************************************************************)
(* Theorems about the transmitter with its clock and its packets, for      *)
(* every protocol that retransmits, any number of packets, any window and  *)
(* any timeout.                                                            *)
(***************************************************************************)
EXTENDS TimedTransmitter, PacketProofs

(***************************************************************************)
(* The retransmission buffers: what is held, and what is due.              *)
(***************************************************************************)
GB == INSTANCE GoBackNRT

(* The constants are numbers of the expected ranges.                       *)
LEMMA TimedConstants ==
  /\ NumPackets \in Nat /\ None \notin Int
  /\ SeqNumModulus \in Nat \ {0} /\ SizeModulus \in Nat \ {0}
  /\ WindowSize \in Nat \ {0}
  /\ Timeout \in Nat
  /\ PayloadLength \in 1 .. MaxPayload
  /\ 1 \in Bytes /\ 1 \in IDs /\ IDModulus > 1
  /\ SequenceNumbers = Words
<1>1. SeqNumModulus = Base * Base /\ Base > 1 /\ IDModulus > 1
  BY TimedAssumption
<1> QED
  BY <1>1, TimedAssumption, NumPacketsAssumption, ModulusAssumption, NoneAssumption,
     WindowSizeAssumption, UnitAssumption, IDModulusAssumption
     DEF Bytes, IDs, SequenceNumbers, Words

(* The least element is one.                                               *)
LEMMA LeastIsElement ==
  ASSUME NEW S \in SUBSET Nat, S # {}
  PROVE  GB!Least(S) \in S
<1>1. \E i \in S : \A j \in S : i <= j
  BY SmallestExists
<1> QED
  BY <1>1 DEF GB!Least

(* Slots are slots.                                                        *)
LEMMA SlotType ==
  ASSUME NEW r \in GB!Buffers, NEW i \in Int
  PROVE  GB!Slot(r, i) \in GB!Slots
BY TimedConstants DEF GB!Slot, GB!Slots, GB!Buffers

(* The buffer with another array and another count.                        *)
LEMMA ChangedFields ==
  ASSUME NEW r \in GB!Buffers, NEW b, NEW c, NEW new,
         new = [r EXCEPT !.buffer_ = b, !.packetsInBuffer_ = c]
  PROVE  new = [buffer_ |-> b, startIdx_ |-> r.startIdx_,
                nextToAck_ |-> r.nextToAck_, packetsInBuffer_ |-> c]
BY DEF GB!Buffers

(* Adding a packet holds no other packet that was not held before.         *)
LEMMA WindowAdd ==
  ASSUME NEW r \in GB!Buffers, NEW p \in Packets
  PROVE  /\ GB!do_addPacket(r, p) \in GB!Buffers
         /\ GB!Held(GB!do_addPacket(r, p)) \subseteq GB!Held(r) \cup {p}
<1> DEFINE s == GB!Slot(r, GB!Least(GB!EmptyOffsets(r)))
           b == [r.buffer_ EXCEPT ![s] = p]
           c == (r.packetsInBuffer_ + 1) % SizeModulus
<1>1. CASE ~ GB!HasSpace(r)
  BY <1>1 DEF GB!do_addPacket
<1>2. CASE GB!HasSpace(r)
  <2>1. r = [buffer_ |-> r.buffer_, startIdx_ |-> r.startIdx_,
             nextToAck_ |-> r.nextToAck_, packetsInBuffer_ |-> r.packetsInBuffer_]
    BY DEF GB!Buffers
  <2>2. /\ r.buffer_ \in [GB!Slots -> Packets \cup {None}]
        /\ r.startIdx_ \in GB!Slots /\ r.nextToAck_ \in SequenceNumbers
        /\ r.packetsInBuffer_ \in 0 .. SizeModulus - 1
    BY DEF GB!Buffers, GB!Packets, GB!SequenceNumbers, Packets, SequenceNumbers
  <2>3. GB!do_addPacket(r, p) = [buffer_ |-> b, startIdx_ |-> r.startIdx_,
                                 nextToAck_ |-> r.nextToAck_, packetsInBuffer_ |-> c]
    <3>1. GB!do_addPacket(r, p) = [r EXCEPT !.buffer_[s] = p, !.packetsInBuffer_ = c]
      <4> HIDE DEF s, c
      <4> QED
        BY <1>2 DEF GB!do_addPacket, s, c
    <3>2. GB!do_addPacket(r, p) = [r EXCEPT !.buffer_ = b, !.packetsInBuffer_ = c]
      BY <3>1, Zenon
    <3> HIDE DEF b, c
    <3> QED
      BY <3>2, ChangedFields
  <2>4. c \in 0 .. SizeModulus - 1
    BY <2>2, TimedConstants
  <2>5. b \in [GB!Slots -> Packets \cup {None}]
    BY <2>2
  <2>6. \A t \in GB!Slots : b[t] = r.buffer_[t] \/ b[t] = p
    BY <2>2
  <2> HIDE DEF b, c
  <2>7. GB!do_addPacket(r, p) \in GB!Buffers
    BY <2>2, <2>3, <2>4, <2>5
       DEF GB!Buffers, GB!Packets, GB!SequenceNumbers, Packets, SequenceNumbers
  <2>8. GB!do_addPacket(r, p).buffer_ = b
    BY <2>3
  <2> QED
    BY <2>6, <2>7, <2>8 DEF GB!Held
<1> QED
  BY <1>1, <1>2

(* An acknowledgement only releases packets.                               *)
LEMMA WindowAcknowledge ==
  ASSUME NEW r \in GB!Buffers, NEW sn \in SequenceNumbers
  PROVE  /\ GB!do_acknowledgePacket(r, sn) \in GB!Buffers
         /\ GB!Held(GB!do_acknowledgePacket(r, sn)) \subseteq GB!Held(r)
<1> DEFINE acked == GB!AckedOffsets(r, sn)
           slots == {GB!Slot(r, i) : i \in acked}
           b == [s \in GB!Slots |-> IF s \in slots THEN None ELSE r.buffer_[s]]
           n == (sn + 1) % SeqNumModulus
           d == GB!Slot(r, sn + 1 - r.nextToAck_)
           c == (r.packetsInBuffer_ - GB!Cardinality(acked)) % SizeModulus
           new == [buffer_ |-> b, startIdx_ |-> d, nextToAck_ |-> n,
                   packetsInBuffer_ |-> c]
           refused == \/ sn >= r.nextToAck_ + WindowSize
                      \/ ~ GB!do_packetsPending(r)
                      \/ sn < r.nextToAck_
<1>1. GB!do_acknowledgePacket(r, sn) \in {r, new}
  <2>1. GB!do_acknowledgePacket(r, sn) = IF refused THEN r ELSE new
    BY Zenon DEF GB!do_acknowledgePacket
  <2> HIDE DEF refused, new
  <2> QED
    BY <2>1
<1>2. /\ r.buffer_ \in [GB!Slots -> Packets \cup {None}]
      /\ r.startIdx_ \in GB!Slots /\ r.nextToAck_ \in SequenceNumbers
      /\ r.packetsInBuffer_ \in 0 .. SizeModulus - 1
  BY DEF GB!Buffers, GB!Packets, GB!SequenceNumbers, Packets, SequenceNumbers
<1>3. b \in [GB!Slots -> Packets \cup {None}]
  <2> HIDE DEF slots
  <2> QED
    BY <1>2
<1>4. n \in SequenceNumbers
  BY TimedConstants DEF SequenceNumbers
<1>5. d \in GB!Slots
  <2>1. sn + 1 - r.nextToAck_ \in Int
    BY <1>2, TimedConstants DEF SequenceNumbers
  <2> QED
    BY <2>1, SlotType
<1>6. c \in 0 .. SizeModulus - 1
  <2>1. IsFiniteSet(0 .. WindowSize - 1)
    BY TimedConstants, FS_Interval
  <2>2. acked \in SUBSET (0 .. WindowSize - 1)
    BY DEF GB!AckedOffsets, GB!Slots
  <2>3. IsFiniteSet(acked)
    BY <2>1, <2>2, FS_Subset
  <2>4. GB!Cardinality(acked) \in Nat
    BY <2>3, FS_CardinalityType DEF GB!Cardinality, Cardinality
  <2> HIDE DEF acked
  <2> QED
    BY <1>2, <2>4, TimedConstants
<1>7. \A s \in GB!Slots : b[s] = r.buffer_[s] \/ b[s] = None
  <2> HIDE DEF slots
  <2> QED
    OBVIOUS
<1> HIDE DEF b, n, d, c
<1>8. new \in GB!Buffers /\ new.buffer_ = b
  BY <1>3, <1>4, <1>5, <1>6
     DEF GB!Buffers, GB!Packets, GB!SequenceNumbers, Packets, SequenceNumbers
<1>9. GB!Held(new) \subseteq GB!Held(r)
  BY <1>7, <1>8 DEF GB!Held
<1> QED
  BY <1>1, <1>8, <1>9

(* A packet that is due is one of those whose timeout has elapsed.         *)
LEMMA WindowDue ==
  ASSUME NEW r \in GB!Buffers, NEW T
  PROVE  GB!do_tryGetPacketSpan(r, T) \in T \cup {None}
<1> DEFINE due == {i \in GB!Slots : r.buffer_[GB!Slot(r, i)] \in T}
<1>1. CASE due = {}
  BY <1>1 DEF GB!do_tryGetPacketSpan
<1>2. CASE due # {}
  <2>1. due \in SUBSET Nat
    BY TimedConstants DEF GB!Slots
  <2>2. GB!Least(due) \in due
    <3> HIDE DEF due
    <3> QED
      BY <1>2, <2>1, LeastIsElement
  <2>3. r.buffer_[GB!Slot(r, GB!Least(due))] \in T
    BY <2>2
  <2> QED
    BY <2>3 DEF GB!do_tryGetPacketSpan
<1> QED
  BY <1>1, <1>2

(* The interface passes every call on to the buffer of the protocol; that  *)
(* of selective repeat is that of go-back-n.                               *)
LEMMA GoBackNCalls ==
  ASSUME Protocol = "go-back-n"
  PROVE
  /\ RT!Buffers = GB!Buffers
  /\ RT!Empty = GB!GoBackN
  /\ \A r : RT!Held(r) = GB!Held(r)
  /\ \A r, x : /\ RT!addPacket(r, x) = GB!do_addPacket(r, x)
               /\ RT!acknowledgePacket(r, x) = GB!do_acknowledgePacket(r, x)
               /\ RT!tryGetPacketSpan(r, x) = GB!do_tryGetPacketSpan(r, x)
BY ZenonT(60)
   DEF RT!Buffers, RT!Empty, RT!Held, RT!addPacket, RT!acknowledgePacket,
       RT!tryGetPacketSpan, RT!GBN!Buffers, RT!GBN!GoBackN, RT!GBN!Held,
       RT!GBN!do_addPacket, RT!GBN!do_acknowledgePacket,
       RT!GBN!do_tryGetPacketSpan, RT!GBN!Slots, RT!GBN!Slot,
       RT!GBN!EmptyOffsets, RT!GBN!HasSpace, RT!GBN!Least,
       RT!GBN!do_packetsPending, RT!GBN!AckedOffsets, RT!GBN!Packets,
       RT!GBN!SequenceNumbers, RT!GBN!Cardinality, GB!Buffers, GB!GoBackN,
       GB!Held, GB!do_addPacket, GB!do_acknowledgePacket,
       GB!do_tryGetPacketSpan, GB!Slots, GB!Slot, GB!EmptyOffsets,
       GB!HasSpace, GB!Least, GB!do_packetsPending, GB!AckedOffsets,
       GB!Packets, GB!SequenceNumbers, GB!Cardinality

(* The same of selective repeat.                                           *)
LEMMA SelectiveRepeatCalls ==
  ASSUME Protocol = "selective-repeat"
  PROVE
  /\ RT!Buffers = GB!Buffers
  /\ RT!Empty = GB!GoBackN
  /\ \A r : RT!Held(r) = GB!Held(r)
  /\ \A r, x : /\ RT!addPacket(r, x) = GB!do_addPacket(r, x)
               /\ RT!acknowledgePacket(r, x) = GB!do_acknowledgePacket(r, x)
               /\ RT!tryGetPacketSpan(r, x) = GB!do_tryGetPacketSpan(r, x)
BY ZenonT(60)
   DEF RT!Buffers, RT!Empty, RT!Held, RT!addPacket, RT!acknowledgePacket,
       RT!tryGetPacketSpan, RT!SR!Buffers, RT!SR!SelectiveRepeat, RT!SR!Held,
       RT!SR!do_addPacket, RT!SR!do_acknowledgePacket,
       RT!SR!do_tryGetPacketSpan, RT!SR!Window!Buffers, RT!SR!Window!GoBackN,
       RT!SR!Window!Held, RT!SR!Window!do_addPacket,
       RT!SR!Window!do_acknowledgePacket, RT!SR!Window!do_tryGetPacketSpan,
       RT!SR!Window!Slots, RT!SR!Window!Slot, RT!SR!Window!EmptyOffsets,
       RT!SR!Window!HasSpace, RT!SR!Window!Least,
       RT!SR!Window!do_packetsPending, RT!SR!Window!AckedOffsets,
       RT!SR!Window!Packets, RT!SR!Window!SequenceNumbers,
       RT!SR!Window!Cardinality, GB!Buffers, GB!GoBackN, GB!Held,
       GB!do_addPacket, GB!do_acknowledgePacket, GB!do_tryGetPacketSpan,
       GB!Slots, GB!Slot, GB!EmptyOffsets, GB!HasSpace, GB!Least,
       GB!do_packetsPending, GB!AckedOffsets, GB!Packets, GB!SequenceNumbers,
       GB!Cardinality

(* The same of stop-and-wait.                                              *)
LEMMA StopAndWaitCalls ==
  ASSUME Protocol = "stop-and-wait"
  PROVE
  /\ RT!Buffers = [retransmitPacket_ : Packets \cup {None}]
  /\ RT!Empty = [retransmitPacket_ |-> None]
  /\ \A r : RT!Held(r) = {r.retransmitPacket_} \ {None}
  /\ \A r, x :
       /\ RT!addPacket(r, x) = IF r.retransmitPacket_ = None
                               THEN [r EXCEPT !.retransmitPacket_ = x] ELSE r
       /\ RT!acknowledgePacket(r, x)
            \in {r, [r EXCEPT !.retransmitPacket_ = None]}
       /\ RT!tryGetPacketSpan(r, x) = IF r.retransmitPacket_ \in x
                                      THEN r.retransmitPacket_ ELSE None
<1>1. \A r, x : RT!acknowledgePacket(r, x) = RT!SNW!do_acknowledgePacket(r, x)
  BY DEF RT!acknowledgePacket
<1>2. \A r, x : RT!SNW!do_acknowledgePacket(r, x)
                 \in {r, [r EXCEPT !.retransmitPacket_ = None]}
  BY DEF RT!SNW!do_acknowledgePacket
<1> QED
  BY <1>1, <1>2, Zenon
     DEF RT!Buffers, RT!Empty, RT!Held, RT!addPacket, RT!tryGetPacketSpan,
         RT!SNW!Buffers, RT!SNW!StopAndWait, RT!SNW!Held, RT!SNW!do_addPacket,
         RT!SNW!HasSpace, RT!SNW!do_tryGetPacketSpan, RT!SNW!Packets, Packets

(* A transmission starts with nothing held.                                *)
LEMMA EmptyHoldsNothing ==
  RT!Empty \in RT!Buffers /\ RT!Held(RT!Empty) = {}
<1>1. CASE Protocol = "stop-and-wait"
  <2> DEFINE r == [retransmitPacket_ |-> None]
  <2>1. /\ RT!Empty = r /\ RT!Held(r) = {r.retransmitPacket_} \ {None}
        /\ RT!Buffers = [retransmitPacket_ : Packets \cup {None}]
    BY <1>1, StopAndWaitCalls
  <2> QED
    BY <2>1
<1>2. CASE Protocol \in {"go-back-n", "selective-repeat"}
  <2>1. GB!GoBackN \in GB!Buffers /\ GB!Held(GB!GoBackN) = {}
    BY TimedConstants DEF GB!GoBackN, GB!Buffers, GB!Held, GB!Slots, GB!Packets,
       GB!SequenceNumbers
  <2> QED
    BY <1>2, <2>1, GoBackNCalls, SelectiveRepeatCalls
<1> QED
  BY <1>1, <1>2, TimedAssumption

(* The packets held are packets.                                           *)
LEMMA HeldArePackets ==
  ASSUME NEW r \in RT!Buffers
  PROVE  RT!Held(r) \subseteq Packets
<1>1. CASE Protocol = "stop-and-wait"
  <2>1. /\ r \in [retransmitPacket_ : Packets \cup {None}]
        /\ RT!Held(r) = {r.retransmitPacket_} \ {None}
    BY <1>1, StopAndWaitCalls
  <2> QED
    BY <2>1
<1>2. CASE Protocol \in {"go-back-n", "selective-repeat"}
  <2>1. r \in GB!Buffers /\ RT!Held(r) = GB!Held(r)
    BY <1>2, GoBackNCalls, SelectiveRepeatCalls
  <2> QED
    BY <2>1 DEF GB!Buffers, GB!Held, GB!Packets, Packets
<1> QED
  BY <1>1, <1>2, TimedAssumption

(* Adding a packet holds no other packet that was not held before.         *)
LEMMA AddHolds ==
  ASSUME NEW r \in RT!Buffers, NEW p \in Packets
  PROVE  /\ RT!addPacket(r, p) \in RT!Buffers
         /\ RT!Held(RT!addPacket(r, p)) \subseteq RT!Held(r) \cup {p}
<1>1. CASE Protocol = "stop-and-wait"
  <2> DEFINE new == IF r.retransmitPacket_ = None
                    THEN [r EXCEPT !.retransmitPacket_ = p] ELSE r
  <2>1. /\ r \in [retransmitPacket_ : Packets \cup {None}]
        /\ RT!Buffers = [retransmitPacket_ : Packets \cup {None}]
        /\ RT!addPacket(r, p) = new
        /\ RT!Held(r) = {r.retransmitPacket_} \ {None}
        /\ RT!Held(new) = {new.retransmitPacket_} \ {None}
    BY <1>1, StopAndWaitCalls
  <2>2. /\ new \in [retransmitPacket_ : Packets \cup {None}]
        /\ new.retransmitPacket_ \in {r.retransmitPacket_, p}
    BY <2>1
  <2> HIDE DEF new
  <2> QED
    BY <2>1, <2>2
<1>2. CASE Protocol \in {"go-back-n", "selective-repeat"}
  <2>1. /\ r \in GB!Buffers /\ RT!Buffers = GB!Buffers
        /\ RT!addPacket(r, p) = GB!do_addPacket(r, p)
        /\ RT!Held(r) = GB!Held(r)
        /\ RT!Held(GB!do_addPacket(r, p)) = GB!Held(GB!do_addPacket(r, p))
    BY <1>2, GoBackNCalls, SelectiveRepeatCalls
  <2> QED
    BY <2>1, WindowAdd
<1> QED
  BY <1>1, <1>2, TimedAssumption

(* An acknowledgement only releases packets.                               *)
LEMMA AcknowledgeReleases ==
  ASSUME NEW r \in RT!Buffers, NEW sn \in SequenceNumbers
  PROVE  /\ RT!acknowledgePacket(r, sn) \in RT!Buffers
         /\ RT!Held(RT!acknowledgePacket(r, sn)) \subseteq RT!Held(r)
<1>1. CASE Protocol = "stop-and-wait"
  <2> DEFINE new == RT!acknowledgePacket(r, sn)
  <2>1. /\ r \in [retransmitPacket_ : Packets \cup {None}]
        /\ RT!Buffers = [retransmitPacket_ : Packets \cup {None}]
        /\ new \in {r, [r EXCEPT !.retransmitPacket_ = None]}
        /\ RT!Held(r) = {r.retransmitPacket_} \ {None}
        /\ RT!Held(new) = {new.retransmitPacket_} \ {None}
    BY <1>1, StopAndWaitCalls
  <2> HIDE DEF new
  <2>2. /\ new \in [retransmitPacket_ : Packets \cup {None}]
        /\ new.retransmitPacket_ \in {r.retransmitPacket_, None}
    BY <2>1
  <2>3. new \in RT!Buffers /\ RT!Held(new) \subseteq RT!Held(r)
    BY <2>1, <2>2
  <2> QED
    BY <2>3 DEF new
<1>2. CASE Protocol \in {"go-back-n", "selective-repeat"}
  <2>1. /\ r \in GB!Buffers /\ RT!Buffers = GB!Buffers
        /\ RT!acknowledgePacket(r, sn) = GB!do_acknowledgePacket(r, sn)
        /\ RT!Held(r) = GB!Held(r)
        /\ RT!Held(GB!do_acknowledgePacket(r, sn))
             = GB!Held(GB!do_acknowledgePacket(r, sn))
    BY <1>2, GoBackNCalls, SelectiveRepeatCalls
  <2> QED
    BY <2>1, WindowAcknowledge
<1> QED
  BY <1>1, <1>2, TimedAssumption

(* A packet that is due is one of those whose timeout has elapsed.         *)
LEMMA DueIsTimedOut ==
  ASSUME NEW r \in RT!Buffers, NEW T
  PROVE  RT!tryGetPacketSpan(r, T) \in T \cup {None}
<1>1. CASE Protocol = "stop-and-wait"
  BY <1>1, StopAndWaitCalls
<1>2. CASE Protocol \in {"go-back-n", "selective-repeat"}
  <2>1. /\ r \in GB!Buffers
        /\ RT!tryGetPacketSpan(r, T) = GB!do_tryGetPacketSpan(r, T)
    BY <1>2, GoBackNCalls, SelectiveRepeatCalls
  <2> QED
    BY <2>1, WindowDue
<1> QED
  BY <1>1, <1>2, TimedAssumption

(***************************************************************************)
(* The packets and the identifier of the conversation.                     *)
(***************************************************************************)
(* A new allocator gives out 1, the identifier in every packet.            *)
LEMMA FirstIDIsOne == conversationID = 1
<1> DEFINE K == freeRounds(newAllocator)
           k == CHOOSE k \in K : \A j \in K : k <= j
<1>1. K = 1 .. IDModulus
  BY DEF freeRounds, newAllocator
<1>2. k = 1
  <2>1. 1 \in K /\ \A j \in K : 1 <= j
    BY <1>1, TimedConstants, IDModulusAssumption
  <2>2. k \in K /\ \A j \in K : k <= j
    <3> HIDE DEF K
    <3> QED
      BY <2>1
  <2> HIDE DEF k
  <2>3. k \in Int /\ k <= 1 /\ 1 <= k
    BY <1>1, <2>1, <2>2
  <2> QED
    BY <2>3
<1>3. launcherAllocator.lastAllocated = candidate(newAllocator, k)
  BY DEF launcherAllocator, getNewID
<1> HIDE DEF k
<1>4. candidate(newAllocator, 1) = 1
  <2>1. 1 \in 0 .. IDModulus - 1
    BY TimedConstants DEF IDs
  <2>2. 1 % IDModulus = 1
    BY <2>1, IDModulusAssumption, SmallMod
  <2>3. newAllocator.lastAllocated + 1 = 1
    BY DEF newAllocator
  <2> QED
    BY <2>2, <2>3 DEF candidate
<1> QED
  BY <1>2, <1>3, <1>4 DEF conversationID

(* The packet in the input buffer.                                         *)
submittedPacket(p) == updateSequenceNumber(newPacket(p), SeqNum(p))

(* The header a receiver has to find.                                      *)
expectedHeader(p) ==
  [id_             |-> 1,
   sequenceNumber_ |-> SeqNum(p),
   length_         |-> IF isEndOfTx(p) THEN 0 ELSE PayloadLength]

(* What the launcher makes: identifier and length, and the data.           *)
LEMMA NewPacketIs ==
  ASSUME NEW p \in Packets
  PROVE  /\ CopiesAgree(newPacket(p))
         /\ newPacket(p).header_ = [expectedHeader(p) EXCEPT !.sequenceNumber_ = 0]
         /\ ~ isEndOfTx(p) => \A i \in 1 .. PayloadLength :
              newPacket(p).data_[HeaderSize + i] = content(p)[i]
<1> DEFINE e == updateConversationID(newDataPacket, 1)
           d == updateDataLength(newDataPacket, PayloadLength)
           c == updateConversationID(d, 1)
<1>1. PayloadLength \in Nat /\ PayloadLength <= MaxPayload /\ MaxPayload \in Nat
  BY TimedConstants, UnitTypes
<1>2. CASE isEndOfTx(p)
  <2>1. CopiesAgree(e) /\ e.header_ = [newDataPacket.header_ EXCEPT !.id_ = 1]
    BY NewDataPacketAgrees, TimedConstants, ConversationIDUpdateAgrees
  <2>2. e.header_ = [id_ |-> 1, sequenceNumber_ |-> 0, length_ |-> 0]
    BY <2>1, NewDataPacketAgrees
  <2> HIDE DEF e
  <2>3. /\ CopiesAgree(updateDataLength(e, 0))
        /\ updateDataLength(e, 0).header_
             = [e.header_ EXCEPT !.length_ = IF 0 > MaxPayload THEN MaxPayload ELSE 0]
    BY <2>1, DataLengthUpdateAgrees
  <2>4. newPacket(p) = updateDataLength(e, 0)
    BY <1>2 DEF newPacket, e
  <2>5. [e.header_ EXCEPT !.length_ = IF 0 > MaxPayload THEN MaxPayload ELSE 0]
          = [id_ |-> 1, sequenceNumber_ |-> 0, length_ |-> 0]
    BY <1>1, <2>2
  <2>6. [expectedHeader(p) EXCEPT !.sequenceNumber_ = 0]
          = [id_ |-> 1, sequenceNumber_ |-> 0, length_ |-> 0]
    BY <1>2 DEF expectedHeader
  <2> QED
    BY <1>2, <2>3, <2>4, <2>5, <2>6
<1>3. CASE ~ isEndOfTx(p)
  <2>1. /\ CopiesAgree(d)
        /\ d.header_ = [newDataPacket.header_ EXCEPT !.length_ =
                          IF PayloadLength > MaxPayload THEN MaxPayload
                          ELSE PayloadLength]
    BY <1>1, NewDataPacketAgrees, DataLengthUpdateAgrees
  <2> HIDE DEF d
  <2>2. d.header_ = [id_ |-> 0, sequenceNumber_ |-> 0, length_ |-> PayloadLength]
    <3>1. d.header_ = [newDataPacket.header_ EXCEPT !.length_ = PayloadLength]
      BY <1>1, <2>1
    <3>2. newDataPacket.header_
            = [id_ |-> 0, sequenceNumber_ |-> 0, length_ |-> 0]
      BY NewDataPacketAgrees
    <3> QED
      BY <3>1, <3>2
  <2>3. CopiesAgree(c) /\ c.header_ = [d.header_ EXCEPT !.id_ = 1]
    <3>1. 1 \in Bytes
      BY TimedConstants
    <3>2. CopiesAgree(d)
      BY <2>1
    <3> QED
      BY <3>1, <3>2, ConversationIDUpdateAgrees
  <2>4. c.header_ = [id_ |-> 1, sequenceNumber_ |-> 0, length_ |-> PayloadLength]
    BY <2>2, <2>3
  <2> HIDE DEF c
  <2>5. content(p) \in [1 .. c.header_.length_ -> Bytes]
    <3>1. (p + 1) % Base \in Bytes
      BY UnitTypes, TimedConstants DEF Bytes, Packets
    <3> QED
      BY <2>4, <3>1 DEF content
  <2>6. /\ CopiesAgree(writePayload(c, content(p)))
        /\ writePayload(c, content(p)).header_ = c.header_
        /\ \A i \in 1 .. c.header_.length_ :
             writePayload(c, content(p)).data_[HeaderSize + i] = content(p)[i]
    BY <2>3, <2>5, WritePayloadAgrees
  <2>7. newPacket(p) = writePayload(c, content(p))
    BY <1>3 DEF newPacket, c, d
  <2>8. [expectedHeader(p) EXCEPT !.sequenceNumber_ = 0]
          = [id_ |-> 1, sequenceNumber_ |-> 0, length_ |-> PayloadLength]
    BY <1>3 DEF expectedHeader
  <2>9. c.header_.length_ = PayloadLength
    BY <2>4
  <2> QED
    BY <2>4, <2>6, <2>7, <2>8, <2>9
<1> QED
  BY <1>2, <1>3

(* The input buffer adds the sequence number.                              *)
LEMMA SubmittedPacketIs ==
  ASSUME NEW p \in Packets
  PROVE  /\ CopiesAgree(submittedPacket(p))
         /\ submittedPacket(p).header_ = expectedHeader(p)
         /\ ~ isEndOfTx(p) => \A i \in 1 .. PayloadLength :
              submittedPacket(p).data_[HeaderSize + i] = content(p)[i]
<1> DEFINE n == newPacket(p)
           s == submittedPacket(p)
<1>1. SeqNum(p) \in Words
  BY TimedConstants DEF SeqNum, SequenceNumbers, Packets
<1>2. /\ CopiesAgree(s)
      /\ s.header_ = [n.header_ EXCEPT !.sequenceNumber_ = SeqNum(p)]
      /\ \A i \in HeaderSize + 1 .. Len(n.data_) : s.data_[i] = n.data_[i]
  BY <1>1, NewPacketIs, SequenceNumberUpdateAgrees DEF submittedPacket
<1>3. n.header_ = [expectedHeader(p) EXCEPT !.sequenceNumber_ = 0]
  BY NewPacketIs
<1>4. n.header_ = [id_ |-> 1, sequenceNumber_ |-> 0,
                   length_ |-> IF isEndOfTx(p) THEN 0 ELSE PayloadLength]
  BY <1>3 DEF expectedHeader
<1>5. ASSUME ~ isEndOfTx(p), NEW i \in 1 .. PayloadLength
      PROVE  s.data_[HeaderSize + i] = content(p)[i]
  <2>1. Len(n.data_) = HeaderSize + PayloadLength
    <3>1. CopiesAgree(n)
      BY NewPacketIs
    <3> HIDE DEF n
    <3>2. n.header_.length_ = PayloadLength
      BY <1>4, <1>5
    <3> QED
      BY <3>1, <3>2, PacketParts
  <2>2. HeaderSize + i \in HeaderSize + 1 .. Len(n.data_)
    BY <2>1, TimedConstants, UnitTypes DEF HeaderSize
  <2>3. n.data_[HeaderSize + i] = content(p)[i]
    BY <1>5, NewPacketIs
  <2> QED
    BY <1>2, <2>2, <2>3
<1> HIDE DEF s, n
<1>6. s.header_ = expectedHeader(p)
  BY <1>2, <1>4 DEF expectedHeader
<1> QED
  BY <1>2, <1>5, <1>6 DEF s

(* What a receiver reads when the packet in position p has been sent.      *)
ReadAs(p, bytes) ==
  LET buffer == [i \in 1 .. MaxUnit |-> IF i <= Len(bytes) THEN bytes[i] ELSE Base - 1]
      packet == received(buffer)
  IN  /\ packet.header_ = expectedHeader(p)
      /\ hasNoPayload(packet) = isEndOfTx(p)
      /\ \A i \in 1 .. packet.header_.length_ : payload(packet)[i] = content(p)[i]

(* It is the packet submitted.                                             *)
LEMMA SubmittedIsRead ==
  ASSUME NEW p \in Packets
  PROVE  ReadAs(p, submittedPacket(p).data_)
<1> DEFINE s      == submittedPacket(p)
           buffer == [i \in 1 .. MaxUnit |-> IF i <= Len(s.data_) THEN s.data_[i]
                                             ELSE Base - 1]
<1>1. CopiesAgree(s) /\ s.header_ = expectedHeader(p)
  BY SubmittedPacketIs
<1>2. ~ isEndOfTx(p) => \A i \in 1 .. PayloadLength :
        s.data_[HeaderSize + i] = content(p)[i]
  BY SubmittedPacketIs
<1> HIDE DEF s
<1>3. /\ s.data_ \in Seq(Bytes) /\ s.header_.length_ \in 0 .. MaxPayload
      /\ Len(s.data_) = HeaderSize + s.header_.length_
  BY <1>1, PacketParts
<1>4. Len(s.data_) \in 1 .. MaxUnit
  BY <1>3, UnitTypes DEF HeaderSize, MaxPayload
<1>5. buffer \in Seq(Bytes) /\ Len(buffer) = MaxUnit
  <2>1. \A i \in 1 .. MaxUnit :
          (IF i <= Len(s.data_) THEN s.data_[i] ELSE Base - 1) \in Bytes
    BY <1>3, <1>4, UnitTypes DEF Bytes
  <2>2. buffer \in [1 .. MaxUnit -> Bytes]
    BY <2>1
  <2> HIDE DEF buffer
  <2> QED
    BY <2>2, UnitTypes, FunctionIsSequence
<1>6. \A i \in 1 .. Len(s.data_) : buffer[i] = s.data_[i]
  <2>1. \A i \in 1 .. Len(s.data_) : i \in 1 .. MaxUnit /\ i <= Len(s.data_)
    BY <1>4, UnitTypes
  <2> QED
    BY <2>1
<1> HIDE DEF buffer
<1>7. Len(buffer) >= Len(s.data_)
  BY <1>4, <1>5
<1>8. /\ received(buffer).header_ = s.header_
      /\ \A i \in 1 .. s.header_.length_ :
           payload(received(buffer))[i] = s.data_[HeaderSize + i]
  BY <1>1, <1>5, <1>6, <1>7, ReceivedIsSent
<1>9. s.header_.length_ = IF isEndOfTx(p) THEN 0 ELSE PayloadLength
  BY <1>1 DEF expectedHeader
<1>10. hasNoPayload(received(buffer)) = isEndOfTx(p)
  <2>1. PayloadLength # 0
    BY TimedConstants
  <2> QED
    BY <1>8, <1>9, <2>1 DEF hasNoPayload, isEndOfTx
<1>11. ASSUME NEW i \in 1 .. s.header_.length_
       PROVE  payload(received(buffer))[i] = content(p)[i]
  <2>1. CASE isEndOfTx(p)
    BY <1>9, <2>1
  <2>2. CASE ~ isEndOfTx(p)
    BY <1>2, <1>8, <1>9, <2>2
  <2> QED
    BY <2>1, <2>2
<1> QED
  BY <1>1, <1>8, <1>10, <1>11 DEF ReadAs, buffer, s

(***************************************************************************)
(* The invariant.                                                          *)
(***************************************************************************)
(* The first packet submitted that has not been sent.                      *)
firstUnsent == nextSubmit - Len(inputPackets_)

(* The input buffer holds the packets that have not been sent, in order.   *)
InputInOrder ==
  /\ nextSubmit \in 0 .. NumPackets + 1
  /\ inputPackets_ \in Seq(Packets)
  /\ Len(inputPackets_) <= nextSubmit
  /\ \A i \in 1 .. Len(inputPackets_) : inputPackets_[i] = firstUnsent + i - 1

(* Only packets that have been sent await an acknowledgement.              *)
HeldAreSent ==
  /\ rt \in RT!Buffers
  /\ RT!Held(rt) \subseteq 0 .. firstUnsent - 1
  /\ txAckQueue \in Seq(SequenceNumbers)

(* The object of a packet that has been submitted.                         *)
ObjectOf(p) ==
  [packet_      |-> submittedPacket(p),
   firstTxTime_ |-> objects[p].firstTxTime_,
   lastTxTime_  |-> objects[p].lastTxTime_]

(* The times of a packet: lastTxTime_ is not before its last transmission  *)
(* but one.                                                                *)
SentRecords == [at : Nat, before : Nat, copies : 0 .. MaxCopies]

PacketTimes(p) ==
  /\ p < nextSubmit => /\ objects[p] = ObjectOf(p)
                       /\ objects[p].firstTxTime_ \in Nat
                       /\ objects[p].lastTxTime_ \in Nat
                       /\ objects[p].firstTxTime_ <= objects[p].lastTxTime_
                       /\ objects[p].lastTxTime_ <= now
  /\ p >= firstUnsent => sent[p].copies = 0
  /\ sent[p].at <= now
  /\ sent[p].copies >= 2 => sent[p].before <= objects[p].lastTxTime_

TimesAgree ==
  /\ now \in Nat
  /\ DOMAIN objects = Packets
  /\ sent \in [Packets -> SentRecords]
  /\ \A p \in Packets : PacketTimes(p)

(* A packet that has been found due and is still to be sent: lastTxTime_   *)
(* is the time when it was found, no earlier than its last transmission    *)
(* and more than a timeout interval after the one before that.             *)
Due(p) ==
  /\ p \in Packets /\ p < firstUnsent
  /\ objects[p].lastTxTime_ - objects[p].firstTxTime_ > Timeout
  /\ sent[p].at <= objects[p].lastTxTime_
  /\ sent[p].copies >= 2 => objects[p].lastTxTime_ - sent[p].before > Timeout

SpanIsDue == span # None => Due(span)

TimedIInv ==
  /\ InputInOrder
  /\ HeldAreSent
  /\ TimesAgree
  /\ SpanIsDue
  /\ allocator \in Allocators
  /\ RetransmissionsSpaced
  /\ ReceiverReads

(* The invariant holds initially.                                          *)
LEMMA TimedInitially == TimedInit => TimedIInv
<1> SUFFICES ASSUME TimedInit PROVE TimedIInv
  OBVIOUS
<1> USE DEF TimedInit, TransmitterInit
<1>1. InputInOrder
  BY TimedConstants DEF InputInOrder, firstUnsent
<1>2. HeldAreSent
  BY EmptyHoldsNothing DEF HeldAreSent
<1>3. TimesAgree
  <2>1. \A p \in Packets : /\ ~ (p < nextSubmit)
                            /\ sent[p].copies = 0 /\ sent[p].at = 0
    BY TimedConstants DEF Packets
  <2>2. sent \in [Packets -> SentRecords]
    BY DEF MaxCopies, SentRecords
  <2> QED
    BY <2>1, <2>2 DEF TimesAgree, PacketTimes
<1>4. allocator \in Allocators
  BY IDModulusAssumption DEF newAllocator, Allocators, IDs
<1>5. RetransmissionsSpaced /\ ReceiverReads /\ SpanIsDue
  BY DEF RetransmissionsSpaced, ReceiverReads, SpanIsDue
<1> QED
  BY <1>1, <1>2, <1>3, <1>4, <1>5 DEF TimedIInv

(* A step that sends nothing and submits nothing.                          *)
LEMMA QuietPreserves ==
  ASSUME TimedIInv, wire' = None, now' \in Nat, now <= now',
         span' \in {span, None}, allocator' \in Allocators,
         UNCHANGED <<nextSubmit, inputPackets_, objects, sent>>,
         rt' \in RT!Buffers, RT!Held(rt') \subseteq RT!Held(rt),
         txAckQueue' \in Seq(SequenceNumbers)
  PROVE  TimedIInv'
<1>1. InputInOrder'
  BY DEF TimedIInv, InputInOrder, firstUnsent
<1>2. HeldAreSent'
  BY DEF TimedIInv, HeldAreSent, firstUnsent
<1>3. TimesAgree'
  <2>1. TimesAgree
    BY DEF TimedIInv
  <2>2. ASSUME NEW p \in Packets
        PROVE  PacketTimes(p)'
    <3>1. PacketTimes(p) /\ sent[p].at \in Nat /\ now \in Nat
      BY <2>1 DEF TimesAgree, SentRecords
    <3>2. ObjectOf(p)' = ObjectOf(p) /\ firstUnsent' = firstUnsent
      BY DEF ObjectOf, firstUnsent
    <3> QED
      BY <3>1, <3>2 DEF PacketTimes
  <2> QED
    BY <2>1, <2>2 DEF TimesAgree
<1>4. SpanIsDue'
  BY DEF TimedIInv, SpanIsDue, Due, firstUnsent
<1>5. RetransmissionsSpaced' /\ ReceiverReads'
  BY DEF RetransmissionsSpaced, ReceiverReads
<1> QED
  BY <1>1, <1>2, <1>3, <1>4, <1>5 DEF TimedIInv

(* The application submits a packet.                                       *)
LEMMA SubmitPreserves ==
  ASSUME TimedIInv, submit
  PROVE  TimedIInv'
<1> DEFINE n == nextSubmit
<1>1. /\ n \in Packets /\ n \in Nat /\ n \in 0 .. NumPackets
      /\ inputPackets_' = Append(inputPackets_, n)
      /\ nextSubmit' = n + 1
      /\ UNCHANGED <<rt, txAckQueue, now, span, sent, allocator>>
      /\ objects' = [objects EXCEPT ![n] = bufferObject(n)]
      /\ wire' = None
  BY TimedConstants DEF submit, sendPacket, txThreadVars, turnVars, Packets
<1>2. /\ inputPackets_ \in Seq(Packets) /\ Len(inputPackets_) \in Nat
      /\ Len(inputPackets_) <= n
      /\ \A i \in 1 .. Len(inputPackets_) : inputPackets_[i] = firstUnsent + i - 1
  BY DEF TimedIInv, InputInOrder
<1>3. firstUnsent' = firstUnsent /\ firstUnsent \in Nat /\ firstUnsent <= n
  BY <1>1, <1>2 DEF firstUnsent
<1>4. InputInOrder'
  <2>1. inputPackets_' \in Seq(Packets) /\ Len(inputPackets_') = Len(inputPackets_) + 1
    BY <1>1, <1>2
  <2>2. ASSUME NEW i \in 1 .. Len(inputPackets_')
        PROVE  inputPackets_'[i] = firstUnsent + i - 1
    <3>1. CASE i = Len(inputPackets_) + 1
      BY <1>1, <1>2, <3>1 DEF firstUnsent
    <3>2. CASE i \in 1 .. Len(inputPackets_)
      BY <1>1, <1>2, <3>2
    <3> QED
      BY <1>2, <2>1, <3>1, <3>2
  <2>3. nextSubmit' \in 0 .. NumPackets + 1 /\ Len(inputPackets_') <= nextSubmit'
    BY <1>1, <1>2, <2>1, TimedConstants
  <2> QED
    BY <1>3, <2>1, <2>2, <2>3 DEF InputInOrder
<1>5. HeldAreSent'
  BY <1>1, <1>3 DEF TimedIInv, HeldAreSent
<1>6. TimesAgree'
  <2>1. TimesAgree
    BY DEF TimedIInv
  <2>2. DOMAIN objects' = Packets
    BY <1>1, <2>1 DEF TimesAgree
  <2>3. objects'[n] = [packet_ |-> submittedPacket(n), firstTxTime_ |-> now,
                       lastTxTime_ |-> now]
    BY <1>1, <2>1 DEF TimesAgree, bufferObject, submittedPacket
  <2>4. sent[n].copies = 0 /\ sent[n].at <= now /\ now \in Nat
    BY <1>1, <1>3, <2>1 DEF TimesAgree, PacketTimes
  <2>5. ASSUME NEW p \in Packets
        PROVE  PacketTimes(p)'
    <3>1. CASE p = n
      BY <1>1, <1>3, <2>3, <2>4, <3>1 DEF PacketTimes, ObjectOf
    <3>2. CASE p # n
      <4>1. objects'[p] = objects[p] /\ sent'[p] = sent[p]
        BY <1>1, <2>1, <3>2 DEF TimesAgree
      <4>2. p < nextSubmit' => p < nextSubmit
        BY <1>1, <3>2, TimedConstants DEF Packets
      <4>3. PacketTimes(p) /\ ObjectOf(p)' = ObjectOf(p)
        BY <2>1, <4>1 DEF TimesAgree, ObjectOf
      <4> QED
        BY <1>1, <1>3, <4>1, <4>2, <4>3 DEF PacketTimes
    <3> QED
      BY <3>1, <3>2
  <2> QED
    BY <1>1, <2>1, <2>2, <2>5 DEF TimesAgree
<1>7. allocator' \in Allocators
  BY <1>1 DEF TimedIInv
<1>8. SpanIsDue'
  <2>1. ASSUME span # None
        PROVE  Due(span)'
    <3>1. Due(span)
      BY <2>1 DEF TimedIInv, SpanIsDue
    <3>2. span \in Packets /\ span # n
      BY <1>1, <1>2, <1>3, <3>1, TimedConstants DEF Due, Packets
    <3>3. objects'[span] = objects[span]
      BY <1>1, <3>2 DEF TimedIInv, TimesAgree
    <3> QED
      BY <1>1, <1>3, <3>1, <3>3 DEF Due
  <2> QED
    BY <1>1, <2>1 DEF SpanIsDue
<1>9. RetransmissionsSpaced' /\ ReceiverReads'
  BY <1>1 DEF RetransmissionsSpaced, ReceiverReads
<1> QED
  BY <1>4, <1>5, <1>6, <1>7, <1>8, <1>9 DEF TimedIInv

(* What a transmission says: the wire carries the packet submitted, and    *)
(* says when it was sent, if a packet sent before is one found due.        *)
LEMMA TransmissionSays ==
  ASSUME TimedIInv, NEW p \in Packets, p < nextSubmit, transmission(p),
         sent[p].copies >= 1 => Due(p)
  PROVE  /\ RetransmissionsSpaced' /\ ReceiverReads'
         /\ sent' \in [Packets -> SentRecords]
         /\ sent'[p].copies >= 1 /\ sent'[p].at = now
         /\ sent'[p].before = sent[p].at
         /\ sent[p].copies = 0 => sent'[p].copies = 1
         /\ \A q \in Packets \ {p} : sent'[q] = sent[q]
<1> DEFINE c == IF sent[p].copies < MaxCopies THEN sent[p].copies + 1 ELSE MaxCopies
           o == objects[p]
<1>1. /\ now \in Nat /\ sent \in [Packets -> SentRecords]
      /\ o = ObjectOf(p)
      /\ o.firstTxTime_ \in Nat /\ o.lastTxTime_ \in Nat
      /\ o.lastTxTime_ <= now
  BY DEF TimedIInv, TimesAgree, PacketTimes
<1>2. /\ sent[p].copies \in 0 .. 3
      /\ sent[p].at \in Nat /\ sent[p].before \in Nat
  BY <1>1 DEF MaxCopies, SentRecords
<1>3. /\ c \in 0 .. 3 /\ c >= 1
      /\ c >= 2 => sent[p].copies >= 1
      /\ c >= 3 => sent[p].copies >= 2
      /\ sent[p].copies = 0 => c = 1
  BY <1>2 DEF MaxCopies
<1>4. o.packet_ = submittedPacket(p)
  BY <1>1 DEF ObjectOf
<1>5. /\ sent' = [sent EXCEPT ![p] = [at |-> now, before |-> sent[p].at,
                                     copies |-> c]]
      /\ wire' = [packet |-> p, copies |-> c,
                  sinceLast       |-> now - sent[p].at,
                  sinceLastButOne |-> now - sent[p].before,
                  sinceSubmit     |-> now - o.firstTxTime_,
                  bytes |-> submittedPacket(p).data_]
  BY <1>4 DEF transmission
<1>6. sent[p].copies >= 1 =>
        /\ o.lastTxTime_ - o.firstTxTime_ > Timeout
        /\ sent[p].copies >= 2 => o.lastTxTime_ - sent[p].before > Timeout
  BY DEF Due
<1> HIDE DEF c, o
<1>7. RetransmissionsSpaced'
  <2>1. c >= 2 => now - o.firstTxTime_ > Timeout
    BY <1>1, <1>3, <1>6, TimedConstants
  <2>2. c >= 3 => now - sent[p].before > Timeout
    BY <1>1, <1>2, <1>3, <1>6, TimedConstants
  <2>3. /\ wire'.copies = c /\ wire'.sinceLastButOne = now - sent[p].before
        /\ wire'.sinceSubmit = now - o.firstTxTime_
    BY <1>5
  <2> QED
    BY <2>1, <2>2, <2>3, <1>3 DEF RetransmissionsSpaced
<1>8. ReceiverReads'
  <2>1. wire'.packet = p /\ wire'.bytes = submittedPacket(p).data_
    BY <1>5
  <2>2. ReadAs(wire'.packet, wire'.bytes)
    BY <2>1, SubmittedIsRead
  <2> QED
    BY <2>2, FirstIDIsOne DEF ReceiverReads, ReadAs, expectedHeader
<1>9. sent' \in [Packets -> SentRecords]
  BY <1>1, <1>2, <1>3, <1>5 DEF MaxCopies, SentRecords
<1>10. sent'[p] = [at |-> now, before |-> sent[p].at, copies |-> c]
  BY <1>1, <1>5
<1>11. \A q \in Packets \ {p} : sent'[q] = sent[q]
  BY <1>1, <1>5
<1> QED
  BY <1>3, <1>7, <1>8, <1>9, <1>10, <1>11

(* A packet that is due is one that has been sent, and its timeout has     *)
(* elapsed.                                                                *)
LEMMA DueIsSent ==
  ASSUME TimedIInv, DuePacket # None
  PROVE  /\ DuePacket \in Packets /\ DuePacket < firstUnsent
         /\ DuePacket < nextSubmit /\ firstUnsent \in Nat
         /\ isPacketTimedOut(DuePacket)
<1>1. rt \in RT!Buffers /\ RT!Held(rt) \subseteq 0 .. firstUnsent - 1
  BY DEF TimedIInv, HeldAreSent
<1>2. DuePacket \in TimedOut
  BY <1>1, DueIsTimedOut DEF DuePacket
<1>3. DuePacket \in RT!Held(rt) /\ isPacketTimedOut(DuePacket)
  BY <1>2 DEF TimedOut
<1>4. DuePacket \in Packets
  BY <1>1, <1>3, HeldArePackets
<1>5. /\ nextSubmit \in Nat /\ Len(inputPackets_) \in Nat
      /\ Len(inputPackets_) <= nextSubmit
  BY TimedConstants DEF TimedIInv, InputInOrder
<1>6. firstUnsent \in Nat /\ firstUnsent <= nextSubmit
  BY <1>5 DEF firstUnsent
<1>7. DuePacket \in 0 .. firstUnsent - 1
  BY <1>1, <1>3
<1>8. DuePacket < firstUnsent /\ DuePacket < nextSubmit
  BY <1>5, <1>6, <1>7
<1> QED
  BY <1>3, <1>4, <1>6, <1>8

(* The RT buffer is asked for a packet that is due.                        *)
LEMMA TryGetPacketSpanPreserves ==
  ASSUME TimedIInv, tryGetPacketSpan
  PROVE  TimedIInv'
<1>1. /\ span' = DuePacket /\ wire' = None
      /\ UNCHANGED <<nextSubmit, inputPackets_, rt, txAckQueue, now, sent, allocator>>
      /\ IF DuePacket = None THEN UNCHANGED objects ELSE updateLastTxTime(DuePacket)
  BY DEF tryGetPacketSpan, txVars
<1>2. CASE DuePacket = None
  <2>1. /\ allocator \in Allocators /\ rt \in RT!Buffers /\ now \in Nat
        /\ txAckQueue \in Seq(SequenceNumbers)
    BY DEF TimedIInv, HeldAreSent, TimesAgree
  <2> QED
    BY <1>1, <1>2, <2>1, QuietPreserves
<1>3. CASE DuePacket # None
  <2> PICK p : p = DuePacket
    OBVIOUS
  <2>1. /\ p # None /\ span' = p
        /\ objects' = [objects EXCEPT ![p].lastTxTime_ = now]
    BY <1>1, <1>3 DEF updateLastTxTime
  <2>2. /\ p \in Packets /\ p < firstUnsent /\ p < nextSubmit /\ firstUnsent \in Nat
        /\ isPacketTimedOut(p)
    BY <1>3, DueIsSent
  <2>3. InputInOrder' /\ HeldAreSent' /\ firstUnsent' = firstUnsent
    BY <1>1 DEF TimedIInv, InputInOrder, HeldAreSent, firstUnsent
  <2>4. TimesAgree
    BY DEF TimedIInv
  <2>5. /\ objects[p] = ObjectOf(p) /\ now \in Nat
        /\ objects[p].firstTxTime_ \in Nat /\ objects[p].lastTxTime_ \in Nat
        /\ objects[p].firstTxTime_ <= objects[p].lastTxTime_
        /\ objects[p].lastTxTime_ <= now
        /\ sent[p].at \in Nat /\ sent[p].at <= now /\ sent[p].before \in Nat
        /\ sent[p].copies >= 2 => sent[p].before <= objects[p].lastTxTime_
    BY <2>2, <2>4 DEF TimesAgree, PacketTimes, SentRecords
  <2>6. now - objects[p].lastTxTime_ > Timeout
    BY <2>2 DEF isPacketTimedOut
  <2>7. objects'[p] = [packet_ |-> submittedPacket(p),
                       firstTxTime_ |-> objects[p].firstTxTime_,
                       lastTxTime_ |-> now]
    <3>1. objects'[p] = [objects[p] EXCEPT !.lastTxTime_ = now]
      BY <2>1, <2>2, <2>4 DEF TimesAgree
    <3> QED
      BY <2>5, <3>1 DEF ObjectOf
  <2>8. DOMAIN objects' = Packets
    BY <2>1, <2>4 DEF TimesAgree
  <2>9. ASSUME NEW q \in Packets
        PROVE  PacketTimes(q)'
    <3>1. PacketTimes(q)
      BY <2>4 DEF TimesAgree
    <3>2. CASE q = p
      <4>1. sent[p].copies >= 2 => sent[p].before <= now
        BY <2>5
      <4> QED
        BY <1>1, <2>3, <2>5, <2>7, <3>1, <3>2, <4>1 DEF PacketTimes, ObjectOf
    <3>3. CASE q # p
      <4>1. objects'[q] = objects[q] /\ ObjectOf(q)' = ObjectOf(q)
        BY <2>1, <2>4, <3>3 DEF TimesAgree, ObjectOf
      <4> QED
        BY <1>1, <2>3, <3>1, <4>1 DEF PacketTimes
    <3> QED
      BY <3>2, <3>3
  <2>10. TimesAgree'
    BY <1>1, <2>4, <2>8, <2>9 DEF TimesAgree
  <2>11. Due(p)'
    <3>1. now - objects[p].firstTxTime_ > Timeout
      BY <2>5, <2>6, TimedConstants
    <3>2. sent[p].copies >= 2 => now - sent[p].before > Timeout
      BY <2>5, <2>6, TimedConstants
    <3>3. /\ objects'[p].lastTxTime_ = now
          /\ objects'[p].firstTxTime_ = objects[p].firstTxTime_
      BY <2>7
    <3> QED
      BY <1>1, <2>2, <2>3, <2>5, <3>1, <3>2, <3>3 DEF Due
  <2>12. SpanIsDue'
    BY <2>1, <2>11 DEF SpanIsDue, Due
  <2>13. RetransmissionsSpaced' /\ ReceiverReads' /\ allocator' \in Allocators
    BY <1>1 DEF RetransmissionsSpaced, ReceiverReads, TimedIInv
  <2> QED
    BY <2>3, <2>10, <2>12, <2>13 DEF TimedIInv
<1> QED
  BY <1>2, <1>3

(* A packet is sent again.                                                 *)
LEMMA RetransmitPreserves ==
  ASSUME TimedIInv, retransmit
  PROVE  TimedIInv'
<1>1. PICK p : p = span
  OBVIOUS
<1>2. /\ p # None /\ span' = None
      /\ UNCHANGED <<nextSubmit, inputPackets_, rt, txAckQueue, now, objects,
                     allocator>>
      /\ transmission(p)
  BY <1>1 DEF retransmit, attemptPacketRetransmission, endTurn
<1>3. Due(p)
  BY <1>1, <1>2 DEF TimedIInv, SpanIsDue
<1>4. p \in Packets /\ p < firstUnsent /\ p < nextSubmit
  <2>1. /\ nextSubmit \in Nat /\ Len(inputPackets_) \in Nat
        /\ Len(inputPackets_) <= nextSubmit
    BY TimedConstants DEF TimedIInv, InputInOrder
  <2> QED
    BY <1>3, <2>1, TimedConstants DEF Due, firstUnsent, Packets
<1>5. /\ RetransmissionsSpaced' /\ ReceiverReads'
      /\ sent' \in [Packets -> SentRecords]
      /\ sent'[p].at = now /\ sent'[p].before = sent[p].at
      /\ \A q \in Packets \ {p} : sent'[q] = sent[q]
  BY <1>2, <1>3, <1>4, TransmissionSays
<1>6. InputInOrder' /\ HeldAreSent' /\ firstUnsent' = firstUnsent
  BY <1>2 DEF TimedIInv, InputInOrder, HeldAreSent, firstUnsent
<1>7. TimesAgree'
  <2>1. TimesAgree
    BY DEF TimedIInv
  <2>2. ASSUME NEW q \in Packets
        PROVE  PacketTimes(q)'
    <3>1. PacketTimes(q) /\ now \in Nat /\ ObjectOf(q)' = ObjectOf(q)
      BY <1>2, <2>1 DEF TimesAgree, ObjectOf
    <3>2. CASE q = p
      <4>1. ~ (q >= firstUnsent) /\ sent[p].at <= objects[p].lastTxTime_
        <5>1. firstUnsent \in Int
          BY TimedConstants DEF TimedIInv, InputInOrder, firstUnsent
        <5> QED
          BY <1>3, <1>4, <3>2, <5>1, TimedConstants DEF Due, Packets
      <4> QED
        BY <1>2, <1>5, <1>6, <3>1, <3>2, <4>1 DEF PacketTimes
    <3>3. CASE q # p
      <4>1. sent'[q] = sent[q]
        BY <1>5, <3>3
      <4> QED
        BY <1>2, <1>6, <3>1, <4>1 DEF PacketTimes
    <3> QED
      BY <3>2, <3>3
  <2> QED
    BY <1>2, <1>5, <2>1, <2>2 DEF TimesAgree
<1>8. SpanIsDue' /\ allocator' \in Allocators
  BY <1>2 DEF SpanIsDue, TimedIInv
<1> QED
  BY <1>5, <1>6, <1>7, <1>8 DEF TimedIInv

(* A packet is sent for the first time: the first that had not been.       *)
LEMMA TransmitNewPreserves ==
  ASSUME TimedIInv, transmitNew
  PROVE  TimedIInv'
<1> DEFINE p == Head(inputPackets_)
<1>1. /\ inputPackets_ # <<>> /\ inputPackets_' = Tail(inputPackets_)
      /\ rt' = RT!addPacket(rt, p)
      /\ UNCHANGED <<nextSubmit, txAckQueue, now, objects, allocator>>
      /\ transmission(p) /\ span' = None
  BY DEF transmitNew, attemptNewPacketTransmission, endTurn
<1>2. /\ inputPackets_ \in Seq(Packets) /\ Len(inputPackets_) <= nextSubmit
      /\ nextSubmit \in 0 .. NumPackets + 1
      /\ \A i \in 1 .. Len(inputPackets_) : inputPackets_[i] = firstUnsent + i - 1
  BY DEF TimedIInv, InputInOrder
<1>3. /\ Len(inputPackets_) \in Nat \ {0}
      /\ inputPackets_' \in Seq(Packets)
      /\ Len(inputPackets_') = Len(inputPackets_) - 1
      /\ \A i \in 1 .. Len(inputPackets_') : inputPackets_'[i] = inputPackets_[i + 1]
      /\ p = inputPackets_[1] /\ p \in Packets
  BY <1>1, <1>2
<1>4. firstUnsent \in Nat /\ p = firstUnsent /\ p < nextSubmit
  BY <1>2, <1>3, TimedConstants DEF firstUnsent
<1>5. firstUnsent' = firstUnsent + 1
  BY <1>1, <1>2, <1>3, TimedConstants DEF firstUnsent
<1> HIDE DEF p
<1>6. sent[p].copies = 0
  BY <1>3, <1>4 DEF TimedIInv, TimesAgree, PacketTimes
<1>7. /\ RetransmissionsSpaced' /\ ReceiverReads'
      /\ sent' \in [Packets -> SentRecords]
      /\ sent'[p].copies = 1 /\ sent'[p].at = now
      /\ \A q \in Packets \ {p} : sent'[q] = sent[q]
  <2>1. sent[p].copies >= 1 => Due(p)
    BY <1>6
  <2> QED
    BY <1>1, <1>3, <1>4, <1>6, <2>1, TransmissionSays
<1>8. InputInOrder'
  <2>1. ASSUME NEW i \in 1 .. Len(inputPackets_')
        PROVE  inputPackets_'[i] = firstUnsent' + i - 1
    <3>1. i + 1 \in 1 .. Len(inputPackets_) /\ i \in Int
      BY <1>3
    <3>2. inputPackets_[i + 1] = firstUnsent + (i + 1) - 1
      BY <1>2, <3>1
    <3> QED
      BY <1>3, <1>4, <1>5, <3>1, <3>2
  <2>2. Len(inputPackets_') <= nextSubmit' /\ nextSubmit' \in 0 .. NumPackets + 1
    BY <1>1, <1>2, <1>3, TimedConstants
  <2> QED
    BY <1>3, <2>1, <2>2 DEF InputInOrder
<1>9. HeldAreSent'
  <2>1. /\ rt \in RT!Buffers /\ RT!Held(rt) \subseteq 0 .. firstUnsent - 1
        /\ txAckQueue \in Seq(SequenceNumbers)
    BY DEF TimedIInv, HeldAreSent
  <2>2. rt' \in RT!Buffers /\ RT!Held(rt') \subseteq RT!Held(rt) \cup {p}
    BY <1>1, <1>3, <2>1, AddHolds
  <2>3. 0 .. firstUnsent - 1 \subseteq 0 .. firstUnsent' - 1 /\ p \in 0 .. firstUnsent' - 1
    BY <1>4, <1>5
  <2>4. RT!Held(rt)' = RT!Held(rt')
    OBVIOUS
  <2> QED
    BY <1>1, <2>1, <2>2, <2>3, <2>4 DEF HeldAreSent
<1>10. TimesAgree'
  <2>1. TimesAgree
    BY DEF TimedIInv
  <2>2. ASSUME NEW q \in Packets
        PROVE  PacketTimes(q)'
    <3>1. PacketTimes(q) /\ now \in Nat /\ ObjectOf(q)' = ObjectOf(q)
      BY <1>1, <2>1 DEF TimesAgree, ObjectOf
    <3>2. CASE q = p
      BY <1>1, <1>4, <1>5, <1>7, <3>1, <3>2 DEF PacketTimes
    <3>3. CASE q # p
      <4>1. sent'[q] = sent[q]
        BY <1>7, <3>3
      <4>2. q >= firstUnsent' => q >= firstUnsent
        BY <1>4, <1>5, TimedConstants DEF Packets
      <4> QED
        BY <1>1, <3>1, <4>1, <4>2 DEF PacketTimes
    <3> QED
      BY <3>2, <3>3
  <2> QED
    BY <1>1, <1>7, <2>1, <2>2 DEF TimesAgree
<1>11. allocator' \in Allocators /\ SpanIsDue'
  BY <1>1 DEF TimedIInv, SpanIsDue
<1> QED
  BY <1>7, <1>8, <1>9, <1>10, <1>11 DEF TimedIInv

(* The allocator is used.                                                  *)
LEMMA AllocatePreserves ==
  ASSUME TimedIInv, allocate
  PROVE  TimedIInv'
<1>1. allocator \in Allocators /\ rt \in RT!Buffers /\ now \in Nat
      /\ txAckQueue \in Seq(SequenceNumbers)
  BY DEF TimedIInv, HeldAreSent, TimesAgree
<1>2. allocator' \in Allocators
  <2>1. CASE hasFreeID(allocator) /\ allocator' = getNewID(allocator)
    <3>1. NextIDIsFresh(allocator)
      BY <1>1, NewIDIsFresh
    <3> QED
      BY <2>1, <3>1 DEF NextIDIsFresh
  <2>2. CASE \E id \in IDs : allocator' \in {registerID(allocator, id),
                                            releaseID(allocator, id)}
    BY <1>1, <2>2 DEF registerID, releaseID, Allocators
  <2> QED
    BY <2>1, <2>2 DEF allocate
<1>3. wire' = None /\ UNCHANGED <<txVars, now, objects, span, sent>>
  BY DEF allocate, turnVars
<1> QED
  BY <1>1, <1>2, <1>3, QuietPreserves DEF txVars

(* A step that sends nothing: acknowledgements arrive and are processed.   *)
LEMMA QuietStepPreserves ==
  ASSUME TimedIInv, quietStep
  PROVE  TimedIInv'
<1>1. /\ allocator \in Allocators /\ rt \in RT!Buffers /\ now \in Nat
      /\ txAckQueue \in Seq(SequenceNumbers)
  BY DEF TimedIInv, HeldAreSent, TimesAgree
<1>2. /\ wire' = None /\ span' \in {span, None}
      /\ UNCHANGED <<now, objects, sent, allocator>>
  BY DEF quietStep, endTurn, turnVars
<1>3. ASSUME UNCHANGED <<nextSubmit, inputPackets_, rt, txAckQueue>>
      PROVE  TimedIInv'
  BY <1>1, <1>2, <1>3, QuietPreserves
<1>4. CASE nothingToTransmit \/ ackQueueProcessed \/ ackThreadLoop
           \/ receiveNoAck(FALSE)
  BY <1>3, <1>4 DEF nothingToTransmit, ackQueueProcessed, ackThreadLoop,
     receiveNoAck, txThreadVars
<1>5. CASE processAckQueue
  <2> DEFINE sn == Head(txAckQueue)
  <2>1. /\ txAckQueue # <<>> /\ txAckQueue' = Tail(txAckQueue)
        /\ rt' \in {rt, RT!acknowledgePacket(rt, sn)}
        /\ UNCHANGED <<nextSubmit, inputPackets_>>
    BY <1>5 DEF processAckQueue
  <2>2. sn \in SequenceNumbers /\ txAckQueue' \in Seq(SequenceNumbers)
    BY <1>1, <2>1
  <2> HIDE DEF sn
  <2>3. rt' \in RT!Buffers /\ RT!Held(rt') \subseteq RT!Held(rt)
    BY <1>1, <2>1, <2>2, AcknowledgeReleases
  <2> QED
    BY <1>1, <1>2, <2>1, <2>2, <2>3, QuietPreserves
<1>6. CASE \E sn \in SequenceNumbers : receiveAck(sn)
  <2>1. PICK sn \in SequenceNumbers : receiveAck(sn)
    BY <1>6
  <2>2. /\ txAckQueue' = Append(txAckQueue, sn)
        /\ UNCHANGED <<nextSubmit, inputPackets_, rt>>
    BY <2>1 DEF receiveAck, txThreadVars
  <2>3. txAckQueue' \in Seq(SequenceNumbers)
    BY <1>1, <2>2
  <2> QED
    BY <1>1, <1>2, <2>2, <2>3, QuietPreserves
<1> QED
  BY <1>4, <1>5, <1>6 DEF quietStep, TxAckThread

(* Every step preserves the invariant.                                     *)
LEMMA TimedStep == TimedIInv /\ [TimedNext]_timedVars => TimedIInv'
<1> SUFFICES ASSUME TimedIInv, [TimedNext]_timedVars PROVE TimedIInv'
  OBVIOUS
<1>1. CASE tick \/ \E sn \in SequenceNumbers : acknowledge(sn)
  <2>1. /\ wire' = None /\ now' \in {now, now + 1}
        /\ UNCHANGED <<txVars, objects, span, sent, allocator>>
    BY <1>1 DEF tick, acknowledge, turnVars
  <2>2. /\ allocator \in Allocators /\ rt \in RT!Buffers /\ now \in Nat
        /\ txAckQueue \in Seq(SequenceNumbers)
    BY DEF TimedIInv, HeldAreSent, TimesAgree
  <2> QED
    BY <2>1, <2>2, QuietPreserves DEF txVars
<1>2. CASE UNCHANGED timedVars
  BY <1>2 DEF timedVars, txVars, turnVars, TimedIInv, InputInOrder, HeldAreSent,
     TimesAgree, PacketTimes, SpanIsDue, Due, ObjectOf, firstUnsent,
     RetransmissionsSpaced, ReceiverReads
<1> QED
  BY <1>1, <1>2, SubmitPreserves, TryGetPacketSpanPreserves, RetransmitPreserves,
     TransmitNewPreserves, AllocatePreserves, QuietStepPreserves DEF TimedNext

(***************************************************************************)
(* The theorems.                                                           *)
(***************************************************************************)
(* The invariant of the transmitter with its clock and its packets holds.  *)
THEOREM TimedInvariant == TimedSpec => []TimedIInv
BY TimedInitially, TimedStep, PTL DEF TimedSpec

(* isPacketTimedOut, with lastTxTime_ as it is kept, and however late a    *)
(* packet that is due is sent: no packet is sent a second time within a    *)
(* timeout interval of its submission, nor three times within one.         *)
THEOREM RetransmissionsAreSpaced == TimedSpec => []RetransmissionsSpaced
<1>1. TimedIInv => RetransmissionsSpaced
  BY DEF TimedIInv
<1> QED
  BY <1>1, TimedInvariant, PTL

(* Whatever the sizes, what tryTransmit hands to the channel is read by    *)
(* the receiver's DataPacket as the packet the launcher submitted.         *)
THEOREM EveryTransmissionIsRead == TimedSpec => []ReceiverReads
<1>1. TimedIInv => ReceiverReads
  BY DEF TimedIInv
<1> QED
  BY <1>1, TimedInvariant, PTL

(* getNewID never gives out an identifier that is in use.                  *)
THEOREM IDsAreFresh == TimedSpec => []NewIDsAreFresh
<1>1. TimedIInv => NewIDsAreFresh
  BY NewIDIsFresh DEF TimedIInv, NewIDsAreFresh
<1> QED
  BY <1>1, TimedInvariant, PTL
==============================================================================
