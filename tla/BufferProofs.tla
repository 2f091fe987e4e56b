---------------------------- MODULE BufferProofs -----------------------------
(***************************************************************************)
(* Lemmas about the buffers of the three protocols that run over UDP: what *)
(* the operations that the transmitter and the receiver call return.  The  *)
(* first part is about runs of packets, the second about retransmission    *)
(* buffers, the third about resequencing buffers.  For each kind of buffer *)
(* a lemma per protocol leads to one that holds for them all.              *)
(***************************************************************************)
EXTENDS ArqInvariant, NumberLemmas, FiniteSetTheorems

(* The window that go-back-n and selective repeat share.                   *)
GB == INSTANCE GoBackNRT

(* The constants are numbers of the expected ranges.                       *)
LEMMA ConstantTypes ==
  /\ NumPackets \in Nat
  /\ SeqNumModulus \in Nat \ {0}
  /\ SizeModulus \in Nat \ {0}
  /\ WindowSize \in Nat \ {0}
  /\ WindowSize < SizeModulus
  /\ RSWindowSize \in Nat \ {0}
  /\ NumPackets + 1 <= SeqNumModulus
  /\ SelectiveRepeat => NumPackets + WindowSize < SeqNumModulus
  /\ None \notin Int
BY NumPacketsAssumption, ModulusAssumption, NoneAssumption,
   WindowSizeAssumption, RSWindowSizeAssumption, RolloverAssumption
   DEF SelectiveRepeat

(* One of the three protocols runs, and it runs over UDP.                  *)
LEMMA Protocols ==
  /\ ~ UsesSCTP
  /\ StopAndWait \/ GoBackN \/ SelectiveRepeat
  /\ ~ (StopAndWait /\ GoBackN)
  /\ ~ (StopAndWait /\ SelectiveRepeat)
  /\ ~ (GoBackN /\ SelectiveRepeat)
BY UDPAssumption DEF UsesSCTP, StopAndWait, GoBackN, SelectiveRepeat

(* With selective repeat the receiver does not count past the last packet. *)
LEMMA SelectiveRepeatEnds == SelectiveRepeat => ~ RollsOver
BY ConstantTypes DEF RollsOver

(* No packet's number is cut off.                                          *)
LEMMA SeqNumIsPosition ==
  ASSUME NEW p \in Packets
  PROVE  SeqNum(p) = p /\ SeqNum(p) \in SequenceNumbers
BY ConstantTypes, SmallMod DEF SeqNum, Packets, SequenceNumbers

(***************************************************************************)
(* Runs of packets.                                                        *)
(***************************************************************************)
(* A position holds a packet, before the transmission starts again that of *)
(* the same number.                                                        *)
LEMMA PacketAtIs ==
  ASSUME NEW k \in Nat
  PROVE  /\ PacketAt(k) \in Packets
         /\ k <= NumPackets => PacketAt(k) = k
<1>1. NumPackets + 1 \in Nat \ {0}
  BY ConstantTypes
<1>2. PacketAt(k) \in Packets
  <2>1. k % (NumPackets + 1) \in 0 .. (NumPackets + 1) - 1
    BY <1>1, ModBelow
  <2>2. (NumPackets + 1) - 1 = NumPackets
    BY ConstantTypes
  <2> QED
    BY <2>1, <2>2 DEF PacketAt, Packets
<1>3. ASSUME k <= NumPackets
      PROVE  PacketAt(k) = k
  <2>1. k \in 0 .. (NumPackets + 1) - 1
    BY <1>3, ConstantTypes
  <2> QED
    BY <1>1, <2>1, SmallMod DEF PacketAt
<1> QED
  BY <1>2, <1>3

(* Of the packets the receiver may wait for, the one in position k carries *)
(* k as it is counted in 16 bits, and no other packet does.                *)
LEMMA PacketCounted ==
  ASSUME NEW k \in Nat, RollsOver \/ k <= NumPackets + 1, NEW p \in Packets
  PROVE  /\ p = k % SeqNumModulus => p = PacketAt(k)
         /\ k <= NumPackets \/ RollsOver =>
              SeqNum(PacketAt(k)) = k % SeqNumModulus
<1>1. CASE RollsOver
  <2>1. PacketAt(k) = k % SeqNumModulus
    BY <1>1 DEF RollsOver, PacketAt
  <2> QED
    BY <2>1, PacketAtIs, SeqNumIsPosition
<1>2. CASE ~ RollsOver
  <2>1. k \in 0 .. SeqNumModulus - 1
    BY <1>2, ConstantTypes DEF RollsOver
  <2>2. k % SeqNumModulus = k
    BY <2>1, ConstantTypes, SmallMod
  <2>3. p = k => k <= NumPackets
    BY DEF Packets
  <2> QED
    BY <1>2, <2>2, <2>3, PacketAtIs, SeqNumIsPosition
<1> QED
  BY <1>1, <1>2

(* A run of no packets.                                                    *)
LEMMA RunEmpty ==
  ASSUME NEW i \in Int
  PROVE  IsRun(<<>>, i, i)
BY DEF IsRun

(* A run grows by the packet that follows it.                              *)
LEMMA RunAppend ==
  ASSUME NEW q \in Seq(Packets), NEW i \in Int, NEW j \in Nat,
         IsRun(q, i, j), NEW p \in Packets, p = PacketAt(j)
  PROVE  Append(q, p) \in Seq(Packets) /\ IsRun(Append(q, p), i, j + 1)
<1> DEFINE q2 == Append(q, p)
<1>1. /\ q2 \in Seq(Packets) /\ Len(q2) = Len(q) + 1
      /\ q2[Len(q) + 1] = p
      /\ \A n \in 1 .. Len(q) : q2[n] = q[n]
  OBVIOUS
<1> HIDE DEF q2
<1>2. /\ Len(q) \in Nat /\ Len(q) = j - i
      /\ \A n \in 1 .. Len(q) : q[n] = PacketAt(i + n - 1)
  BY DEF IsRun
<1>3. ASSUME NEW n \in 1 .. Len(q2)
      PROVE  q2[n] = PacketAt(i + n - 1)
  <2>1. CASE n \in 1 .. Len(q)
    BY <1>1, <1>2, <2>1
  <2>2. CASE n = Len(q) + 1
    <3>1. i + n - 1 = j
      BY <1>2, <2>2
    <3> QED
      BY <1>1, <2>2, <3>1
  <2> QED
    BY <1>1, <1>2, <2>1, <2>2
<1>4. IsRun(q2, i, j + 1)
  BY <1>1, <1>2, <1>3 DEF IsRun
<1> QED
  BY <1>1, <1>4 DEF q2

(* A run starts with the packet in its first position, and loses it.       *)
LEMMA RunTail ==
  ASSUME NEW q \in Seq(Packets), NEW i \in Int, NEW j \in Int,
         IsRun(q, i, j), q # <<>>
  PROVE  /\ Head(q) = PacketAt(i) /\ Head(q) \in Packets /\ i < j
         /\ Tail(q) \in Seq(Packets) /\ IsRun(Tail(q), i + 1, j)
<1> DEFINE t == Tail(q)
<1>1. /\ Head(q) = q[1] /\ Head(q) \in Packets
      /\ Len(q) \in Nat /\ Len(q) > 0
      /\ t \in Seq(Packets) /\ Len(t) = Len(q) - 1
      /\ \A n \in 1 .. Len(t) : t[n] = q[n + 1]
  OBVIOUS
<1> HIDE DEF t
<1>2. /\ Len(q) = j - i
      /\ \A n \in 1 .. Len(q) : q[n] = PacketAt(i + n - 1)
  BY DEF IsRun
<1>3. q[1] = PacketAt(i)
  <2>1. 1 \in 1 .. Len(q) /\ i + 1 - 1 = i
    BY <1>1
  <2> QED
    BY <1>2, <2>1
<1>4. ASSUME NEW n \in 1 .. Len(t)
      PROVE  t[n] = PacketAt(i + 1 + n - 1)
  <2>1. n + 1 \in 1 .. Len(q) /\ i + (n + 1) - 1 = i + 1 + n - 1
    BY <1>1
  <2> QED
    BY <1>1, <1>2, <2>1
<1>5. IsRun(t, i + 1, j)
  BY <1>1, <1>2, <1>4 DEF IsRun
<1> QED
  BY <1>1, <1>2, <1>3, <1>5 DEF t

(* Two adjacent runs make one.                                             *)
LEMMA RunConcat ==
  ASSUME NEW q \in Seq(Packets), NEW t \in Seq(Packets),
         NEW i \in Int, NEW j \in Int, NEW k \in Int,
         IsRun(q, i, j), IsRun(t, j, k)
  PROVE  q \o t \in Seq(Packets) /\ IsRun(q \o t, i, k)
<1> DEFINE c == q \o t
<1>1. /\ c \in Seq(Packets) /\ Len(c) = Len(q) + Len(t)
      /\ Len(q) \in Nat /\ Len(t) \in Nat
      /\ \A n \in 1 .. Len(c) :
           c[n] = IF n <= Len(q) THEN q[n] ELSE t[n - Len(q)]
  OBVIOUS
<1> HIDE DEF c
<1>2. /\ Len(q) = j - i /\ Len(t) = k - j
      /\ \A n \in 1 .. Len(q) : q[n] = PacketAt(i + n - 1)
      /\ \A n \in 1 .. Len(t) : t[n] = PacketAt(j + n - 1)
  BY DEF IsRun
<1>3. ASSUME NEW n \in 1 .. Len(c)
      PROVE  c[n] = PacketAt(i + n - 1)
  <2>1. CASE n <= Len(q)
    BY <1>1, <1>2, <2>1
  <2>2. CASE n > Len(q)
    <3>1. /\ n - Len(q) \in 1 .. Len(t)
          /\ j + (n - Len(q)) - 1 = i + n - 1
      BY <1>1, <1>2, <2>2
    <3>2. c[n] = t[n - Len(q)]
      BY <1>1, <2>2
    <3> QED
      BY <1>2, <3>1, <3>2
  <2> QED
    BY <1>1, <2>1, <2>2
<1>4. IsRun(c, i, k)
  BY <1>1, <1>2, <1>3 DEF IsRun
<1> QED
  BY <1>1, <1>4 DEF c

(* A sequence with no elements is empty.                                   *)
LEMMA NoElements ==
  ASSUME NEW q \in Seq(Packets)
  PROVE  Elements(q) = {} <=> q = <<>>
<1>1. ASSUME Elements(q) = {}
      PROVE  q = <<>>
  <2>1. ASSUME NEW i \in 1 .. Len(q)
        PROVE  FALSE
    <3>1. i \in DOMAIN q
      OBVIOUS
    <3>2. q[i] \in Elements(q)
      BY <3>1 DEF Elements
    <3> QED
      BY <1>1, <3>2
  <2>2. Len(q) = 0
    <3>1. Len(q) \in Nat
      OBVIOUS
    <3>2. CASE Len(q) > 0
      <4>1. 1 \in 1 .. Len(q)
        BY <3>1, <3>2
      <4> QED
        BY <2>1, <4>1
    <3> QED
      BY <3>1, <3>2
  <2> QED
    BY <2>2
<1>2. ASSUME q = <<>>
      PROVE  Elements(q) = {}
  BY <1>2 DEF Elements
<1> QED
  BY <1>1, <1>2

(* The packets in a run.                                                   *)
LEMMA RunPackets ==
  ASSUME NEW q \in Seq(Packets), NEW i \in Int, NEW j \in Int, IsRun(q, i, j)
  PROVE  Elements(q) = {PacketAt(k) : k \in i .. j - 1}
<1>1. /\ Len(q) = j - i /\ Len(q) \in Nat /\ DOMAIN q = 1 .. Len(q)
      /\ \A m \in 1 .. Len(q) : q[m] = PacketAt(i + m - 1)
  BY DEF IsRun
<1>2. ASSUME NEW x \in Elements(q)
      PROVE  x \in {PacketAt(k) : k \in i .. j - 1}
  <2>1. PICK m \in 1 .. Len(q) : x = q[m]
    BY <1>1, <1>2 DEF Elements
  <2>2. i + m - 1 \in i .. j - 1
    BY <1>1
  <2> QED
    BY <1>1, <2>1, <2>2
<1>3. ASSUME NEW k \in i .. j - 1
      PROVE  PacketAt(k) \in Elements(q)
  <2>1. PICK m : m = k - i + 1
    OBVIOUS
  <2>2. m \in 1 .. Len(q) /\ i + m - 1 = k
    BY <1>1, <2>1
  <2>3. q[m] = PacketAt(k)
    BY <1>1, <2>2
  <2> QED
    BY <1>1, <2>2, <2>3 DEF Elements
<1> QED
  BY <1>2, <1>3

(* The elements of a run that does not start again.                        *)
LEMMA RunElements ==
  ASSUME NEW q \in Seq(Packets), NEW i \in Nat, NEW j \in 0 .. NumPackets + 1,
         IsRun(q, i, j)
  PROVE  Elements(q) = i .. j - 1
<1>1. /\ DOMAIN q = 1 .. j - i
      /\ \A n \in 1 .. j - i : q[n] = PacketAt(i + n - 1)
  BY DEF IsRun
<1>2. ASSUME NEW n \in 1 .. j - i
      PROVE  q[n] = i + n - 1
  <2>1. i + n - 1 \in Nat /\ i + n - 1 <= NumPackets
    BY ConstantTypes
  <2> QED
    BY <1>1, <2>1, PacketAtIs
<1>3. ASSUME NEW x \in Elements(q) PROVE x \in i .. j - 1
  <2>1. PICK n \in 1 .. j - i : x = q[n]
    BY <1>1 DEF Elements
  <2> QED
    BY <1>2, <2>1
<1>4. ASSUME NEW x \in i .. j - 1 PROVE x \in Elements(q)
  <2>1. x - i + 1 \in 1 .. j - i /\ q[x - i + 1] = i + (x - i + 1) - 1
    BY <1>2
  <2> QED
    BY <1>1, <2>1 DEF Elements
<1> QED
  BY <1>3, <1>4

(***************************************************************************)
(* The retransmission buffers.                                             *)
(***************************************************************************)
(* The fields of a window.                                                 *)
LEMMA WindowFields ==
  ASSUME NEW r \in GB!Buffers
  PROVE  /\ r.buffer_ \in [0 .. WindowSize - 1 -> Packets \cup {None}]
         /\ r.startIdx_ \in 0 .. WindowSize - 1
         /\ r.nextToAck_ \in SequenceNumbers
         /\ r.packetsInBuffer_ \in 0 .. SizeModulus - 1
BY DEF GB!Buffers, GB!Slots, GB!Packets, GB!SequenceNumbers, Packets,
       SequenceNumbers

(* A window is the record of its fields.                                   *)
LEMMA WindowOfFields ==
  ASSUME NEW b \in [0 .. WindowSize - 1 -> Packets \cup {None}],
         NEW s \in 0 .. WindowSize - 1,
         NEW n \in SequenceNumbers,
         NEW c \in 0 .. SizeModulus - 1,
         NEW new,
         new = [buffer_ |-> b, startIdx_ |-> s, nextToAck_ |-> n,
                packetsInBuffer_ |-> c]
  PROVE  /\ new \in GB!Buffers
         /\ new.buffer_ = b /\ new.startIdx_ = s
         /\ new.nextToAck_ = n /\ new.packetsInBuffer_ = c
BY DEF GB!Buffers, GB!Slots, GB!Packets, GB!SequenceNumbers, Packets,
       SequenceNumbers

(* The window with another array and another count.                        *)
LEMMA WindowChanged ==
  ASSUME NEW r \in GB!Buffers, NEW b, NEW c, NEW new,
         new = [r EXCEPT !.buffer_ = b, !.packetsInBuffer_ = c]
  PROVE  new = [buffer_ |-> b, startIdx_ |-> r.startIdx_,
                nextToAck_ |-> r.nextToAck_, packetsInBuffer_ |-> c]
BY DEF GB!Buffers

(* What it takes to hold packets.                                          *)
LEMMA WindowHoldsIf ==
  ASSUME NEW r, NEW i, NEW j,
         r.nextToAck_ = i, r.packetsInBuffer_ = j - i, j - i \in 0 .. WindowSize,
         \A k \in 0 .. WindowSize - 1 :
           r.buffer_[(r.startIdx_ + k) % WindowSize]
             = IF k < j - i THEN i + k ELSE None
  PROVE  WindowHolds(r, i, j)
BY Zenon DEF WindowHolds

(* The window starts empty.                                                *)
LEMMA EmptyWindow == GB!GoBackN \in GB!Buffers /\ WindowHolds(GB!GoBackN, 0, 0)
<1>1. /\ WindowSize \in Nat \ {0} /\ SizeModulus \in Nat \ {0}
      /\ SeqNumModulus \in Nat \ {0}
  BY ConstantTypes
<1>2. GB!GoBackN = [buffer_ |-> [s \in 0 .. WindowSize - 1 |-> None],
                    startIdx_ |-> 0, nextToAck_ |-> 0, packetsInBuffer_ |-> 0]
  BY DEF GB!GoBackN, GB!Slots
<1>3. GB!GoBackN \in GB!Buffers
  BY <1>1, <1>2, WindowOfFields DEF SequenceNumbers
<1>4. ASSUME NEW k \in 0 .. WindowSize - 1
      PROVE  GB!GoBackN.buffer_[(GB!GoBackN.startIdx_ + k) % WindowSize] = None
  <2>1. 0 + k \in 0 .. WindowSize - 1 /\ (0 + k) % WindowSize = 0 + k
    BY <1>1, SmallMod
  <2> QED
    BY <1>2, <2>1
<1>5. 0 - 0 = 0 /\ 0 \in 0 .. WindowSize /\ \A k \in 0 .. WindowSize - 1 : ~ (k < 0)
  BY <1>1
<1> QED
  BY <1>2, <1>3, <1>4, <1>5 DEF WindowHolds

(* What a window holds, in numbers.                                        *)
LEMMA WindowNumbers ==
  ASSUME NEW r \in GB!Buffers, NEW i \in Int, NEW j \in Int,
         WindowHolds(r, i, j)
  PROVE  /\ WindowSize \in Nat \ {0} /\ None \notin Int
         /\ r.startIdx_ \in 0 .. WindowSize - 1
         /\ r.nextToAck_ = i /\ i \in Nat /\ i \in SequenceNumbers
         /\ r.packetsInBuffer_ = j - i /\ j - i \in 0 .. WindowSize
         /\ \A k \in 0 .. WindowSize - 1 :
              r.buffer_[(r.startIdx_ + k) % WindowSize]
                = IF k < j - i THEN i + k ELSE None
BY WindowFields, ConstantTypes DEF WindowHolds, SequenceNumbers

(* The packets held are those of the window.                               *)
LEMMA HeldByWindow ==
  ASSUME NEW r \in GB!Buffers, NEW i \in Int, NEW j \in Int,
         WindowHolds(r, i, j)
  PROVE  GB!Held(r) = i .. j - 1
<1> DEFINE slot(k) == (r.startIdx_ + k) % WindowSize
<1>1. /\ WindowSize \in Nat \ {0} /\ None \notin Int
      /\ r.startIdx_ \in 0 .. WindowSize - 1
      /\ j - i \in 0 .. WindowSize
      /\ \A k \in 0 .. WindowSize - 1 :
           r.buffer_[slot(k)] = IF k < j - i THEN i + k ELSE None
  BY WindowNumbers
<1>2. GB!Held(r) = {r.buffer_[s] : s \in 0 .. WindowSize - 1} \ {None}
  BY DEF GB!Held, GB!Slots
<1>3. ASSUME NEW p \in GB!Held(r)
      PROVE  p \in i .. j - 1
  <2>1. PICK s \in 0 .. WindowSize - 1 : p = r.buffer_[s] /\ p # None
    BY <1>2
  <2>2. PICK k \in 0 .. WindowSize - 1 : slot(k) = s
    BY <1>1, SlotsCovered
  <2>3. p = IF k < j - i THEN i + k ELSE None
    BY <1>1, <2>1, <2>2
  <2> QED
    BY <1>1, <2>1, <2>3
<1>4. ASSUME NEW p \in i .. j - 1
      PROVE  p \in GB!Held(r)
  <2> DEFINE k == p - i
  <2>1. k \in 0 .. WindowSize - 1 /\ k < j - i /\ p # None /\ i + k = p
    BY <1>1
  <2> HIDE DEF k
  <2>2. r.buffer_[slot(k)] = p
    BY <1>1, <2>1
  <2>3. slot(k) \in 0 .. WindowSize - 1
    BY <1>1, <2>1
  <2> QED
    BY <1>2, <2>1, <2>2, <2>3
<1> QED
  BY <1>3, <1>4

(* A packet the transmitter may add finds a slot, and goes to the end of   *)
(* the window.                                                             *)
LEMMA AddToWindow ==
  ASSUME NEW r \in GB!Buffers, NEW i \in Int, NEW p \in Packets,
         WindowHolds(r, i, p), GB!do_readyForNewPacket(r)
  PROVE  LET r2 == GB!do_addPacket(r, p)
         IN  GB!HasSpace(r) /\ r2 \in GB!Buffers /\ WindowHolds(r2, i, p + 1)
<1> DEFINE slot(m) == (r.startIdx_ + m) % WindowSize
           k == r.packetsInBuffer_
           b == [r.buffer_ EXCEPT ![slot(k)] = p]
           c == k + 1
<1>1. /\ WindowSize \in Nat \ {0} /\ None \notin Int /\ p \in Int
      /\ WindowSize < SizeModulus /\ SizeModulus \in Nat \ {0}
      /\ r.buffer_ \in [0 .. WindowSize - 1 -> Packets \cup {None}]
      /\ r.startIdx_ \in 0 .. WindowSize - 1
      /\ r.nextToAck_ = i /\ i \in SequenceNumbers
      /\ k = p - i /\ k \in 0 .. WindowSize - 1
      /\ \A m \in 0 .. WindowSize - 1 :
           r.buffer_[slot(m)] = IF m < k THEN i + m ELSE None
  <2>1. p \in Int
    BY DEF Packets
  <2>2. k < WindowSize
    BY DEF GB!do_readyForNewPacket
  <2>3. /\ WindowSize \in Nat \ {0} /\ None \notin Int
        /\ r.startIdx_ \in 0 .. WindowSize - 1
        /\ r.nextToAck_ = i /\ i \in SequenceNumbers
        /\ k = p - i /\ k \in 0 .. WindowSize
    BY <2>1, WindowNumbers
  <2>4. \A m \in 0 .. WindowSize - 1 :
          r.buffer_[slot(m)] = IF m < p - i THEN i + m ELSE None
    BY <2>1, WindowNumbers
  <2> HIDE DEF k
  <2> QED
    BY <2>1, <2>2, <2>3, <2>4, WindowFields, ConstantTypes
<1> HIDE DEF k
<1>2. \A m \in 0 .. WindowSize - 1 : slot(m) \in 0 .. WindowSize - 1
  <2> SUFFICES ASSUME NEW m \in 0 .. WindowSize - 1
               PROVE  slot(m) \in 0 .. WindowSize - 1
    OBVIOUS
  <2>1. m \in Nat
    BY <1>1
  <2> QED
    BY <1>1, <2>1, SlotIsSlot
<1>3. ASSUME NEW m \in 0 .. WindowSize - 1, m # k
      PROVE  slot(m) # slot(k)
  BY <1>1, <1>3, SlotsDiffer
<1> HIDE DEF slot
<1>4. GB!EmptyOffsets(r) = k .. WindowSize - 1
  <2>1. GB!EmptyOffsets(r)
          = {m \in 0 .. WindowSize - 1 : r.buffer_[slot(m)] = None}
    BY DEF GB!EmptyOffsets, GB!Slots, GB!Slot, slot
  <2> QED
    BY <1>1, <2>1
<1>5. GB!Least(k .. WindowSize - 1) = k
  <2>1. /\ k .. WindowSize - 1 \in SUBSET Int
        /\ k \in k .. WindowSize - 1
        /\ \A m \in k .. WindowSize - 1 : k <= m
    BY <1>1
  <2>2. Least(k .. WindowSize - 1) = k
    BY <2>1, LeastIs
  <2> QED
    BY <2>2 DEF GB!Least, Least
<1>6. GB!HasSpace(r)
  <2>1. k \in k .. WindowSize - 1
    BY <1>1
  <2> QED
    BY <1>4, <2>1 DEF GB!HasSpace
<1>7. c % SizeModulus = c /\ c \in 0 .. SizeModulus - 1
  <2>1. c \in 0 .. SizeModulus - 1
    BY <1>1
  <2> QED
    BY <1>1, <2>1, SmallMod
<1>8. GB!do_addPacket(r, p)
        = [buffer_ |-> b, startIdx_ |-> r.startIdx_, nextToAck_ |-> i,
           packetsInBuffer_ |-> c]
  <2>1. GB!do_addPacket(r, p)
          = [r EXCEPT !.buffer_[slot(k)] = p, !.packetsInBuffer_ = c]
    BY <1>4, <1>5, <1>6, <1>7 DEF GB!do_addPacket, GB!Slot, slot, k
  <2>2. GB!do_addPacket(r, p)
          = [r EXCEPT !.buffer_ = b, !.packetsInBuffer_ = c]
    BY <2>1, Zenon
  <2> HIDE DEF b, c
  <2> QED
    BY <1>1, <2>2, WindowChanged
<1>9. b \in [0 .. WindowSize - 1 -> Packets \cup {None}]
  BY <1>1, <1>2
<1>10. ASSUME NEW m \in 0 .. WindowSize - 1
       PROVE  b[slot(m)] = IF m < c THEN i + m ELSE None
  <2>1. CASE m = k
    <3>1. b[slot(k)] = p
      BY <1>1, <1>2
    <3> HIDE DEF b
    <3> QED
      BY <1>1, <2>1, <3>1
  <2>2. CASE m # k
    <3>1. b[slot(m)] = r.buffer_[slot(m)]
      BY <1>1, <1>3, <2>2
    <3> HIDE DEF b
    <3> QED
      BY <1>1, <2>2, <3>1
  <2> QED
    BY <2>1, <2>2
<1> HIDE DEF b
<1> DEFINE r2 == GB!do_addPacket(r, p)
<1>11. /\ r2 \in GB!Buffers
       /\ r2.buffer_ = b /\ r2.startIdx_ = r.startIdx_
       /\ r2.nextToAck_ = i /\ r2.packetsInBuffer_ = c
  <2> HIDE DEF r2, c
  <2> QED
    <3>1. PICK b2, s, n, c2 : /\ b2 = b /\ s = r.startIdx_ /\ n = i /\ c2 = c
      OBVIOUS
    <3>2. /\ b2 \in [0 .. WindowSize - 1 -> Packets \cup {None}]
          /\ s \in 0 .. WindowSize - 1
      BY <1>1, <1>9, <3>1
    <3>3. n \in SequenceNumbers /\ c2 \in 0 .. SizeModulus - 1
      BY <1>1, <1>7, <3>1
    <3>4. PICK new : new = [buffer_ |-> b2, startIdx_ |-> s, nextToAck_ |-> n,
                            packetsInBuffer_ |-> c2]
      OBVIOUS
    <3>5. /\ new \in GB!Buffers
          /\ new.buffer_ = b2 /\ new.startIdx_ = s
          /\ new.nextToAck_ = n /\ new.packetsInBuffer_ = c2
      BY <3>2, <3>3, <3>4, WindowOfFields
    <3>6. r2 = new
      BY <1>8, <3>1, <3>4 DEF r2
    <3> QED
      BY <3>1, <3>5, <3>6
<1>12. (p + 1) - i = c /\ c \in 0 .. WindowSize
  BY <1>1 DEF SequenceNumbers
<1> HIDE DEF r2, c
<1>13. WindowHolds(r2, i, p + 1)
  <2>1. ASSUME NEW m \in 0 .. WindowSize - 1
        PROVE  r2.buffer_[(r2.startIdx_ + m) % WindowSize]
                 = IF m < (p + 1) - i THEN i + m ELSE None
    <3>1. r2.buffer_[(r2.startIdx_ + m) % WindowSize] = b[slot(m)]
      BY <1>11 DEF slot
    <3>2. b[slot(m)] = IF m < c THEN i + m ELSE None
      BY <1>10
    <3> QED
      BY <1>12, <3>1, <3>2
  <2> QED
    BY <1>11, <1>12, <2>1, WindowHoldsIf
<1> QED
  BY <1>6, <1>11, <1>13 DEF r2

(* An acknowledgement of a packet in the window releases it and all before *)
(* it, one of an earlier packet or of none of the window nothing; the end  *)
(* of the window stays where it is.                                        *)
LEMMA ReleaseFromWindow ==
  ASSUME NEW r \in GB!Buffers, NEW i \in Int, NEW j \in Int,
         WindowHolds(r, i, j), j <= NumPackets + 1, NEW sn \in SequenceNumbers,
         \/ sn < j /\ sn # NumPackets
         \/ sn >= NumPackets + WindowSize
  PROVE  LET r2 == GB!do_acknowledgePacket(r, sn)
             i2 == IF sn < i \/ sn >= j THEN i ELSE sn + 1
         IN  r2 \in GB!Buffers /\ WindowHolds(r2, i2, j)
<1> DEFINE W == WindowSize
           s == r.startIdx_
           k == r.packetsInBuffer_
           d == sn + 1 - i
           r2 == GB!do_acknowledgePacket(r, sn)
<1>1. /\ W \in Nat \ {0} /\ None \notin Int
      /\ W < SizeModulus /\ SizeModulus \in Nat \ {0}
      /\ SeqNumModulus \in Nat \ {0} /\ NumPackets \in Nat
      /\ NumPackets + 1 <= SeqNumModulus
      /\ r.buffer_ \in [0 .. W - 1 -> Packets \cup {None}]
      /\ s \in 0 .. W - 1
      /\ r.nextToAck_ = i /\ i \in Nat
      /\ k = j - i /\ k \in 0 .. W
      /\ sn \in Nat /\ d \in Int
  <2>1. /\ W \in Nat \ {0} /\ None \notin Int
        /\ W < SizeModulus /\ SizeModulus \in Nat \ {0}
        /\ SeqNumModulus \in Nat \ {0} /\ NumPackets \in Nat
        /\ NumPackets + 1 <= SeqNumModulus
    BY ConstantTypes
  <2>2. /\ s \in 0 .. W - 1 /\ r.nextToAck_ = i /\ i \in Nat
        /\ k = j - i /\ j - i \in 0 .. W
    BY WindowNumbers
  <2>3. r.buffer_ \in [0 .. W - 1 -> Packets \cup {None}]
    BY WindowFields
  <2>4. sn \in Nat
    BY <2>1 DEF SequenceNumbers
  <2> HIDE DEF W, s, k
  <2> QED
    BY <2>1, <2>2, <2>3, <2>4
<1>2. \A m \in 0 .. W - 1 : r.buffer_[(s + m) % W] = IF m < k THEN i + m ELSE None
  <2>1. \A m \in 0 .. W - 1 :
          r.buffer_[(s + m) % W] = IF m < j - i THEN i + m ELSE None
    BY WindowNumbers
  <2> QED
    BY <1>1, <2>1
<1>3. CASE sn < i \/ sn >= j
  <2>1. \/ sn >= i + W
        \/ ~ GB!do_packetsPending(r)
        \/ sn < i
    <3>1. CASE sn < i
      BY <3>1
    <3>2. CASE sn >= NumPackets + WindowSize
      <4>1. CASE k = 0
        BY <4>1 DEF GB!do_packetsPending
      <4>2. CASE k # 0
        <5>1. i <= NumPackets
          BY <1>1, <4>2
        <5> QED
          BY <1>1, <3>2, <5>1
      <4> QED
        BY <4>1, <4>2
    <3>3. CASE sn >= j /\ sn < j
      BY <1>1, <3>3
    <3> QED
      BY <1>3, <3>1, <3>2, <3>3
  <2>2. r2 = r
    BY <1>1, <2>1 DEF GB!do_acknowledgePacket
  <2> QED
    BY <1>3, <2>2
<1>4. CASE ~ (sn < i \/ sn >= j)
  <2> DEFINE b == [t \in 0 .. W - 1 |->
                     IF t \in {(s + m) % W : m \in 0 .. d - 1}
                     THEN None ELSE r.buffer_[t]]
             s2 == (s + d) % W
  <2>1. d \in 1 .. k /\ d \in 0 .. W /\ k > 0
    BY <1>1, <1>4
  <2>2. GB!AckedOffsets(r, sn) = 0 .. d - 1
    <3>1. GB!AckedOffsets(r, sn) = {m \in 0 .. W - 1 : i + m <= sn}
      BY <1>1 DEF GB!AckedOffsets, GB!Slots
    <3> QED
      BY <1>1, <2>1, <3>1
  <2>3. GB!Cardinality(0 .. d - 1) = d
    <3>1. Cardinality(0 .. d - 1) = d - 1 - 0 + 1
      <4>1. 0 \in Int /\ d - 1 \in Int /\ 0 <= d - 1
        BY <1>1, <2>1
      <4> HIDE DEF d
      <4> QED
        BY <4>1, FS_Interval
    <3>2. GB!Cardinality(0 .. d - 1) = Cardinality(0 .. d - 1)
      BY DEF GB!Cardinality, Cardinality
    <3> QED
      BY <1>1, <3>1, <3>2
  <2>4. (sn + 1) % SeqNumModulus = sn + 1 /\ sn + 1 \in SequenceNumbers
    <3>1. sn + 1 \in 0 .. SeqNumModulus - 1
      <4>1. sn < j /\ sn # NumPackets
        BY <1>1, <1>4
      <4> HIDE DEF d
      <4> QED
        BY <1>1, <4>1
    <3> QED
      BY <1>1, <3>1, SmallMod DEF SequenceNumbers
  <2>5. (k - d) % SizeModulus = k - d /\ k - d \in 0 .. SizeModulus - 1
    <3> HIDE DEF d
    <3>1. k - d \in 0 .. SizeModulus - 1
      BY <1>1, <2>1
    <3> QED
      BY <1>1, <3>1, SmallMod
  <2>6. s2 \in 0 .. W - 1
    <3> HIDE DEF d
    <3> QED
      BY <1>1, <2>1
  <2>7. b \in [0 .. W - 1 -> Packets \cup {None}]
    BY <1>1
  <2>8. r2 = [buffer_ |-> b, startIdx_ |-> s2, nextToAck_ |-> sn + 1,
              packetsInBuffer_ |-> k - d]
    <3>1. {GB!Slot(r, m) : m \in GB!AckedOffsets(r, sn)}
            = {(s + m) % W : m \in 0 .. d - 1}
      BY <2>2 DEF GB!Slot
    <3>2. GB!Slot(r, sn + 1 - r.nextToAck_) = s2
      BY <1>1 DEF GB!Slot
    <3>3. r2 = [buffer_ |-> [t \in 0 .. W - 1 |->
                              IF t \in {GB!Slot(r, m) :
                                          m \in GB!AckedOffsets(r, sn)}
                              THEN None ELSE r.buffer_[t]],
                startIdx_ |-> GB!Slot(r, sn + 1 - r.nextToAck_),
                nextToAck_ |-> (sn + 1) % SeqNumModulus,
                packetsInBuffer_ |->
                  (k - GB!Cardinality(GB!AckedOffsets(r, sn))) % SizeModulus]
      <4>1. ~ (\/ sn >= r.nextToAck_ + W
               \/ ~ GB!do_packetsPending(r)
               \/ sn < r.nextToAck_)
        <5>1. ~ (sn >= i + W) /\ k > 0 /\ ~ (sn < i)
          BY <1>1, <1>4, <2>1
        <5> QED
          BY <1>1, <5>1 DEF GB!do_packetsPending
      <4> QED
        BY <4>1, Zenon DEF GB!do_acknowledgePacket, GB!Slots
    <3> HIDE DEF d, s2
    <3> QED
      BY <2>2, <2>3, <2>4, <2>5, <3>1, <3>2, <3>3
  <2>9. /\ r2 \in GB!Buffers
        /\ r2.buffer_ = b /\ r2.startIdx_ = s2
        /\ r2.nextToAck_ = sn + 1 /\ r2.packetsInBuffer_ = k - d
    <3> HIDE DEF b, s2, d, r2
    <3> QED
      BY <2>4, <2>5, <2>6, <2>7, <2>8, WindowOfFields
  <2>10. \A m \in 0 .. W - 1 :
           b[(s2 + m) % W] = IF m < k - d THEN i + d + m ELSE None
    <3> SUFFICES ASSUME NEW m \in 0 .. W - 1
                 PROVE  b[(s2 + m) % W] = IF m < k - d THEN i + d + m ELSE None
      OBVIOUS
    <3> DEFINE n == IF d + m < W THEN d + m ELSE d + m - W
               acked(t) == \E x \in 0 .. d - 1 : t = (s + x) % W
               u == (s2 + m) % W
    <3>1. /\ W \in Nat \ {0} /\ k \in 0 .. W /\ i \in Nat
          /\ s \in 0 .. W - 1 /\ d \in 1 .. k /\ d \in 0 .. W
      BY <1>1, <2>1
    <3>2. n \in 0 .. W - 1 /\ u = (s + n) % W /\ u \in 0 .. W - 1
      <4> HIDE DEF W, s, d
      <4> QED
        BY <3>1, WrapsTwice
    <3>3. b[u] = IF acked(u) THEN None ELSE r.buffer_[u]
      <4> HIDE DEF s2, u, d, s
      <4> QED
        BY <3>2
    <3>4. r.buffer_[u] = IF n < k THEN i + n ELSE None
      <4> HIDE DEF u, n, k, s, W
      <4> QED
        BY <1>2, <3>2
    <3> HIDE DEF b, u, s2, d, s, k, W
    <3>5. CASE d + m < W
      <4>1. ASSUME NEW x \in 0 .. d - 1, u = (s + x) % W
            PROVE  FALSE
        <5>1. x \in 0 .. W - 1 /\ x # n
          BY <3>1, <3>5
        <5> HIDE DEF n
        <5> QED
          BY <3>1, <3>2, <4>1, <5>1, SlotsDiffer
      <4>2. b[u] = IF n < k THEN i + n ELSE None
        BY <3>3, <3>4, <4>1
      <4> QED
        BY <3>1, <3>5, <4>2 DEF u
    <3>6. CASE d + m >= W
      <4>1. n \in 0 .. d - 1
        BY <3>1, <3>6
      <4>2. b[u] = None
        BY <3>2, <3>3, <4>1
      <4>3. ~ (m < k - d)
        BY <3>1, <3>6
      <4> QED
        BY <4>2, <4>3 DEF u
    <3> QED
      BY <3>1, <3>5, <3>6
  <2>11. i + d = sn + 1 /\ k - d = j - (sn + 1) /\ k - d \in 0 .. W
    BY <1>1, <2>1
  <2> HIDE DEF b, s2, d, r2
  <2>12. WindowHolds(r2, sn + 1, j)
    <3>1. ASSUME NEW m \in 0 .. WindowSize - 1
          PROVE  r2.buffer_[(r2.startIdx_ + m) % WindowSize]
                   = IF m < j - (sn + 1) THEN sn + 1 + m ELSE None
      BY <2>9, <2>10, <2>11
    <3> QED
      BY <2>9, <2>11, <3>1, WindowHoldsIf
  <2> QED
    BY <1>4, <2>9, <2>12 DEF r2
<1> QED
  BY <1>3, <1>4

(* A packet found due is one that is held.                                 *)
LEMMA DueInWindow ==
  ASSUME NEW r \in GB!Buffers, NEW timedOut \in SUBSET GB!Held(r)
  PROVE  GB!do_tryGetPacketSpan(r, timedOut) \in GB!Held(r) \cup {None}
<1> DEFINE due == {m \in GB!Slots : r.buffer_[GB!Slot(r, m)] \in timedOut}
           p == r.buffer_[GB!Slot(r, GB!Least(due))]
<1>1. GB!do_tryGetPacketSpan(r, timedOut)
        = IF GB!do_packetsPending(r) /\ due # {} THEN p ELSE None
  BY DEF GB!do_tryGetPacketSpan
<1>2. ASSUME due # {}
      PROVE  p \in timedOut
  <2>1. due \in SUBSET Nat
    BY ConstantTypes DEF GB!Slots
  <2>2. \E m \in due : \A n \in due : m <= n
    <3> HIDE DEF due
    <3> QED
      BY <1>2, <2>1, SmallestExists
  <2>3. GB!Least(due) \in due
    <3> HIDE DEF due
    <3> QED
      BY <2>2 DEF GB!Least
  <2> QED
    BY <2>3
<1> QED
  BY <1>1, <1>2

(* With go-back-n every call on a retransmission buffer goes to the window. *)
LEMMA GoBackNRTCalls ==
  ASSUME Protocol = "go-back-n"
  PROVE
  /\ RT!Buffers = GB!Buffers
  /\ RT!Empty = GB!GoBackN
  /\ \A r : /\ RT!Held(r) = GB!Held(r)
            /\ RT!readyForNewPacket(r) <=> GB!do_readyForNewPacket(r)
            /\ RT!HasSpace(r) <=> GB!HasSpace(r)
  /\ \A r, x : /\ RT!addPacket(r, x) = GB!do_addPacket(r, x)
               /\ RT!acknowledgePacket(r, x) = GB!do_acknowledgePacket(r, x)
               /\ RT!tryGetPacketSpan(r, x) = GB!do_tryGetPacketSpan(r, x)
BY ZenonT(60)
   DEF RT!Buffers, RT!Empty, RT!Held, RT!readyForNewPacket, RT!HasSpace,
       RT!addPacket, RT!acknowledgePacket,
       RT!tryGetPacketSpan, RT!GBN!Buffers, RT!GBN!GoBackN, RT!GBN!Held,
       RT!GBN!do_readyForNewPacket,
       RT!GBN!do_addPacket, RT!GBN!do_acknowledgePacket,
       RT!GBN!do_tryGetPacketSpan, RT!GBN!Slots, RT!GBN!Slot,
       RT!GBN!EmptyOffsets, RT!GBN!HasSpace, RT!GBN!Least,
       RT!GBN!do_packetsPending, RT!GBN!AckedOffsets, RT!GBN!Packets,
       RT!GBN!SequenceNumbers, RT!GBN!Cardinality, GB!Buffers, GB!GoBackN,
       GB!Held, GB!do_readyForNewPacket, GB!do_addPacket,
       GB!do_acknowledgePacket,
       GB!do_tryGetPacketSpan, GB!Slots, GB!Slot, GB!EmptyOffsets,
       GB!HasSpace, GB!Least, GB!do_packetsPending, GB!AckedOffsets,
       GB!Packets, GB!SequenceNumbers, GB!Cardinality

(* The same of selective repeat.                                           *)
LEMMA SelectiveRepeatRTCalls ==
  ASSUME Protocol = "selective-repeat"
  PROVE
  /\ RT!Buffers = GB!Buffers
  /\ RT!Empty = GB!GoBackN
  /\ \A r : /\ RT!Held(r) = GB!Held(r)
            /\ RT!readyForNewPacket(r) <=> GB!do_readyForNewPacket(r)
            /\ RT!HasSpace(r) <=> GB!HasSpace(r)
  /\ \A r, x : /\ RT!addPacket(r, x) = GB!do_addPacket(r, x)
               /\ RT!acknowledgePacket(r, x) = GB!do_acknowledgePacket(r, x)
               /\ RT!tryGetPacketSpan(r, x) = GB!do_tryGetPacketSpan(r, x)
BY ZenonT(60)
   DEF RT!Buffers, RT!Empty, RT!Held, RT!readyForNewPacket, RT!HasSpace,
       RT!addPacket, RT!acknowledgePacket,
       RT!tryGetPacketSpan, RT!SR!Buffers, RT!SR!SelectiveRepeat, RT!SR!Held,
       RT!SR!do_readyForNewPacket, RT!SR!HasSpace,
       RT!SR!do_addPacket, RT!SR!do_acknowledgePacket,
       RT!SR!do_tryGetPacketSpan, RT!SR!Window!Buffers, RT!SR!Window!GoBackN,
       RT!SR!Window!Held, RT!SR!Window!do_readyForNewPacket,
       RT!SR!Window!do_addPacket,
       RT!SR!Window!do_acknowledgePacket, RT!SR!Window!do_tryGetPacketSpan,
       RT!SR!Window!Slots, RT!SR!Window!Slot, RT!SR!Window!EmptyOffsets,
       RT!SR!Window!HasSpace, RT!SR!Window!Least,
       RT!SR!Window!do_packetsPending, RT!SR!Window!AckedOffsets,
       RT!SR!Window!Packets, RT!SR!Window!SequenceNumbers,
       RT!SR!Window!Cardinality, GB!Buffers, GB!GoBackN, GB!Held,
       GB!do_readyForNewPacket, GB!do_addPacket, GB!do_acknowledgePacket,
       GB!do_tryGetPacketSpan,
       GB!Slots, GB!Slot, GB!EmptyOffsets, GB!HasSpace, GB!Least,
       GB!do_packetsPending, GB!AckedOffsets, GB!Packets, GB!SequenceNumbers,
       GB!Cardinality

(* And of both.                                                            *)
LEMMA WindowCalls ==
  ASSUME ~ StopAndWait
  PROVE
  /\ RT!Buffers = GB!Buffers
  /\ RT!Empty = GB!GoBackN
  /\ \A r : /\ RT!Held(r) = GB!Held(r)
            /\ RT!readyForNewPacket(r) <=> GB!do_readyForNewPacket(r)
            /\ RT!HasSpace(r) <=> GB!HasSpace(r)
  /\ \A r, x : /\ RT!addPacket(r, x) = GB!do_addPacket(r, x)
               /\ RT!acknowledgePacket(r, x) = GB!do_acknowledgePacket(r, x)
               /\ RT!tryGetPacketSpan(r, x) = GB!do_tryGetPacketSpan(r, x)
<1>1. Protocol = "go-back-n" \/ Protocol = "selective-repeat"
  BY Protocols DEF StopAndWait, GoBackN, SelectiveRepeat
<1>2. CASE Protocol = "go-back-n"
  BY <1>2, GoBackNRTCalls, Zenon
<1>3. CASE Protocol = "selective-repeat"
  BY <1>3, SelectiveRepeatRTCalls, Zenon
<1> QED
  BY <1>1, <1>2, <1>3

(* With stop-and-wait the calls go to the buffer of one packet.            *)
LEMMA StopAndWaitRTCalls ==
  ASSUME StopAndWait
  PROVE
  /\ RT!Buffers = [retransmitPacket_ : Packets \cup {None}]
  /\ RT!Empty = [retransmitPacket_ |-> None]
  /\ \A r : /\ RT!Held(r) = {r.retransmitPacket_} \ {None}
            /\ RT!readyForNewPacket(r) <=> r.retransmitPacket_ = None
            /\ RT!HasSpace(r) <=> r.retransmitPacket_ = None
  /\ \A r, x :
       /\ RT!addPacket(r, x) = IF r.retransmitPacket_ = None
                               THEN [r EXCEPT !.retransmitPacket_ = x] ELSE r
       /\ RT!acknowledgePacket(r, x)
            = IF r.retransmitPacket_ # None /\ x = SeqNum(r.retransmitPacket_)
              THEN [r EXCEPT !.retransmitPacket_ = None] ELSE r
       /\ RT!tryGetPacketSpan(r, x) = IF r.retransmitPacket_ \in x
                                      THEN r.retransmitPacket_ ELSE None
BY ZenonT(60)
   DEF StopAndWait, RT!Buffers, RT!Empty, RT!Held, RT!readyForNewPacket,
       RT!HasSpace, RT!addPacket, RT!acknowledgePacket, RT!tryGetPacketSpan,
       RT!SNW!Buffers, RT!SNW!StopAndWait, RT!SNW!Held, RT!SNW!HasSpace,
       RT!SNW!do_readyForNewPacket, RT!SNW!do_addPacket,
       RT!SNW!do_acknowledgePacket, RT!SNW!do_tryGetPacketSpan,
       RT!SNW!Packets, RT!SNW!SeqNum, Packets, SeqNum

(* The buffer starts empty.                                                *)
LEMMA RTEmpty == RTHolds(RT!Empty, 0, 0)
<1>1. CASE StopAndWait
  BY <1>1, StopAndWaitRTCalls DEF RTHolds
<1>2. CASE ~ StopAndWait
  BY <1>2, WindowCalls, EmptyWindow DEF RTHolds
<1> QED
  BY <1>1, <1>2

(* What the buffer holds, and how many packets that are.                   *)
LEMMA RTHeld ==
  ASSUME NEW r, NEW i \in Int, NEW j \in Int, RTHolds(r, i, j)
  PROVE  /\ RT!Held(r) = i .. j - 1
         /\ Cardinality(RT!Held(r)) = j - i
         /\ i <= j /\ j <= i + WindowSize
         /\ i < j => i \in Nat
         /\ ~ StopAndWait => i \in Nat
<1>1. /\ RT!Held(r) = i .. j - 1
      /\ i <= j /\ j <= i + WindowSize
      /\ i < j => i \in Nat
      /\ ~ StopAndWait => i \in Nat
  <2>1. CASE StopAndWait
    <3>1. r \in [retransmitPacket_ : Packets \cup {None}]
      BY <2>1, StopAndWaitRTCalls DEF RTHolds
    <3>2. RT!Held(r) = {r.retransmitPacket_} \ {None}
      BY <2>1, StopAndWaitRTCalls
    <3>3. CASE i = j /\ r.retransmitPacket_ = None
      BY <2>1, <3>2, <3>3, ConstantTypes
    <3>4. CASE i = j - 1 /\ r.retransmitPacket_ = i
      <4>1. i # None /\ i \in Nat
        BY <3>1, <3>4, ConstantTypes DEF Packets
      <4>2. RT!Held(r) = {i}
        BY <3>2, <3>4, <4>1
      <4>3. i .. j - 1 = {i}
        BY <3>4
      <4> QED
        BY <2>1, <3>4, <4>1, <4>2, <4>3, ConstantTypes
    <3> QED
      BY <2>1, <3>3, <3>4 DEF RTHolds
  <2>2. CASE ~ StopAndWait
    <3>1. r \in GB!Buffers /\ WindowHolds(r, i, j)
      BY <2>2, WindowCalls DEF RTHolds
    <3>2. RT!Held(r) = i .. j - 1
      BY <2>2, <3>1, WindowCalls, HeldByWindow
    <3>3. i \in Nat /\ j - i \in 0 .. WindowSize
      BY <3>1, WindowNumbers
    <3> QED
      BY <3>2, <3>3, ConstantTypes
  <2> QED
    BY <2>1, <2>2
<1>2. Cardinality(i .. j - 1) = j - i
  <2>1. CASE i <= j - 1
    <3>1. Cardinality(i .. j - 1) = (j - 1) - i + 1
      BY <2>1, FS_Interval
    <3> QED
      BY <3>1
  <2>2. CASE i = j
    <3>1. i .. j - 1 = {}
      BY <2>2
    <3> QED
      BY <2>2, <3>1, FS_EmptySet
  <2> QED
    BY <1>1, <2>1, <2>2
<1> QED
  BY <1>1, <1>2

(* A packet the transmitter may add finds room, and is held.               *)
LEMMA RTAdd ==
  ASSUME NEW r, NEW i \in Int, NEW p \in Packets,
         RTHolds(r, i, p), RT!readyForNewPacket(r)
  PROVE  RT!HasSpace(r) /\ RTHolds(RT!addPacket(r, p), i, p + 1)
<1>1. CASE StopAndWait
  <2>1. /\ r \in [retransmitPacket_ : Packets \cup {None}]
        /\ r.retransmitPacket_ = None
    BY <1>1, StopAndWaitRTCalls DEF RTHolds
  <2>2. i = p
    BY <1>1, <2>1, ConstantTypes DEF RTHolds
  <2>3. RT!addPacket(r, p) = [retransmitPacket_ |-> p]
    BY <1>1, <2>1, StopAndWaitRTCalls
  <2>4. RT!addPacket(r, p) \in RT!Buffers
    BY <1>1, <2>3, StopAndWaitRTCalls
  <2>5. p \in Int /\ i = (p + 1) - 1
    BY <2>2 DEF Packets
  <2> QED
    BY <1>1, <2>1, <2>2, <2>3, <2>4, <2>5, StopAndWaitRTCalls DEF RTHolds
<1>2. CASE ~ StopAndWait
  BY <1>2, WindowCalls, AddToWindow DEF RTHolds
<1> QED
  BY <1>1, <1>2

(* An acknowledgement of a packet that has been transmitted releases some  *)
(* of those up to it.  The EoT's does not get there.  The number that is   *)
(* no packet's releases nothing.                                           *)
LEMMA RTAcknowledge ==
  ASSUME NEW r, NEW i \in Int, NEW j \in Int, RTHolds(r, i, j),
         j <= NumPackets + 1, NEW sn \in SequenceNumbers,
         \/ sn < j /\ sn # NumPackets
         \/ SelectiveRepeat /\ sn = SeqNumModulus - 1
  PROVE  \E i2 \in i .. j : /\ RTHolds(RT!acknowledgePacket(r, sn), i2, j)
                            /\ i2 = i \/ (sn < j /\ i2 = sn + 1)
<1> DEFINE r2 == RT!acknowledgePacket(r, sn)
<1>1. sn \in Int /\ i <= j
  BY RTHeld, ConstantTypes DEF SequenceNumbers
<1>2. CASE StopAndWait
  <2>1. /\ r \in [retransmitPacket_ : Packets \cup {None}]
        /\ r2 = IF r.retransmitPacket_ # None /\ sn = SeqNum(r.retransmitPacket_)
                THEN [r EXCEPT !.retransmitPacket_ = None] ELSE r
    BY <1>2, StopAndWaitRTCalls DEF RTHolds
  <2>2. CASE r2 = r
    <3>1. i \in i .. j /\ RTHolds(r2, i, j)
      BY <1>1, <2>2
    <3> QED
      BY <3>1
  <2>3. CASE r2 # r
    <3>1. /\ r.retransmitPacket_ # None /\ sn = SeqNum(r.retransmitPacket_)
          /\ r2 = [retransmitPacket_ |-> None]
      BY <2>1, <2>3
    <3>2. i = j - 1 /\ r.retransmitPacket_ = i
      BY <1>2, <3>1 DEF RTHolds
    <3>3. sn = i
      BY <2>1, <3>1, <3>2, SeqNumIsPosition
    <3>4. RTHolds(r2, j, j)
      BY <1>2, <3>1, StopAndWaitRTCalls DEF RTHolds
    <3>5. j \in i .. j /\ sn < j /\ j = sn + 1
      BY <3>2, <3>3
    <3> QED
      BY <3>4, <3>5
  <2> QED
    BY <2>2, <2>3
<1>3. CASE ~ StopAndWait
  <2>1. /\ r \in GB!Buffers /\ WindowHolds(r, i, j)
        /\ r2 = GB!do_acknowledgePacket(r, sn)
    BY <1>3, WindowCalls DEF RTHolds
  <2>2. \/ sn < j /\ sn # NumPackets
        \/ sn >= NumPackets + WindowSize
    BY <1>1, ConstantTypes
  <2> DEFINE i2 == IF sn < i \/ sn >= j THEN i ELSE sn + 1
  <2>3. r2 \in GB!Buffers /\ WindowHolds(r2, i2, j)
    BY <2>1, <2>2, ReleaseFromWindow
  <2>4. RTHolds(r2, i2, j)
    <3> HIDE DEF i2, r2
    <3> QED
      BY <1>3, <2>3, WindowCalls DEF RTHolds
  <2>5. i2 \in i .. j
    BY <1>1
  <2>6. i2 = i \/ (sn < j /\ i2 = sn + 1)
    BY <1>1
  <2> HIDE DEF i2
  <2> QED
    BY <2>4, <2>5, <2>6
<1> QED
  BY <1>2, <1>3

(* A packet found due is one that is held.                                 *)
LEMMA RTDue ==
  ASSUME NEW r \in RT!Buffers, NEW timedOut \in SUBSET RT!Held(r)
  PROVE  RT!tryGetPacketSpan(r, timedOut) \in RT!Held(r) \cup {None}
<1>1. CASE StopAndWait
  BY <1>1, StopAndWaitRTCalls
<1>2. CASE ~ StopAndWait
  BY <1>2, WindowCalls, DueInWindow
<1> QED
  BY <1>1, <1>2

(***************************************************************************)
(* The resequencing buffers.                                               *)
(***************************************************************************)
(* With stop-and-wait.                                                     *)
LEMMA StopAndWaitRSCalls ==
  ASSUME StopAndWait
  PROVE
  /\ RS!Buffers = [expectedPacketSeqNum_ : SequenceNumbers,
                   packetForDelivery_    : Packets \cup {None}]
  /\ RS!Empty = [expectedPacketSeqNum_ |-> 0, packetForDelivery_ |-> None]
  /\ \A r : /\ RS!Waiting(r) = {r.packetForDelivery_} \ {None}
            /\ RS!getNextPacket(r)
                 = IF r.packetForDelivery_ = None
                   THEN [rs |-> r, packet |-> None]
                   ELSE [rs     |-> [packetForDelivery_    |-> None,
                                     expectedPacketSeqNum_ |->
                                       (r.expectedPacketSeqNum_ + 1)
                                          % SeqNumModulus],
                         packet |-> r.packetForDelivery_]
  /\ \A r, p :
       RS!addPacket(r, p)
         = [rs  |-> IF /\ r.packetForDelivery_ = None
                       /\ SeqNum(p) = r.expectedPacketSeqNum_
                    THEN [r EXCEPT !.packetForDelivery_ = p] ELSE r,
            ack |-> IF /\ r.packetForDelivery_ = None
                       /\ \/ SeqNum(p) = r.expectedPacketSeqNum_
                          \/ SeqNum(p) < r.expectedPacketSeqNum_
                    THEN SeqNum(p) ELSE None]
BY ZenonT(60)
   DEF StopAndWait, RS!Buffers, RS!Empty, RS!Waiting, RS!getNextPacket,
       RS!addPacket, RS!SNW!Buffers, RS!SNW!StopAndWait, RS!SNW!Waiting,
       RS!SNW!do_getNextPacket, RS!SNW!do_addPacket, RS!SNW!Packets,
       RS!SNW!SequenceNumbers, RS!SNW!SeqNum, Packets, SequenceNumbers, SeqNum

(* With go-back-n.                                                         *)
LEMMA GoBackNRSCalls ==
  ASSUME GoBackN
  PROVE
  /\ RS!Buffers = [shadowBuffer_       : Seq(Packets),
                   nextSequenceNumber_ : SequenceNumbers,
                   canSendAcks_        : BOOLEAN]
  /\ RS!Empty = [shadowBuffer_ |-> <<>>, nextSequenceNumber_ |-> 0,
                 canSendAcks_ |-> FALSE]
  /\ \A r : /\ RS!Waiting(r) = Elements(r.shadowBuffer_)
            /\ RS!getNextPacket(r)
                 = IF r.shadowBuffer_ = <<>>
                   THEN [rs |-> r, packet |-> None]
                   ELSE [rs     |-> [r EXCEPT !.shadowBuffer_ = Tail(@)],
                         packet |-> Head(r.shadowBuffer_)]
  /\ \A r, p :
       RS!addPacket(r, p)
         = IF SeqNum(p) = r.nextSequenceNumber_
           THEN [rs  |-> [shadowBuffer_       |-> Append(r.shadowBuffer_, p),
                          nextSequenceNumber_ |->
                            (r.nextSequenceNumber_ + 1) % SeqNumModulus,
                          canSendAcks_        |-> TRUE],
                 ack |-> SeqNum(p)]
           ELSE [rs  |-> r,
                 ack |-> IF r.canSendAcks_
                         THEN (r.nextSequenceNumber_ - 1) % SeqNumModulus
                         ELSE None]
BY ZenonT(60)
   DEF GoBackN, RS!Buffers, RS!Empty, RS!Waiting, RS!getNextPacket,
       RS!addPacket, RS!GBN!Buffers, RS!GBN!GoBackN, RS!GBN!Waiting,
       RS!GBN!do_getNextPacket, RS!GBN!do_addPacket, RS!GBN!Accepted,
       RS!GBN!lastAccepted, RS!GBN!Packets, RS!GBN!SequenceNumbers,
       RS!GBN!SeqNum, Packets, SequenceNumbers, SeqNum, Elements

(* A counter of n as it is kept in 16 bits.                                *)
LEMMA Counter ==
  ASSUME NEW n \in Nat, NEW m, m = n % SeqNumModulus
  PROVE  /\ m \in SequenceNumbers /\ m \in Nat /\ m <= n
         /\ (m + 1) % SeqNumModulus = (n + 1) % SeqNumModulus
         /\ (n + 1) % SeqNumModulus \in SequenceNumbers
         /\ n > 0 => /\ (m - 1) % SeqNumModulus \in SequenceNumbers
                     /\ (m - 1) % SeqNumModulus < n
<1>1. SeqNumModulus \in Nat \ {0} /\ n + 1 \in Nat
  BY ConstantTypes
<1>2. m \in 0 .. SeqNumModulus - 1 /\ m <= n
  BY <1>1, ModBelow
<1>3. (m + 1) % SeqNumModulus = (n + 1) % SeqNumModulus
  BY <1>1, NextMod
<1>4. (n + 1) % SeqNumModulus \in 0 .. SeqNumModulus - 1
  BY <1>1, ModBelow
<1>5. ASSUME n > 0
      PROVE  /\ (m - 1) % SeqNumModulus \in 0 .. SeqNumModulus - 1
             /\ (m - 1) % SeqNumModulus < n
  <2>1. n \in Nat \ {0}
    BY <1>5
  <2> QED
    BY <1>1, <2>1, PreviousMod
<1> QED
  BY <1>2, <1>3, <1>4, <1>5 DEF SequenceNumbers

(* The packet counted as the next one is accepted; what is acknowledged    *)
(* has been.                                                               *)
AddsNext(n, t, p, result) ==
  \E a \in {n, n + 1} :
    /\ RSHolds(result.rs, n, a, t)
    /\ a = n \/ p = n % SeqNumModulus
    /\ result.ack # None => result.ack \in SequenceNumbers /\ result.ack < a

(* With nothing waiting, stop-and-wait accepts the packet that is counted  *)
(* as the next one; what it acknowledges has been accepted.                *)
LEMMA StopAndWaitAdds ==
  ASSUME StopAndWait, NEW r, NEW n \in Nat, NEW t \in Nat, RSHolds(r, n, n, t),
         RollsOver \/ n <= NumPackets + 1, NEW p \in Packets,
         NEW result, result = RS!addPacket(r, p)
  PROVE  AddsNext(n, t, p, result)
<1>1. PICK m : m = n % SeqNumModulus
  OBVIOUS
<1>2. /\ r \in [expectedPacketSeqNum_ : SequenceNumbers,
                packetForDelivery_    : Packets \cup {None}]
      /\ r.expectedPacketSeqNum_ = m /\ r.packetForDelivery_ = None
  <2>1. r \in RS!Buffers /\ StopAndWaitHolds(r, n, n)
    BY DEF RSHolds
  <2>2. n # n + 1
    OBVIOUS
  <2> QED
    BY <1>1, <2>1, <2>2, StopAndWaitRSCalls DEF StopAndWaitHolds
<1>3. SeqNum(p) = p /\ p \in SequenceNumbers /\ p \in Nat
  BY SeqNumIsPosition DEF Packets
<1>4. m \in SequenceNumbers /\ m \in Nat /\ m <= n
  BY <1>1, Counter
<1>5. CASE p = m
  <2>1. result = [rs |-> [r EXCEPT !.packetForDelivery_ = p], ack |-> p]
    BY <1>2, <1>3, <1>5, StopAndWaitRSCalls
  <2>2. p = PacketAt(n)
    BY <1>1, <1>5, PacketCounted
  <2>3. /\ result.rs = [expectedPacketSeqNum_ |-> m, packetForDelivery_ |-> p]
        /\ result.ack = p
    BY <1>2, <2>1
  <2>4. result.rs \in RS!Buffers
    BY <1>4, <2>3, StopAndWaitRSCalls
  <2>5. RSHolds(result.rs, n, n + 1, t)
    <3>1. ~ GoBackN /\ ~ SelectiveRepeat
      BY Protocols
    <3>2. StopAndWaitHolds(result.rs, n, n + 1)
      BY <1>1, <2>2, <2>3 DEF StopAndWaitHolds
    <3> QED
      BY <2>4, <3>1, <3>2 DEF RSHolds
  <2>6. p < n + 1
    BY <1>3, <1>4, <1>5
  <2> QED
    BY <1>1, <1>3, <1>5, <2>3, <2>5, <2>6 DEF AddsNext
<1>6. CASE p # m
  <2>1. /\ result.rs = r
        /\ result.ack = IF p < m THEN p ELSE None
    BY <1>2, <1>3, <1>6, StopAndWaitRSCalls
  <2>2. result.ack # None => result.ack \in SequenceNumbers /\ result.ack < n
    BY <1>3, <1>4, <2>1
  <2> QED
    BY <2>1, <2>2 DEF AddsNext
<1> QED
  BY <1>5, <1>6

(* The same of go-back-n.                                                  *)
LEMMA GoBackNAdds ==
  ASSUME GoBackN, NEW r, NEW n \in Nat, NEW t \in Nat, RSHolds(r, n, n, t),
         RollsOver \/ n <= NumPackets + 1, NEW p \in Packets,
         NEW result, result = RS!addPacket(r, p)
  PROVE  AddsNext(n, t, p, result)
<1>1. PICK m : m = n % SeqNumModulus
  OBVIOUS
<1>2. /\ r \in [shadowBuffer_       : Seq(Packets),
                nextSequenceNumber_ : SequenceNumbers,
                canSendAcks_        : BOOLEAN]
      /\ r.nextSequenceNumber_ = m /\ r.shadowBuffer_ = <<>>
      /\ r.canSendAcks_ => n > 0
  <2>1. r \in RS!Buffers /\ GoBackNHolds(r, n, n)
    BY DEF RSHolds
  <2>2. n # n + 1
    OBVIOUS
  <2> QED
    BY <1>1, <2>1, <2>2, GoBackNRSCalls DEF GoBackNHolds
<1>3. SeqNum(p) = p /\ p \in SequenceNumbers /\ p \in Nat
  BY SeqNumIsPosition DEF Packets
<1>4. /\ m \in SequenceNumbers /\ m \in Nat /\ m <= n
      /\ (m + 1) % SeqNumModulus = (n + 1) % SeqNumModulus
      /\ (n + 1) % SeqNumModulus \in SequenceNumbers
      /\ n > 0 => /\ (m - 1) % SeqNumModulus \in SequenceNumbers
                  /\ (m - 1) % SeqNumModulus < n
  BY <1>1, Counter
<1>5. ~ StopAndWait /\ ~ SelectiveRepeat
  BY Protocols
<1>6. CASE p = m
  <2>1. result = [rs |-> [shadowBuffer_       |-> Append(r.shadowBuffer_, p),
                          nextSequenceNumber_ |-> (m + 1) % SeqNumModulus,
                          canSendAcks_        |-> TRUE],
                  ack |-> p]
    BY <1>2, <1>3, <1>6, GoBackNRSCalls
  <2>2. p = PacketAt(n)
    BY <1>1, <1>6, PacketCounted
  <2>3. Append(r.shadowBuffer_, p) = <<p>> /\ <<p>> \in Seq(Packets)
    BY <1>2
  <2>4. /\ result.rs = [shadowBuffer_       |-> <<p>>,
                        nextSequenceNumber_ |-> (n + 1) % SeqNumModulus,
                        canSendAcks_        |-> TRUE]
        /\ result.ack = p
    <3>1. (m + 1) % SeqNumModulus = (n + 1) % SeqNumModulus
      BY <1>4
    <3>2. Append(r.shadowBuffer_, p) = <<p>>
      BY <2>3
    <3>3. PICK new : new = [shadowBuffer_       |-> Append(r.shadowBuffer_, p),
                            nextSequenceNumber_ |-> (m + 1) % SeqNumModulus,
                            canSendAcks_        |-> TRUE]
      OBVIOUS
    <3>4. result = [rs |-> new, ack |-> p]
      BY <2>1, <3>3
    <3>5. result.rs = new /\ result.ack = p
      BY <3>4
    <3> QED
      BY <3>1, <3>2, <3>3, <3>5
  <2>5. result.rs \in RS!Buffers
    BY <1>4, <2>3, <2>4, GoBackNRSCalls
  <2>6. RSHolds(result.rs, n, n + 1, t)
    <3>1. n + 1 > 0
      OBVIOUS
    <3>2. GoBackNHolds(result.rs, n, n + 1)
      BY <2>2, <2>4, <3>1 DEF GoBackNHolds
    <3> QED
      BY <1>5, <2>5, <3>2 DEF RSHolds
  <2>7. p < n + 1
    BY <1>3, <1>4, <1>6
  <2> QED
    BY <1>1, <1>3, <1>6, <2>4, <2>6, <2>7 DEF AddsNext
<1>7. CASE p # m
  <2>1. /\ result.rs = r
        /\ result.ack = IF r.canSendAcks_ THEN (m - 1) % SeqNumModulus ELSE None
    BY <1>2, <1>3, <1>7, GoBackNRSCalls
  <2>2. result.ack # None => result.ack \in SequenceNumbers /\ result.ack < n
    BY <1>2, <1>4, <2>1
  <2> QED
    BY <2>1, <2>2 DEF AddsNext
<1> QED
  BY <1>6, <1>7

(* With selective repeat.                                                  *)
LEMMA SelectiveRepeatRSCalls ==
  ASSUME SelectiveRepeat
  PROVE
  /\ RS!Buffers = [buffer_           : [0 .. RSWindowSize - 1 -> Packets \cup {None}],
                   startIdx_         : 0 .. RSWindowSize - 1,
                   earliestExpected_ : SequenceNumbers,
                   packetsInBuffer_  : 0 .. SizeModulus - 1,
                   shadowBuffer_     : Seq(Packets),
                   canSendAcks_      : BOOLEAN]
  /\ RS!Empty = [buffer_           |-> [s \in 0 .. RSWindowSize - 1 |-> None],
                 startIdx_         |-> 0,
                 earliestExpected_ |-> 0,
                 packetsInBuffer_  |-> 0,
                 shadowBuffer_     |-> <<>>,
                 canSendAcks_      |-> FALSE]
  /\ \A r : /\ RS!Waiting(r) = Elements(r.shadowBuffer_)
            /\ RS!getNextPacket(r)
                 = IF r.shadowBuffer_ = <<>>
                   THEN [rs |-> r, packet |-> None]
                   ELSE [rs     |-> [r EXCEPT !.shadowBuffer_ = Tail(@)],
                         packet |-> Head(r.shadowBuffer_)]
  /\ \A r, p :
       RS!addPacket(r, p)
         = [rs  |-> RS!SR!Received(r, p),
            ack |-> IF RS!SR!Received(r, p).canSendAcks_
                    THEN (RS!SR!Received(r, p).earliestExpected_ - 1)
                           % SeqNumModulus
                    ELSE None]
BY ZenonT(60)
   DEF SelectiveRepeat, RS!Buffers, RS!Empty, RS!Waiting, RS!getNextPacket,
       RS!addPacket, RS!SR!Buffers, RS!SR!SelectiveRepeat, RS!SR!Waiting,
       RS!SR!do_getNextPacket, RS!SR!do_addPacket, RS!SR!Slots,
       RS!SR!Packets, RS!SR!SequenceNumbers, Packets, SequenceNumbers, Elements

(* Every packet of the buffer before t is where it belongs.                *)
InPlace(buffer, start, e, t) ==
  \A i \in 0 .. RSWindowSize - 1 :
    LET p == buffer[(start + i) % RSWindowSize]
    IN  p # None => p = e + i /\ p < t

(* The fields of a selective repeat buffer.                                *)
LEMMA SelectiveRepeatFields ==
  ASSUME SelectiveRepeat, NEW r \in RS!Buffers
  PROVE  /\ r.buffer_ \in [0 .. RSWindowSize - 1 -> Packets \cup {None}]
         /\ r.startIdx_ \in 0 .. RSWindowSize - 1
         /\ r.earliestExpected_ \in SequenceNumbers /\ r.earliestExpected_ \in Nat
         /\ r.packetsInBuffer_ \in 0 .. SizeModulus - 1
         /\ r.shadowBuffer_ \in Seq(Packets)
         /\ r.canSendAcks_ \in BOOLEAN
         /\ r = [buffer_ |-> r.buffer_, startIdx_ |-> r.startIdx_,
                 earliestExpected_ |-> r.earliestExpected_,
                 packetsInBuffer_ |-> r.packetsInBuffer_,
                 shadowBuffer_ |-> r.shadowBuffer_,
                 canSendAcks_ |-> r.canSendAcks_]
<1>1. r \in [buffer_           : [0 .. RSWindowSize - 1 -> Packets \cup {None}],
            startIdx_         : 0 .. RSWindowSize - 1,
            earliestExpected_ : SequenceNumbers,
            packetsInBuffer_  : 0 .. SizeModulus - 1,
            shadowBuffer_     : Seq(Packets),
            canSendAcks_      : BOOLEAN]
  BY SelectiveRepeatRSCalls, Zenon
<1>2. /\ r.buffer_ \in [0 .. RSWindowSize - 1 -> Packets \cup {None}]
      /\ r.startIdx_ \in 0 .. RSWindowSize - 1
      /\ r.earliestExpected_ \in SequenceNumbers
      /\ r.packetsInBuffer_ \in 0 .. SizeModulus - 1
      /\ r.shadowBuffer_ \in Seq(Packets)
      /\ r.canSendAcks_ \in BOOLEAN
  BY <1>1
<1>3. r.earliestExpected_ \in Nat
  BY <1>2, ConstantTypes DEF SequenceNumbers
<1>4. r = [buffer_ |-> r.buffer_, startIdx_ |-> r.startIdx_,
           earliestExpected_ |-> r.earliestExpected_,
           packetsInBuffer_ |-> r.packetsInBuffer_,
           shadowBuffer_ |-> r.shadowBuffer_,
           canSendAcks_ |-> r.canSendAcks_]
  BY <1>1
<1> QED
  BY <1>2, <1>3, <1>4

(* A selective repeat buffer is the record of its fields.                  *)
RSBuffer(b, s, e, c, q, acks) ==
  [buffer_ |-> b, startIdx_ |-> s, earliestExpected_ |-> e,
   packetsInBuffer_ |-> c, shadowBuffer_ |-> q, canSendAcks_ |-> acks]

LEMMA SelectiveRepeatOfFields ==
  ASSUME SelectiveRepeat,
         NEW b \in [0 .. RSWindowSize - 1 -> Packets \cup {None}],
         NEW s \in 0 .. RSWindowSize - 1,
         NEW e \in SequenceNumbers,
         NEW c \in 0 .. SizeModulus - 1,
         NEW q \in Seq(Packets),
         NEW acks \in BOOLEAN,
         NEW new, new = RSBuffer(b, s, e, c, q, acks)
  PROVE  /\ new \in RS!Buffers
         /\ new.buffer_ = b /\ new.startIdx_ = s /\ new.earliestExpected_ = e
         /\ new.shadowBuffer_ = q /\ new.canSendAcks_ = acks
<1>1. new \in [buffer_           : [0 .. RSWindowSize - 1 -> Packets \cup {None}],
              startIdx_         : 0 .. RSWindowSize - 1,
              earliestExpected_ : SequenceNumbers,
              packetsInBuffer_  : 0 .. SizeModulus - 1,
              shadowBuffer_     : Seq(Packets),
              canSendAcks_      : BOOLEAN]
  BY DEF RSBuffer
<1>2. /\ new.buffer_ = b /\ new.startIdx_ = s /\ new.earliestExpected_ = e
      /\ new.shadowBuffer_ = q /\ new.canSendAcks_ = acks
  BY DEF RSBuffer
<1> QED
  BY <1>1, <1>2, SelectiveRepeatRSCalls, Zenon

(* What updateBuffer does, with its local variables named.                 *)
LEMMA UpdateIs ==
  ASSUME NEW r, NEW new, new = RS!SR!updateBuffer(r)
  PROVE  \E run :
    /\ run = RS!SR!InSequence(r)
    /\ new = [r EXCEPT
         !.buffer_           = [s \in 0 .. RSWindowSize - 1 |->
                                  IF s \in {(r.startIdx_ + i) % RSWindowSize :
                                              i \in 0 .. run - 1}
                                  THEN None ELSE r.buffer_[s]],
         !.shadowBuffer_     = r.shadowBuffer_
                                 \o [i \in 1 .. run |->
                                      r.buffer_[(r.startIdx_ + (i - 1))
                                                  % RSWindowSize]],
         !.packetsInBuffer_  = (r.packetsInBuffer_ - run) % SizeModulus,
         !.startIdx_         = (r.startIdx_
                                 + (IF run = RSWindowSize THEN 0 ELSE run))
                                 % RSWindowSize,
         !.earliestExpected_ = (r.earliestExpected_
                                 + (IF run = RSWindowSize THEN 0 ELSE run))
                                 % SeqNumModulus]
BY Zenon DEF RS!SR!updateBuffer, RS!SR!Slots, RS!SR!Slot

(* updateBuffer moves the packets at the front of the window to the shadow *)
(* buffer.  Those that remain are in place.                                *)
LEMMA UpdateMovesRun ==
  ASSUME SelectiveRepeat, NEW r \in RS!Buffers, NEW t \in 0 .. NumPackets + 1,
         InPlace(r.buffer_, r.startIdx_, r.earliestExpected_, t),
         r.earliestExpected_ <= t, r.shadowBuffer_ = <<>>,
         NEW new, new = RS!SR!updateBuffer(r)
  PROVE  \E run \in 0 .. RSWindowSize :
           /\ new \in RS!Buffers
           /\ IsRun(new.shadowBuffer_, r.earliestExpected_,
                    r.earliestExpected_ + run)
           /\ r.earliestExpected_ + run <= t
           /\ new.canSendAcks_ = r.canSendAcks_
           /\ new.earliestExpected_
                = r.earliestExpected_ + IF run = RSWindowSize THEN 0 ELSE run
           /\ InPlace(new.buffer_, new.startIdx_, new.earliestExpected_, t)
<1> DEFINE W == RSWindowSize
           s == r.startIdx_
           e == r.earliestExpected_
           buf == r.buffer_
           slot(i) == (s + i) % W
<1>1. W = RSWindowSize /\ s = r.startIdx_ /\ e = r.earliestExpected_ /\ buf = r.buffer_
  OBVIOUS
<1>2. /\ W \in Nat \ {0} /\ None \notin Int /\ s \in 0 .. W - 1 /\ e \in Nat
      /\ SizeModulus \in Nat \ {0} /\ SeqNumModulus \in Nat \ {0}
      /\ NumPackets \in Nat /\ NumPackets + 1 < SeqNumModulus
      /\ buf \in [0 .. W - 1 -> Packets \cup {None}]
      /\ r.packetsInBuffer_ \in Int /\ t \in Nat /\ e <= t
  BY <1>1, SelectiveRepeatFields, ConstantTypes
<1>3. PICK run :
        /\ run = RS!SR!InSequence(r)
        /\ new = [r EXCEPT
             !.buffer_           = [v \in 0 .. W - 1 |->
                                      IF v \in {slot(i) : i \in 0 .. run - 1}
                                      THEN None ELSE buf[v]],
             !.shadowBuffer_     = r.shadowBuffer_
                                     \o [i \in 1 .. run |-> buf[slot(i - 1)]],
             !.packetsInBuffer_  = (r.packetsInBuffer_ - run) % SizeModulus,
             !.startIdx_         = slot(IF run = W THEN 0 ELSE run),
             !.earliestExpected_ = (e + (IF run = W THEN 0 ELSE run))
                                     % SeqNumModulus]
  BY UpdateIs, Zenon
<1> HIDE DEF W, s, e, buf
<1>4. \A i \in 0 .. W - 1 : /\ slot(i) \in 0 .. W - 1
                            /\ buf[slot(i)] # None => /\ buf[slot(i)] = e + i
                                                      /\ e + i < t
  <2>1. \A i \in 0 .. W - 1 : buf[slot(i)] # None => /\ buf[slot(i)] = e + i
                                                     /\ buf[slot(i)] < t
    BY <1>1 DEF InPlace
  <2>2. ASSUME NEW i \in 0 .. W - 1
        PROVE  slot(i) \in 0 .. W - 1
    <3>1. i \in Nat
      BY <1>2
    <3> QED
      BY <1>2, <3>1, SlotIsSlot
  <2> HIDE DEF slot
  <2>3. \A i \in 0 .. W - 1 : buf[slot(i)] # None => e + i < t
    BY <2>1
  <2> QED
    BY <2>1, <2>2, <2>3
<1> HIDE DEF slot
<1>5. /\ run \in 0 .. W
      /\ \A i \in 0 .. run - 1 : buf[slot(i)] # None
  <2> DEFINE S == {i \in 0 .. W - 1 : buf[slot(i)] = None} \cup {W}
  <2>1. S \in SUBSET Nat /\ S # {} /\ S \in SUBSET Int
    BY <1>2
  <2>2. run = Least(S)
    <3>1. run = RS!SR!Least(S)
      BY <1>1, <1>3 DEF RS!SR!InSequence, RS!SR!Slots, RS!SR!Slot, slot
    <3> QED
      BY <3>1 DEF Least, RS!SR!Least
  <2>3. PICK k \in S : \A j \in S : k <= j
    <3> HIDE DEF S
    <3> QED
      BY <2>1, SmallestExists
  <2>4. run = k
    <3> HIDE DEF S
    <3> QED
      BY <2>1, <2>2, <2>3, LeastIs
  <2>5. run \in 0 .. W
    BY <1>2, <2>3, <2>4
  <2>6. ASSUME NEW i \in 0 .. run - 1, buf[slot(i)] = None
        PROVE  FALSE
    <3>1. i \in S
      BY <1>2, <2>5, <2>6
    <3> HIDE DEF S
    <3> QED
      BY <2>3, <2>4, <2>5, <3>1
  <2> QED
    BY <2>5, <2>6
<1>6. e + run <= t
  <2>1. CASE run = 0
    BY <1>2, <2>1
  <2>2. CASE run # 0
    <3>1. run - 1 \in 0 .. run - 1 /\ run - 1 \in 0 .. W - 1
      BY <1>2, <1>5, <2>2
    <3>2. e + (run - 1) < t
      BY <1>4, <1>5, <3>1
    <3> QED
      BY <1>2, <1>5, <3>2
  <2> QED
    BY <2>1, <2>2
<1> DEFINE advance == IF run = W THEN 0 ELSE run
           moved == {slot(i) : i \in 0 .. run - 1}
           b == [u \in 0 .. W - 1 |-> IF u \in moved THEN None ELSE buf[u]]
           q == [i \in 1 .. run |-> buf[slot(i - 1)]]
           c == (r.packetsInBuffer_ - run) % SizeModulus
<1>7. advance \in 0 .. W /\ e + advance <= t
  BY <1>2, <1>5, <1>6
<1>8. (e + advance) % SeqNumModulus = e + advance /\ e + advance \in SequenceNumbers
  <2> HIDE DEF advance
  <2>1. e + advance \in 0 .. SeqNumModulus - 1
    BY <1>2, <1>7
  <2> QED
    BY <1>2, <2>1, SmallMod DEF SequenceNumbers
<1>9. slot(advance) \in 0 .. W - 1
  <2>1. advance \in Nat
    BY <1>2, <1>7
  <2> HIDE DEF advance
  <2> QED
    BY <1>2, <2>1, SlotIsSlot DEF slot
<1>10. \A i \in 1 .. run : q[i] = e + (i - 1) /\ q[i] \in Packets
  <2> SUFFICES ASSUME NEW i \in 1 .. run
               PROVE  q[i] = e + (i - 1) /\ q[i] \in Packets
    OBVIOUS
  <2>1. i - 1 \in 0 .. run - 1 /\ i - 1 \in 0 .. W - 1
    BY <1>2, <1>5
  <2>2. q[i] = buf[slot(i - 1)]
    OBVIOUS
  <2>3. buf[slot(i - 1)] \in Packets \cup {None}
    BY <1>2, <1>4, <2>1
  <2> HIDE DEF q
  <2> QED
    BY <1>4, <1>5, <2>1, <2>2, <2>3
<1>11. q \in Seq(Packets) /\ Len(q) = run
  <2>1. q \in [1 .. run -> Packets] /\ run \in Nat
    BY <1>5, <1>10
  <2> HIDE DEF q
  <2> QED
    BY <2>1
<1>12. IsRun(q, e, e + run)
  <2>1. ASSUME NEW i \in 1 .. run
        PROVE  q[i] = PacketAt(e + i - 1)
    <3>1. /\ q[i] = e + (i - 1) /\ e + (i - 1) = e + i - 1
          /\ e + i - 1 \in Nat /\ e + i - 1 <= NumPackets
      BY <1>2, <1>5, <1>6, <1>10
    <3> HIDE DEF q
    <3> QED
      BY <3>1, PacketAtIs
  <2>2. Len(q) = (e + run) - e
    BY <1>2, <1>5, <1>11
  <2> HIDE DEF q
  <2> QED
    BY <1>11, <2>1, <2>2 DEF IsRun
<1>13. <<>> \o q = q
  <2> HIDE DEF q
  <2> QED
    BY <1>11
<1>14. new = RSBuffer(b, slot(advance), e + advance, c, q, r.canSendAcks_)
  <2>1. new = [r EXCEPT !.buffer_           = b,
                        !.shadowBuffer_     = r.shadowBuffer_ \o q,
                        !.packetsInBuffer_  = c,
                        !.startIdx_         = slot(advance),
                        !.earliestExpected_ = (e + advance) % SeqNumModulus]
    BY <1>3, Zenon
  <2>2. r = [buffer_ |-> r.buffer_, startIdx_ |-> r.startIdx_,
             earliestExpected_ |-> r.earliestExpected_,
             packetsInBuffer_ |-> r.packetsInBuffer_,
             shadowBuffer_ |-> r.shadowBuffer_,
             canSendAcks_ |-> r.canSendAcks_]
    BY SelectiveRepeatFields
  <2>3. r.shadowBuffer_ \o q = q
    BY <1>13
  <2> HIDE DEF b, q, c, advance
  <2> QED
    BY <1>8, <2>1, <2>2, <2>3 DEF RSBuffer
<1>15. b \in [0 .. W - 1 -> Packets \cup {None}] /\ c \in 0 .. SizeModulus - 1
  <2>1. b \in [0 .. W - 1 -> Packets \cup {None}]
    <3> HIDE DEF moved
    <3> QED
      BY <1>2
  <2>2. r.packetsInBuffer_ - run \in Int
    BY <1>2, <1>5
  <2> QED
    BY <1>2, <2>1, <2>2, ModRange
<1>16. InPlace(b, slot(advance), e + advance, t)
  <2> SUFFICES ASSUME NEW i \in 0 .. W - 1,
                      b[(slot(advance) + i) % W] # None
               PROVE  /\ b[(slot(advance) + i) % W] = e + advance + i
                      /\ e + advance + i < t
    BY <1>1 DEF InPlace
  <2> DEFINE j == IF advance + i < W THEN advance + i ELSE advance + i - W
             u == (slot(advance) + i) % W
  <2>1. j \in 0 .. W - 1 /\ u = slot(j)
    <3>1. PICK d \in 0 .. W : d = advance
      BY <1>7
    <3>2. PICK v : v = IF d + i < W THEN d + i ELSE d + i - W
      OBVIOUS
    <3>3. v \in 0 .. W - 1 /\ (((s + d) % W) + i) % W = (s + v) % W
      BY <1>2, <3>2, WrapsTwice
    <3>4. v = j
      BY <3>1, <3>2
    <3> HIDE DEF advance, j
    <3> QED
      BY <3>1, <3>3, <3>4 DEF slot
  <2>2. u \notin moved /\ b[u] = buf[u]
    <3>1. u \in 0 .. W - 1
      BY <1>4, <2>1
    <3> HIDE DEF u, moved
    <3> QED
      BY <3>1 DEF u
  <2>3. j \notin 0 .. run - 1
    <3> HIDE DEF j, u
    <3> QED
      BY <2>1, <2>2
  <2>4. advance + i < W
    BY <1>2, <1>5, <2>3
  <2>5. j = advance + i
    BY <2>4
  <2>6. buf[slot(j)] # None
    BY <2>1, <2>2
  <2>7. b[u] = e + j /\ e + j < t
    <3> HIDE DEF j, u, b, advance
    <3> QED
      BY <1>4, <2>1, <2>2, <2>6
  <2>8. e + j = e + advance + i
    <3> HIDE DEF advance, j
    <3> QED
      BY <1>2, <1>7, <2>5
  <2> HIDE DEF j, b, advance
  <2> QED
    BY <2>7, <2>8 DEF u
<1> HIDE DEF b, c, q, moved
<1>17. /\ new \in RS!Buffers
       /\ new.buffer_ = b /\ new.startIdx_ = slot(advance)
       /\ new.earliestExpected_ = e + advance
       /\ new.shadowBuffer_ = q /\ new.canSendAcks_ = r.canSendAcks_
  <2> HIDE DEF advance
  <2> QED
    BY <1>1, <1>8, <1>9, <1>11, <1>14, <1>15, SelectiveRepeatFields,
       SelectiveRepeatOfFields
<1> QED
  BY <1>1, <1>5, <1>6, <1>12, <1>16, <1>17

(* Packet p put in its slot.                                               *)
Inserted(r, p) ==
  [[r EXCEPT !.canSendAcks_ = TRUE] EXCEPT
     !.buffer_[(r.startIdx_ + (SeqNum(p) - r.earliestExpected_))
                 % RSWindowSize] = p,
     !.packetsInBuffer_ = (@ + 1) % SizeModulus]

(* What an arrival does to the buffer.                                     *)
LEMMA ReceivedIs ==
  ASSUME NEW r, NEW p
  PROVE  RS!SR!Received(r, p)
    = IF ~ /\ SeqNum(p) >= r.earliestExpected_
           /\ SeqNum(p) < r.earliestExpected_ + RSWindowSize
      THEN r
      ELSE IF r.buffer_[(r.startIdx_ + (SeqNum(p) - r.earliestExpected_))
                          % RSWindowSize] # None
      THEN [r EXCEPT !.canSendAcks_ = TRUE]
      ELSE RS!SR!updateBuffer(Inserted(r, p))
BY Zenon DEF RS!SR!Received, RS!SR!InWindow, RS!SR!InsertionIdx,
             RS!SR!Slot, RS!SR!SeqNum, SeqNum, Inserted

(* A packet put in its slot is in place, and the others stay in theirs.    *)
LEMMA InsertInPlace ==
  ASSUME SelectiveRepeat, NEW r \in RS!Buffers, NEW t \in Nat,
         InPlace(r.buffer_, r.startIdx_, r.earliestExpected_, t),
         NEW p \in Packets, p < t,
         r.earliestExpected_ <= p, p < r.earliestExpected_ + RSWindowSize,
         NEW new, new = Inserted(r, p)
  PROVE  /\ new \in RS!Buffers
         /\ new.startIdx_ = r.startIdx_
         /\ new.earliestExpected_ = r.earliestExpected_
         /\ new.shadowBuffer_ = r.shadowBuffer_
         /\ InPlace(new.buffer_, new.startIdx_, new.earliestExpected_, t)
<1>1. PICK W, s, e, buf, n, q, acks :
        /\ W = RSWindowSize /\ s = r.startIdx_
        /\ e = r.earliestExpected_ /\ buf = r.buffer_
        /\ n = r.packetsInBuffer_ /\ q = r.shadowBuffer_ /\ acks = r.canSendAcks_
  OBVIOUS
<1>2. /\ W \in Nat \ {0} /\ s \in 0 .. W - 1 /\ e \in Nat /\ p \in Nat
      /\ buf \in [0 .. W - 1 -> Packets \cup {None}]
      /\ SizeModulus \in Nat \ {0} /\ n \in Int
      /\ e \in SequenceNumbers /\ q \in Seq(Packets)
      /\ e <= p /\ p < e + W
  BY <1>1, SelectiveRepeatFields, ConstantTypes DEF Packets
<1>3. PICK u : u = (s + (p - e)) % W
  OBVIOUS
<1>4. p - e \in 0 .. W - 1 /\ u \in 0 .. W - 1
  <2>1. p - e \in 0 .. W - 1 /\ p - e \in Nat
    BY <1>2
  <2> QED
    BY <1>2, <1>3, <2>1, SlotIsSlot
<1>5. PICK b : b = [buf EXCEPT ![u] = p]
  OBVIOUS
<1>6. PICK c : c = (n + 1) % SizeModulus
  OBVIOUS
<1>7. b \in [0 .. W - 1 -> Packets \cup {None}] /\ c \in 0 .. SizeModulus - 1
  <2>1. n + 1 \in Int
    BY <1>2
  <2>2. c \in 0 .. SizeModulus - 1
    BY <1>2, <1>6, <2>1, ModRange
  <2> QED
    BY <1>2, <1>4, <1>5, <2>2
<1>8. new = [buffer_ |-> b, startIdx_ |-> s, earliestExpected_ |-> e,
             packetsInBuffer_ |-> c, shadowBuffer_ |-> q, canSendAcks_ |-> TRUE]
  <2>1. r = [buffer_ |-> buf, startIdx_ |-> s, earliestExpected_ |-> e,
             packetsInBuffer_ |-> n, shadowBuffer_ |-> q, canSendAcks_ |-> acks]
    BY <1>1, SelectiveRepeatFields
  <2>2. PICK heard : heard = [r EXCEPT !.canSendAcks_ = TRUE]
    OBVIOUS
  <2>3. heard = [buffer_ |-> buf, startIdx_ |-> s, earliestExpected_ |-> e,
                 packetsInBuffer_ |-> n, shadowBuffer_ |-> q,
                 canSendAcks_ |-> TRUE]
    BY <2>1, <2>2
  <2>4. new = [heard EXCEPT !.buffer_[u] = p,
                            !.packetsInBuffer_ = (@ + 1) % SizeModulus]
    <3>1. SeqNum(p) = p
      BY SeqNumIsPosition
    <3>2. u = (r.startIdx_ + (SeqNum(p) - r.earliestExpected_)) % RSWindowSize
      BY <1>1, <1>3, <3>1
    <3> QED
      BY <2>2, <3>2, Zenon DEF Inserted
  <2>5. new = [heard EXCEPT !.buffer_ = b, !.packetsInBuffer_ = c]
    BY <1>5, <1>6, <2>3, <2>4
  <2> QED
    BY <2>3, <2>5
<1>9. /\ new \in RS!Buffers
      /\ new.buffer_ = b /\ new.startIdx_ = s /\ new.earliestExpected_ = e
      /\ new.shadowBuffer_ = q /\ new.canSendAcks_ = TRUE
  <2>1. s \in 0 .. RSWindowSize - 1
        /\ b \in [0 .. RSWindowSize - 1 -> Packets \cup {None}]
    BY <1>1, <1>2, <1>7
  <2>2. PICK on \in BOOLEAN : on = TRUE
    OBVIOUS
  <2>3. new = RSBuffer(b, s, e, c, q, on)
    BY <1>8, <2>2 DEF RSBuffer
  <2>4. e \in SequenceNumbers /\ c \in 0 .. SizeModulus - 1 /\ q \in Seq(Packets)
    BY <1>2, <1>7
  <2>5. /\ new \in RS!Buffers
        /\ new.buffer_ = b /\ new.startIdx_ = s /\ new.earliestExpected_ = e
        /\ new.shadowBuffer_ = q /\ new.canSendAcks_ = on
    BY <2>1, <2>3, <2>4, SelectiveRepeatOfFields
  <2> QED
    BY <2>2, <2>5
<1>10. InPlace(b, s, e, t)
  <2> SUFFICES ASSUME NEW i \in 0 .. W - 1, b[(s + i) % W] # None
               PROVE  b[(s + i) % W] = e + i /\ b[(s + i) % W] < t
    BY <1>1 DEF InPlace
  <2>1. PICK v : v = (s + i) % W
    OBVIOUS
  <2>2. v \in 0 .. W - 1
    <3>1. i \in Nat
      BY <1>2
    <3> QED
      BY <1>2, <2>1, <3>1, SlotIsSlot
  <2>3. CASE v = u
    <3>1. i = p - e
      BY <1>2, <1>3, <1>4, <2>1, <2>3, SlotsDiffer
    <3>2. b[v] = p /\ p = e + i
      BY <1>2, <1>5, <2>2, <2>3, <3>1
    <3> QED
      BY <2>1, <3>2
  <2>4. CASE v # u
    <3>1. b[v] = buf[v]
      BY <1>2, <1>5, <2>2, <2>4
    <3>2. buf[v] # None => buf[v] = e + i /\ buf[v] < t
      BY <1>1, <2>1 DEF InPlace
    <3> QED
      BY <2>1, <3>1, <3>2
  <2> QED
    BY <2>3, <2>4
<1> QED
  BY <1>1, <1>9, <1>10

(* A packet that is already there only lets the receiver answer.           *)
LEMMA HeardIs ==
  ASSUME SelectiveRepeat, NEW r \in RS!Buffers,
         NEW new, new = [r EXCEPT !.canSendAcks_ = TRUE]
  PROVE  /\ new \in RS!Buffers
         /\ new.buffer_ = r.buffer_ /\ new.startIdx_ = r.startIdx_
         /\ new.earliestExpected_ = r.earliestExpected_
         /\ new.shadowBuffer_ = r.shadowBuffer_
<1>1. r \in [buffer_           : [0 .. RSWindowSize - 1 -> Packets \cup {None}],
            startIdx_         : 0 .. RSWindowSize - 1,
            earliestExpected_ : SequenceNumbers,
            packetsInBuffer_  : 0 .. SizeModulus - 1,
            shadowBuffer_     : Seq(Packets),
            canSendAcks_      : BOOLEAN]
  BY SelectiveRepeatRSCalls, Zenon
<1>2. new \in [buffer_           : [0 .. RSWindowSize - 1 -> Packets \cup {None}],
              startIdx_         : 0 .. RSWindowSize - 1,
              earliestExpected_ : SequenceNumbers,
              packetsInBuffer_  : 0 .. SizeModulus - 1,
              shadowBuffer_     : Seq(Packets),
              canSendAcks_      : BOOLEAN]
  BY <1>1
<1>3. /\ new.buffer_ = r.buffer_ /\ new.startIdx_ = r.startIdx_
      /\ new.earliestExpected_ = r.earliestExpected_
      /\ new.shadowBuffer_ = r.shadowBuffer_
  BY <1>1
<1> QED
  BY <1>2, <1>3, SelectiveRepeatRSCalls, Zenon

(* A buffer that differs from r in its shadow buffer q only.               *)
OnlyShadow(new, r, q) ==
  /\ new \in RS!Buffers
  /\ new.buffer_ = r.buffer_ /\ new.startIdx_ = r.startIdx_
  /\ new.earliestExpected_ = r.earliestExpected_
  /\ new.shadowBuffer_ = q

(* Only the shadow buffer changes when a packet is handed out.             *)
LEMMA ShadowChanged ==
  ASSUME SelectiveRepeat, NEW r \in RS!Buffers, NEW q \in Seq(Packets)
  PROVE  OnlyShadow([r EXCEPT !.shadowBuffer_ = q], r, q)
<1> SUFFICES ASSUME NEW new, new = [r EXCEPT !.shadowBuffer_ = q]
             PROVE  OnlyShadow(new, r, q)
  OBVIOUS
<1>1. r \in [buffer_           : [0 .. RSWindowSize - 1 -> Packets \cup {None}],
            startIdx_         : 0 .. RSWindowSize - 1,
            earliestExpected_ : SequenceNumbers,
            packetsInBuffer_  : 0 .. SizeModulus - 1,
            shadowBuffer_     : Seq(Packets),
            canSendAcks_      : BOOLEAN]
  BY SelectiveRepeatRSCalls, Zenon
<1>2. new \in [buffer_           : [0 .. RSWindowSize - 1 -> Packets \cup {None}],
              startIdx_         : 0 .. RSWindowSize - 1,
              earliestExpected_ : SequenceNumbers,
              packetsInBuffer_  : 0 .. SizeModulus - 1,
              shadowBuffer_     : Seq(Packets),
              canSendAcks_      : BOOLEAN]
  BY <1>1
<1>3. /\ new.buffer_ = r.buffer_ /\ new.startIdx_ = r.startIdx_
      /\ new.earliestExpected_ = r.earliestExpected_
      /\ new.shadowBuffer_ = q
  BY <1>1
<1> QED
  BY <1>2, <1>3, SelectiveRepeatRSCalls, Zenon DEF OnlyShadow

(* What is accepted with selective repeat: a packet before those accepted, *)
(* or one that is not at the start of the window, changes nothing; else    *)
(* the run from there is accepted.  What is acknowledged has been          *)
(* accepted, except packet -1.                                             *)
LEMMA SelectiveRepeatAdds ==
  ASSUME SelectiveRepeat, NEW r, NEW n \in Nat, NEW t \in 0 .. NumPackets + 1,
         RSHolds(r, n, n, t), RS!Waiting(r) = {}, n <= t,
         NEW p \in Packets, p < t,
         NEW result, result = RS!addPacket(r, p)
  PROVE  \E a \in n .. t :
           /\ RSHolds(result.rs, n, a, t)
           /\ r.earliestExpected_ <= result.rs.earliestExpected_
           /\ r.earliestExpected_ = n =>
                result.rs.earliestExpected_ = a \/ n + RSWindowSize <= t
           /\ result.ack # None =>
                /\ result.ack \in SequenceNumbers
                /\ \/ result.ack < result.rs.earliestExpected_
                   \/ result.ack = SeqNumModulus - 1
<1>1. /\ r \in RS!Buffers /\ SelectiveRepeatHolds(r, n, n, t)
      /\ r.earliestExpected_ \in Nat /\ r.earliestExpected_ <= n
      /\ r.shadowBuffer_ = <<>>
      /\ InPlace(r.buffer_, r.startIdx_, r.earliestExpected_, t)
  <2>1. r \in RS!Buffers /\ SelectiveRepeatHolds(r, n, n, t)
    BY DEF RSHolds
  <2>2. r.earliestExpected_ \in Nat /\ r.shadowBuffer_ \in Seq(Packets)
    BY <2>1, SelectiveRepeatFields
  <2>3. r.shadowBuffer_ = <<>>
    BY <2>2, NoElements, SelectiveRepeatRSCalls
  <2> QED
    BY <2>1, <2>2, <2>3 DEF SelectiveRepeatHolds, InPlace
<1>2. PICK new : new = RS!SR!Received(r, p)
  OBVIOUS
<1>3. SeqNum(p) = p /\ p \in Nat /\ n \in n .. t
      /\ RSWindowSize \in Nat \ {0} /\ NumPackets + 1 < SeqNumModulus /\ t \in Nat
      /\ SeqNumModulus \in Nat \ {0} /\ NumPackets \in Nat
  BY ConstantTypes, SeqNumIsPosition DEF Packets
<1>4. \E a \in n .. t :
        /\ RSHolds(new, n, a, t)
        /\ r.earliestExpected_ <= new.earliestExpected_
        /\ r.earliestExpected_ = n =>
             new.earliestExpected_ = a \/ n + RSWindowSize <= t
  <2>1. CASE new = r
    BY <1>1, <1>3, <2>1
  <2>2. CASE new = [r EXCEPT !.canSendAcks_ = TRUE]
    <3>1. /\ new \in RS!Buffers
          /\ new.buffer_ = r.buffer_ /\ new.startIdx_ = r.startIdx_
          /\ new.earliestExpected_ = r.earliestExpected_
          /\ new.shadowBuffer_ = r.shadowBuffer_
      BY <1>1, <2>2, HeardIs
    <3>2. RSHolds(new, n, n, t)
      <4>1. ~ StopAndWait /\ ~ GoBackN
        BY Protocols
      <4>2. SelectiveRepeatHolds(new, n, n, t)
        BY <1>1, <3>1 DEF SelectiveRepeatHolds
      <4> QED
        BY <3>1, <4>1, <4>2 DEF RSHolds
    <3> QED
      BY <1>1, <1>3, <3>1, <3>2
  <2>3. CASE new # r /\ new # [r EXCEPT !.canSendAcks_ = TRUE]
    <3>1. PICK mid : mid = Inserted(r, p)
      OBVIOUS
    <3>2. /\ r.earliestExpected_ <= p
          /\ p < r.earliestExpected_ + RSWindowSize
          /\ new = RS!SR!updateBuffer(mid)
      BY <1>1, <1>2, <1>3, <2>3, <3>1, ReceivedIs
    <3>3. /\ mid \in RS!Buffers
          /\ mid.earliestExpected_ = r.earliestExpected_
          /\ mid.shadowBuffer_ = <<>>
          /\ InPlace(mid.buffer_, mid.startIdx_, mid.earliestExpected_, t)
      <4>1. /\ mid \in RS!Buffers
            /\ mid.earliestExpected_ = r.earliestExpected_
            /\ mid.shadowBuffer_ = r.shadowBuffer_
            /\ InPlace(mid.buffer_, mid.startIdx_, mid.earliestExpected_, t)
        <5>1. r \in RS!Buffers /\ t \in Nat
              /\ InPlace(r.buffer_, r.startIdx_, r.earliestExpected_, t)
          BY <1>1, <1>3
        <5> QED
          BY <3>1, <3>2, <5>1, InsertInPlace
      <4> QED
        BY <1>1, <4>1
    <3>4. PICK run \in 0 .. RSWindowSize :
            /\ new \in RS!Buffers
            /\ IsRun(new.shadowBuffer_, r.earliestExpected_,
                     r.earliestExpected_ + run)
            /\ r.earliestExpected_ + run <= t
            /\ new.earliestExpected_
                 = r.earliestExpected_ + IF run = RSWindowSize THEN 0 ELSE run
            /\ InPlace(new.buffer_, new.startIdx_, new.earliestExpected_, t)
      <4>1. mid.earliestExpected_ <= t
        BY <1>1, <3>3
      <4> QED
        BY <3>2, <3>3, <4>1, UpdateMovesRun
    <3>5. PICK e, end : e = r.earliestExpected_ /\ end = e + run
      OBVIOUS
    <3>6. PICK a : a = IF end > n THEN end ELSE n
      OBVIOUS
    <3>7. e \in Nat /\ e <= n /\ end \in Nat /\ end <= t /\ run \in Nat
          /\ new.earliestExpected_ = e + (IF run = RSWindowSize THEN 0 ELSE run)
          /\ a \in n .. t
      BY <1>1, <1>3, <3>4, <3>5, <3>6
    <3>8. /\ e <= new.earliestExpected_ /\ new.earliestExpected_ <= a
          /\ e = n => new.earliestExpected_ = a \/ n + RSWindowSize <= t
      <4>1. CASE run = RSWindowSize
        BY <1>3, <3>5, <3>6, <3>7, <4>1
      <4>2. CASE run # RSWindowSize
        BY <1>3, <3>5, <3>6, <3>7, <4>2
      <4> QED
        BY <4>1, <4>2
    <3>9. SelectiveRepeatHolds(new, n, a, t)
      <4>1. IsRun(new.shadowBuffer_, e, end)
        BY <3>4, <3>5
      <4>2. e + Len(new.shadowBuffer_) = end
        <5>1. Len(new.shadowBuffer_) = end - e
          BY <4>1 DEF IsRun
        <5> QED
          BY <3>7, <5>1
      <4>3. e \in 0 .. n
        BY <3>7
      <4> QED
        BY <3>4, <3>6, <3>8, <4>1, <4>2, <4>3 DEF SelectiveRepeatHolds, InPlace
    <3>10. RSHolds(new, n, a, t)
      <4>1. ~ StopAndWait /\ ~ GoBackN
        BY Protocols
      <4> QED
        BY <3>4, <3>9, <4>1 DEF RSHolds
    <3> QED
      BY <3>5, <3>7, <3>8, <3>10
  <2> QED
    BY <2>1, <2>2, <2>3
<1>5. /\ result.rs = new
      /\ result.ack = IF new.canSendAcks_
                      THEN (new.earliestExpected_ - 1) % SeqNumModulus ELSE None
  <2>1. PICK x : x = IF new.canSendAcks_
                     THEN (new.earliestExpected_ - 1) % SeqNumModulus ELSE None
    OBVIOUS
  <2>2. result = [rs |-> new, ack |-> x]
    BY <1>2, <2>1, SelectiveRepeatRSCalls, Zenon
  <2> QED
    BY <2>1, <2>2
<1>6. ASSUME NEW e \in SequenceNumbers
      PROVE  /\ (e - 1) % SeqNumModulus \in SequenceNumbers
             /\ \/ (e - 1) % SeqNumModulus < e
                \/ (e - 1) % SeqNumModulus = SeqNumModulus - 1
  <2>1. e \in Nat /\ e < SeqNumModulus
    BY <1>3 DEF SequenceNumbers
  <2>2. CASE e = 0
    <3>1. (e - 1) % SeqNumModulus = SeqNumModulus - 1
      BY <1>3, <2>2
    <3> QED
      BY <1>3, <3>1 DEF SequenceNumbers
  <2>3. CASE e # 0
    <3>1. e - 1 \in 0 .. SeqNumModulus - 1
      BY <1>3, <2>1, <2>3
    <3>2. (e - 1) % SeqNumModulus = e - 1
      BY <1>3, <3>1, SmallMod
    <3> QED
      BY <2>1, <3>1, <3>2 DEF SequenceNumbers
  <2> QED
    BY <2>2, <2>3
<1>7. new.earliestExpected_ \in SequenceNumbers
  BY <1>4, SelectiveRepeatFields DEF RSHolds
<1> QED
  BY <1>4, <1>5, <1>6, <1>7

(* What waits and what has been delivered make up what is accepted.        *)
LEMMA WaitingIs ==
  ASSUME NEW r, NEW n \in Nat, NEW a \in Nat, NEW t, RSHolds(r, n, a, t)
  PROVE  /\ n <= a
         /\ ~ SelectiveRepeat => Cardinality(RS!Waiting(r)) = a - n
         /\ {PacketAt(k) : k \in 0 .. n - 1} \cup RS!Waiting(r)
              = {PacketAt(k) : k \in 0 .. a - 1}
         /\ RS!Waiting(r) = {} => a = n
<1>1. ASSUME NEW S, (S = {} /\ a = n) \/ (S = {PacketAt(n)} /\ a = n + 1)
      PROVE  /\ n <= a /\ Cardinality(S) = a - n
             /\ {PacketAt(k) : k \in 0 .. n - 1} \cup S
                  = {PacketAt(k) : k \in 0 .. a - 1}
             /\ S = {} => a = n
  <2>1. CASE S = {} /\ a = n
    <3>1. Cardinality(S) = 0
      BY <2>1, FS_EmptySet
    <3> QED
      BY <2>1, <3>1
  <2>2. CASE S = {PacketAt(n)} /\ a = n + 1
    <3>1. Cardinality(S) = 1
      BY <2>2, FS_Singleton
    <3>2. 0 .. a - 1 = (0 .. n - 1) \cup {n}
      BY <2>2
    <3>3. {PacketAt(k) : k \in 0 .. n - 1} \cup S
             = {PacketAt(k) : k \in (0 .. n - 1) \cup {n}}
      BY <2>2
    <3> QED
      BY <2>2, <3>1, <3>2, <3>3
  <2> QED
    BY <1>1, <2>1, <2>2
<1>2. CASE StopAndWait
  <2>1. PICK S : S = RS!Waiting(r)
    OBVIOUS
  <2>2. S = {r.packetForDelivery_} \ {None}
    BY <1>2, <2>1, StopAndWaitRSCalls
  <2>3. /\ PacketAt(n) # None
        /\ \/ a = n /\ r.packetForDelivery_ = None
           \/ a = n + 1 /\ r.packetForDelivery_ = PacketAt(n)
    <3>1. PacketAt(n) \in Packets
      BY PacketAtIs
    <3> QED
      BY <1>2, <3>1, ConstantTypes DEF RSHolds, StopAndWaitHolds, Packets
  <2>4. (S = {} /\ a = n) \/ (S = {PacketAt(n)} /\ a = n + 1)
    BY <2>2, <2>3
  <2> QED
    BY <1>1, <2>1, <2>4
<1>3. CASE GoBackN
  <2>1. PICK S : S = RS!Waiting(r)
    OBVIOUS
  <2>2. S = Elements(r.shadowBuffer_)
    BY <1>3, <2>1, GoBackNRSCalls
  <2>3. \/ a = n /\ r.shadowBuffer_ = <<>>
        \/ a = n + 1 /\ r.shadowBuffer_ = <<PacketAt(n)>>
    BY <1>3 DEF RSHolds, GoBackNHolds
  <2>4. Elements(<<>>) = {} /\ Elements(<<PacketAt(n)>>) = {PacketAt(n)}
    <3>1. DOMAIN <<PacketAt(n)>> = {1}
      OBVIOUS
    <3> QED
      BY <3>1 DEF Elements
  <2>5. (S = {} /\ a = n) \/ (S = {PacketAt(n)} /\ a = n + 1)
    BY <2>2, <2>3, <2>4
  <2> QED
    BY <1>1, <2>1, <2>5
<1>4. CASE SelectiveRepeat
  <2>1. PICK q : q = r.shadowBuffer_
    OBVIOUS
  <2>2. q \in Seq(Packets) /\ Len(q) \in Nat /\ RS!Waiting(r) = Elements(q)
    BY <1>4, <2>1, SelectiveRepeatFields, SelectiveRepeatRSCalls DEF RSHolds
  <2>3. PICK k \in 0 .. n : /\ IsRun(q, k, k + Len(q))
                            /\ a = IF k + Len(q) > n THEN k + Len(q) ELSE n
    BY <1>4, <2>1 DEF RSHolds, SelectiveRepeatHolds
  <2>4. PICK end : end = k + Len(q)
    OBVIOUS
  <2>5. end \in Nat /\ end <= a /\ n <= a /\ (end = a \/ a = n)
    BY <2>2, <2>3, <2>4
  <2>6. Elements(q) = {PacketAt(i) : i \in k .. end - 1}
    BY <2>2, <2>3, <2>4, <2>5, RunPackets
  <2>7. 0 .. a - 1 = (0 .. n - 1) \cup (k .. end - 1)
    BY <2>5
  <2>8. {PacketAt(i) : i \in 0 .. n - 1} \cup Elements(q)
           = {PacketAt(i) : i \in (0 .. n - 1) \cup (k .. end - 1)}
    BY <2>6
  <2>9. Elements(q) = {} => a = n
    <3>1. Elements(q) = {} => Len(q) = 0
      BY <2>2, NoElements
    <3> QED
      BY <2>3, <3>1
  <2> QED
    BY <1>4, <2>2, <2>5, <2>7, <2>8, <2>9
<1> QED
  BY <1>2, <1>3, <1>4, Protocols

(* The empty buffer.                                                       *)
LEMMA RSEmpty ==
  /\ RSHolds(RS!Empty, 0, 0, 0) /\ RS!Waiting(RS!Empty) = {}
  /\ SelectiveRepeat => RS!Empty.earliestExpected_ = 0
<1>1. /\ 0 \in SequenceNumbers /\ 0 % SeqNumModulus = 0
      /\ RSWindowSize \in Nat \ {0} /\ 0 \in 0 .. SizeModulus - 1
      /\ 0 \in 0 .. RSWindowSize - 1
  BY ConstantTypes DEF SequenceNumbers
<1>2. Elements(<<>>) = {} /\ <<>> \in Seq(Packets)
  BY DEF Elements
<1>3. CASE StopAndWait
  <2>1. RS!Empty = [expectedPacketSeqNum_ |-> 0, packetForDelivery_ |-> None]
    BY <1>3, StopAndWaitRSCalls
  <2>2. RS!Empty \in RS!Buffers /\ RS!Waiting(RS!Empty) = {}
    BY <1>1, <1>3, <2>1, StopAndWaitRSCalls
  <2>3. StopAndWaitHolds(RS!Empty, 0, 0)
    BY <1>1, <2>1 DEF StopAndWaitHolds
  <2> QED
    BY <1>3, <2>2, <2>3, Protocols DEF RSHolds
<1>4. CASE GoBackN
  <2>1. RS!Empty = [shadowBuffer_ |-> <<>>, nextSequenceNumber_ |-> 0,
                    canSendAcks_ |-> FALSE]
    BY <1>4, GoBackNRSCalls
  <2>2. RS!Empty \in RS!Buffers /\ RS!Waiting(RS!Empty) = {}
    BY <1>1, <1>2, <1>4, <2>1, GoBackNRSCalls
  <2>3. GoBackNHolds(RS!Empty, 0, 0)
    BY <1>1, <2>1 DEF GoBackNHolds
  <2> QED
    BY <1>4, <2>2, <2>3, Protocols DEF RSHolds
<1>5. CASE SelectiveRepeat
  <2>1. PICK b : b = [s \in 0 .. RSWindowSize - 1 |-> None]
    OBVIOUS
  <2>2. RS!Empty = RSBuffer(b, 0, 0, 0, <<>>, FALSE)
    BY <1>5, <2>1, SelectiveRepeatRSCalls DEF RSBuffer
  <2>3. b \in [0 .. RSWindowSize - 1 -> Packets \cup {None}]
    BY <2>1
  <2>4. /\ RS!Empty \in RS!Buffers /\ RS!Empty.buffer_ = b
        /\ RS!Empty.startIdx_ = 0
        /\ RS!Empty.earliestExpected_ = 0 /\ RS!Empty.shadowBuffer_ = <<>>
    BY <1>1, <1>2, <1>5, <2>2, <2>3, SelectiveRepeatOfFields
  <2>5. RS!Waiting(RS!Empty) = {}
    BY <1>2, <1>5, <2>4, SelectiveRepeatRSCalls
  <2>6. SelectiveRepeatHolds(RS!Empty, 0, 0, 0)
    <3>1. ASSUME NEW i \in 0 .. RSWindowSize - 1
          PROVE  b[(0 + i) % RSWindowSize] = None
      <4>1. (0 + i) % RSWindowSize \in 0 .. RSWindowSize - 1
        BY <1>1
      <4> QED
        BY <2>1, <4>1
    <3>2. IsRun(<<>>, 0, 0) /\ Len(<<>>) = 0 /\ 0 \in 0 .. 0
      BY RunEmpty
    <3>3. \E k \in 0 .. 0 :
            LET end == k + Len(<<>>)
            IN  IsRun(<<>>, k, end) /\ 0 = IF end > 0 THEN end ELSE 0
      BY <3>2
    <3> QED
      BY <2>4, <3>1, <3>3 DEF SelectiveRepeatHolds
  <2> QED
    BY <1>5, <2>4, <2>5, <2>6, Protocols DEF RSHolds
<1> QED
  BY <1>3, <1>4, <1>5, Protocols

(* What the buffer holds does not change when more is transmitted.         *)
LEMMA RSLater ==
  ASSUME NEW r, NEW n, NEW a, NEW t \in Nat, NEW u \in Nat, t <= u,
         RSHolds(r, n, a, t)
  PROVE  RSHolds(r, n, a, u)
<1>1. ASSUME SelectiveRepeat
      PROVE  SelectiveRepeatHolds(r, n, a, u)
  <2>1. SelectiveRepeatHolds(r, n, a, t) /\ r.earliestExpected_ \in Nat
    BY <1>1, SelectiveRepeatFields DEF RSHolds
  <2>2. RSWindowSize \in Nat
    BY ConstantTypes
  <2> QED
    BY <2>1, <2>2 DEF SelectiveRepeatHolds
<1> QED
  BY <1>1 DEF RSHolds

(* What the receiver waits for first comes after what it has delivered.    *)
LEMMA RSExpects ==
  ASSUME SelectiveRepeat, NEW r, NEW n, NEW a, NEW t, RSHolds(r, n, a, t)
  PROVE  r.earliestExpected_ \in Nat /\ r.earliestExpected_ <= a
BY SelectiveRepeatFields DEF RSHolds, SelectiveRepeatHolds

(* An arrival.  What is accepted is a packet that has been transmitted, or *)
(* the numbers have rolled over.                                           *)
LEMMA RSAdd ==
  ASSUME NEW r, NEW n \in Nat, NEW t \in 0 .. NumPackets + 1,
         RSHolds(r, n, n, t), RS!Waiting(r) = {},
         \/ n <= t
         \/ RollsOver /\ t = NumPackets + 1,
         NEW p \in Packets, p < t,
         NEW result, result = RS!addPacket(r, p)
  PROVE  \E a \in Nat :
           /\ RSHolds(result.rs, n, a, t)
           /\ \/ a <= t
              \/ RollsOver /\ t = NumPackets + 1
           /\ result.ack # None => result.ack \in SequenceNumbers
           /\ ~ SelectiveRepeat => (result.ack # None => result.ack < a)
           /\ SelectiveRepeat =>
                /\ r.earliestExpected_ <= result.rs.earliestExpected_
                /\ r.earliestExpected_ = n =>
                     \/ result.rs.earliestExpected_ = a
                     \/ n + RSWindowSize <= t
                /\ result.ack # None =>
                     \/ result.ack < result.rs.earliestExpected_
                     \/ result.ack = SeqNumModulus - 1
<1>1. /\ NumPackets \in Nat /\ SeqNumModulus \in Nat \ {0} /\ t \in Nat
      /\ NumPackets + 1 <= SeqNumModulus /\ p \in Nat
  BY ConstantTypes DEF Packets
<1>2. CASE ~ SelectiveRepeat
  <2>1. RollsOver \/ n <= NumPackets + 1
    BY <1>1
  <2>2. PICK a \in {n, n + 1} :
          /\ RSHolds(result.rs, n, a, t)
          /\ a = n \/ p = n % SeqNumModulus
          /\ result.ack # None =>
               result.ack \in SequenceNumbers /\ result.ack < a
    <3>1. t \in Nat
      BY <1>1
    <3>2. StopAndWait => AddsNext(n, t, p, result)
      BY <2>1, <3>1, StopAndWaitAdds
    <3>3. GoBackN => AddsNext(n, t, p, result)
      BY <2>1, <3>1, GoBackNAdds
    <3> QED
      BY <1>2, <3>2, <3>3, Protocols DEF AddsNext
  <2>3. \/ a <= t
        \/ RollsOver /\ t = NumPackets + 1
    <3>1. CASE a = n
      BY <3>1
    <3>2. CASE a = n + 1 /\ p = n % SeqNumModulus /\ n < SeqNumModulus
      <4>1. n % SeqNumModulus = n
        BY <1>1, <3>2
      <4> QED
        BY <1>1, <3>2, <4>1
    <3>3. CASE n >= SeqNumModulus
      BY <1>1, <3>3 DEF RollsOver
    <3> QED
      BY <1>1, <2>2, <3>1, <3>2, <3>3
  <2> QED
    BY <1>2, <2>2, <2>3
<1>3. CASE SelectiveRepeat
  <2>1. n <= t
    BY <1>1, <1>3, ConstantTypes DEF RollsOver
  <2>2. PICK a \in n .. t :
          /\ RSHolds(result.rs, n, a, t)
          /\ r.earliestExpected_ <= result.rs.earliestExpected_
          /\ r.earliestExpected_ = n =>
               result.rs.earliestExpected_ = a \/ n + RSWindowSize <= t
          /\ result.ack # None =>
               /\ result.ack \in SequenceNumbers
               /\ \/ result.ack < result.rs.earliestExpected_
                  \/ result.ack = SeqNumModulus - 1
    BY <1>3, <2>1, SelectiveRepeatAdds
  <2>3. a \in Nat /\ a <= t
    BY <1>1
  <2> QED
    BY <1>3, <2>2, <2>3
<1> QED
  BY <1>2, <1>3

(* What the first packet of a shadow buffer q is handed out with.          *)
HandedOut(r, q, result) ==
  /\ q = <<>> => result.packet = None
  /\ q # <<>> => /\ result.packet = Head(q)
                 /\ result.rs = [r EXCEPT !.shadowBuffer_ = Tail(q)]

(* getNextPacket with a shadow buffer.                                     *)
LEMMA NextFromShadow ==
  ASSUME GoBackN \/ SelectiveRepeat, NEW r
  PROVE  HandedOut(r, r.shadowBuffer_, RS!getNextPacket(r))
<1> SUFFICES ASSUME NEW q, q = r.shadowBuffer_,
                    NEW result, result = RS!getNextPacket(r)
             PROVE  HandedOut(r, q, result)
  OBVIOUS
<1>1. RS!getNextPacket(r)
        = IF r.shadowBuffer_ = <<>>
          THEN [rs |-> r, packet |-> None]
          ELSE [rs     |-> [r EXCEPT !.shadowBuffer_ = Tail(@)],
                packet |-> Head(r.shadowBuffer_)]
  BY GoBackNRSCalls, SelectiveRepeatRSCalls, Zenon
<1>2. CASE q = <<>>
  <2>1. result = [rs |-> r, packet |-> None]
    BY <1>1, <1>2, Zenon
  <2> QED
    BY <1>2, <2>1 DEF HandedOut
<1>3. CASE q # <<>>
  <2>1. PICK x, h : x = [r EXCEPT !.shadowBuffer_ = Tail(q)] /\ h = Head(q)
    OBVIOUS
  <2>2. result = [rs |-> x, packet |-> h]
    BY <1>1, <1>3, <2>1, Zenon
  <2>3. result.rs = x /\ result.packet = h
    BY <2>2
  <2> QED
    BY <1>3, <2>1, <2>3, Zenon DEF HandedOut
<1> QED
  BY <1>2, <1>3

(* getNextPacket hands out what waits, in order.  With selective repeat it *)
(* may be a packet that has been delivered before.                         *)
LEMMA RSNext ==
  ASSUME NEW r, NEW n \in Nat, NEW a \in Nat, NEW t, RSHolds(r, n, a, t),
         RollsOver \/ a <= NumPackets + 1,
         NEW result, result = RS!getNextPacket(r)
  PROVE  /\ result.packet = None <=> RS!Waiting(r) = {}
         /\ result.packet # None =>
              /\ result.packet \in Packets
              /\ \/ /\ SeqNum(result.packet) = n % SeqNumModulus
                    /\ result.packet = PacketAt(n)
                    /\ RSHolds(result.rs, n + 1, a, t)
                 \/ /\ SeqNum(result.packet) # n % SeqNumModulus
                    /\ RSHolds(result.rs, n, a, t)
              /\ SelectiveRepeat =>
                   result.rs.earliestExpected_ = r.earliestExpected_
<1>1. /\ NumPackets \in Nat /\ SeqNumModulus \in Nat \ {0}
      /\ NumPackets + 1 <= SeqNumModulus /\ None \notin Int
  BY ConstantTypes
<1>2. PICK p, new, w :
        p = result.packet /\ new = result.rs /\ w = RS!Waiting(r)
  OBVIOUS
<1> DEFINE Counted == /\ SeqNum(p) = n % SeqNumModulus
                      /\ p = PacketAt(n)
                      /\ RSHolds(new, n + 1, a, t)
           Skipped == /\ SeqNum(p) # n % SeqNumModulus
                      /\ RSHolds(new, n, a, t)
           Keeps == SelectiveRepeat => new.earliestExpected_ = r.earliestExpected_
<1> SUFFICES /\ p = None <=> w = {}
             /\ p # None => p \in Packets /\ (Counted \/ Skipped) /\ Keeps
  BY <1>2, Zenon
<1> HIDE DEF Counted, Skipped, Keeps
<1>3. PICK p0 : p0 = PacketAt(n)
  OBVIOUS
<1>4. p0 \in Packets /\ p0 # None
  BY <1>1, <1>3, PacketAtIs DEF Packets
<1>5. a = n + 1 => SeqNum(p0) = n % SeqNumModulus
  <2>1. a = n + 1 => n <= NumPackets \/ RollsOver
    BY <1>1
  <2>2. RollsOver \/ n <= NumPackets + 1 \/ a # n + 1
    BY <1>1
  <2> QED
    BY <1>3, <1>4, <2>1, <2>2, PacketCounted
<1>6. PICK m : m = n % SeqNumModulus
  OBVIOUS
<1>7. CASE StopAndWait
  <2>1. /\ r \in [expectedPacketSeqNum_ : SequenceNumbers,
                  packetForDelivery_    : Packets \cup {None}]
        /\ r.expectedPacketSeqNum_ = m
        /\ \/ a = n /\ r.packetForDelivery_ = None
           \/ a = n + 1 /\ r.packetForDelivery_ = p0
    BY <1>3, <1>6, <1>7, StopAndWaitRSCalls DEF RSHolds, StopAndWaitHolds
  <2>2. RS!Waiting(r) = {r.packetForDelivery_} \ {None}
    BY <1>7, StopAndWaitRSCalls
  <2>3. CASE r.packetForDelivery_ = None
    <3>1. p = None
      BY <1>2, <1>7, <2>3, StopAndWaitRSCalls
    <3> QED
      BY <1>2, <2>2, <2>3, <3>1
  <2>4. CASE r.packetForDelivery_ # None
    <3>1. a = n + 1 /\ r.packetForDelivery_ = p0
      BY <2>1, <2>4
    <3>2. PICK next : next = (m + 1) % SeqNumModulus
      OBVIOUS
    <3>3. p = p0 /\ new = [packetForDelivery_ |-> None,
                           expectedPacketSeqNum_ |-> next]
      BY <1>2, <1>7, <2>1, <2>4, <3>1, <3>2, StopAndWaitRSCalls
    <3>4. next \in SequenceNumbers /\ next = (n + 1) % SeqNumModulus
      BY <1>6, <3>2, Counter
    <3>5. StopAndWaitHolds(new, n + 1, a)
      BY <3>1, <3>3, <3>4 DEF StopAndWaitHolds
    <3>6. new \in RS!Buffers
      BY <1>7, <3>3, <3>4, StopAndWaitRSCalls
    <3>7. RSHolds(new, n + 1, a, t)
      BY <1>7, <3>5, <3>6, Protocols DEF RSHolds
    <3>8. ~ SelectiveRepeat /\ RS!Waiting(r) # {}
      BY <1>7, <2>2, <2>4, Protocols
    <3>9. Counted /\ Keeps
      BY <1>3, <1>4, <1>5, <3>1, <3>3, <3>7, <3>8 DEF Counted, Keeps
    <3> QED
      BY <1>2, <1>4, <3>3, <3>8, <3>9
  <2> QED
    BY <2>3, <2>4
<1>8. CASE GoBackN
  <2>0. HandedOut(r, r.shadowBuffer_, result)
    BY <1>8, NextFromShadow
  <2>1. /\ r \in [shadowBuffer_       : Seq(Packets),
                  nextSequenceNumber_ : SequenceNumbers,
                  canSendAcks_        : BOOLEAN]
        /\ r.nextSequenceNumber_ = a % SeqNumModulus
        /\ r.canSendAcks_ => a > 0
        /\ \/ a = n /\ r.shadowBuffer_ = <<>>
           \/ a = n + 1 /\ r.shadowBuffer_ = <<p0>>
    BY <1>3, <1>8, GoBackNRSCalls DEF RSHolds, GoBackNHolds
  <2>2. RS!Waiting(r) = {} <=> r.shadowBuffer_ = <<>>
    <3>1. r.shadowBuffer_ \in Seq(Packets)
      BY <2>1
    <3> QED
      BY <1>8, <3>1, GoBackNRSCalls, NoElements
  <2>3. CASE r.shadowBuffer_ = <<>>
    <3>1. p = None
      BY <1>2, <2>0, <2>3 DEF HandedOut
    <3> QED
      BY <1>2, <2>2, <2>3, <3>1
  <2>4. CASE r.shadowBuffer_ # <<>>
    <3>1. a = n + 1 /\ r.shadowBuffer_ = <<p0>>
      BY <2>1, <2>4
    <3>2. Head(<<p0>>) = p0 /\ Tail(<<p0>>) = <<>>
      OBVIOUS
    <3>3. p = p0 /\ new = [r EXCEPT !.shadowBuffer_ = <<>>]
      <4>1. PICK q : q = r.shadowBuffer_
        OBVIOUS
      <4>2. /\ result.packet = Head(q)
            /\ result.rs = [r EXCEPT !.shadowBuffer_ = Tail(q)]
        BY <2>0, <2>4, <4>1, Zenon DEF HandedOut
      <4>3. Head(q) = p0 /\ Tail(q) = <<>>
        BY <3>1, <3>2, <4>1
      <4> QED
        BY <1>2, <4>2, <4>3, Zenon
    <3>4. /\ new \in [shadowBuffer_       : Seq(Packets),
                      nextSequenceNumber_ : SequenceNumbers,
                      canSendAcks_        : BOOLEAN]
          /\ new.shadowBuffer_ = <<>> /\ new.canSendAcks_ = r.canSendAcks_
          /\ new.nextSequenceNumber_ = r.nextSequenceNumber_
      <4>1. r \in [shadowBuffer_       : Seq(Packets),
                  nextSequenceNumber_ : SequenceNumbers,
                  canSendAcks_        : BOOLEAN]
        BY <2>1
      <4>2. PICK e \in Seq(Packets) : e = <<>>
        <5>1. <<>> \in Seq(Packets)
          OBVIOUS
        <5> QED
          BY <5>1
      <4>3. new = [r EXCEPT !.shadowBuffer_ = e]
        BY <3>3, <4>2
      <4>4. /\ new \in [shadowBuffer_       : Seq(Packets),
                        nextSequenceNumber_ : SequenceNumbers,
                        canSendAcks_        : BOOLEAN]
            /\ new.shadowBuffer_ = e /\ new.canSendAcks_ = r.canSendAcks_
            /\ new.nextSequenceNumber_ = r.nextSequenceNumber_
        BY <4>1, <4>2, <4>3
      <4> QED
        BY <4>2, <4>4
    <3>5. GoBackNHolds(new, n + 1, a)
      BY <2>1, <3>1, <3>4 DEF GoBackNHolds
    <3>6. new \in RS!Buffers
      BY <1>8, <3>4, GoBackNRSCalls
    <3>7. RSHolds(new, n + 1, a, t)
      BY <1>8, <3>5, <3>6, Protocols DEF RSHolds
    <3>8. ~ SelectiveRepeat
      BY <1>8, Protocols
    <3>9. Counted /\ Keeps
      BY <1>3, <1>4, <1>5, <3>1, <3>3, <3>7, <3>8 DEF Counted, Keeps
    <3> QED
      BY <1>2, <1>4, <2>2, <2>4, <3>3, <3>9
  <2> QED
    BY <2>3, <2>4
<1>9. CASE SelectiveRepeat
  <2>0. HandedOut(r, r.shadowBuffer_, result)
    BY <1>9, NextFromShadow
  <2>1. PICK q : q = r.shadowBuffer_
    OBVIOUS
  <2>2. /\ r \in RS!Buffers /\ SelectiveRepeatHolds(r, n, a, t)
        /\ q \in Seq(Packets) /\ (RS!Waiting(r) = {} <=> q = <<>>)
    <3>1. r \in RS!Buffers /\ SelectiveRepeatHolds(r, n, a, t)
      BY <1>9 DEF RSHolds
    <3> QED
      BY <1>9, <2>1, <3>1, SelectiveRepeatFields, SelectiveRepeatRSCalls, NoElements
  <2>3. PICK k \in 0 .. n : /\ IsRun(q, k, k + Len(q))
                            /\ a = IF k + Len(q) > n THEN k + Len(q) ELSE n
    BY <2>1, <2>2 DEF SelectiveRepeatHolds
  <2>4. CASE q = <<>>
    <3>1. p = None
      BY <1>2, <2>0, <2>1, <2>4 DEF HandedOut
    <3> QED
      BY <1>2, <2>2, <2>4, <3>1
  <2>5. CASE q # <<>>
    <3>1. p = Head(q) /\ new = [r EXCEPT !.shadowBuffer_ = Tail(q)]
      <4>1. /\ result.packet = Head(q)
            /\ result.rs = [r EXCEPT !.shadowBuffer_ = Tail(q)]
        BY <2>0, <2>1, <2>5, Zenon DEF HandedOut
      <4> QED
        BY <1>2, <4>1, Zenon
    <3>2. PICK end : end = k + Len(q)
      OBVIOUS
    <3>3. /\ p = PacketAt(k) /\ p \in Packets /\ p # None /\ k < end
          /\ Tail(q) \in Seq(Packets) /\ IsRun(Tail(q), k + 1, end)
      <4>1. k \in Int /\ end \in Int /\ IsRun(q, k, end)
        BY <2>2, <2>3, <3>2
      <4> QED
        BY <1>1, <2>2, <2>5, <3>1, <4>1, RunTail DEF Packets
    <3>4. /\ end \in Nat /\ a = IF end > n THEN end ELSE n
          /\ a <= NumPackets + 1 /\ NumPackets + 1 < SeqNumModulus
      <4>1. NumPackets + 1 < SeqNumModulus
        BY <1>9, ConstantTypes
      <4>2. a <= NumPackets + 1
        BY <1>1, <4>1 DEF RollsOver
      <4> QED
        BY <2>2, <2>3, <3>2, <4>1, <4>2
    <3>5. p = k /\ SeqNum(p) = k /\ n % SeqNumModulus = n
      <4>1. k \in Nat /\ k <= NumPackets
        BY <1>1, <3>3, <3>4
      <4>2. p = k
        BY <3>3, <4>1, PacketAtIs
      <4>3. n \in 0 .. SeqNumModulus - 1
        BY <1>1, <3>4
      <4> QED
        BY <1>1, <3>3, <4>2, <4>3, SmallMod, SeqNumIsPosition
    <3>6. /\ new \in RS!Buffers
          /\ new.buffer_ = r.buffer_ /\ new.startIdx_ = r.startIdx_
          /\ new.earliestExpected_ = r.earliestExpected_
          /\ new.shadowBuffer_ = Tail(q)
      <4>1. r \in RS!Buffers /\ Tail(q) \in Seq(Packets)
        BY <2>2, <3>3
      <4>2. PICK tl : tl = Tail(q)
        OBVIOUS
      <4>3. PICK x : x = [r EXCEPT !.shadowBuffer_ = tl]
        OBVIOUS
      <4>4. OnlyShadow(x, r, tl)
        BY <1>9, <4>1, <4>2, <4>3, ShadowChanged
      <4>5. new = x
        BY <3>1, <4>2, <4>3
      <4> QED
        BY <4>2, <4>4, <4>5 DEF OnlyShadow
    <3>7. ASSUME NEW n2 \in {n, n + 1}, k + 1 <= n2,
                 a = IF end > n2 THEN end ELSE n2
          PROVE  RSHolds(new, n2, a, t)
      <4>1. PICK s : s = new.shadowBuffer_
        OBVIOUS
      <4>2. k + 1 \in 0 .. n2 /\ IsRun(s, k + 1, end) /\ end = (k + 1) + Len(s)
        <5>1. Len(s) = end - (k + 1)
          BY <3>3, <3>6, <4>1 DEF IsRun
        <5> QED
          BY <3>3, <3>4, <3>6, <3>7, <4>1, <5>1
      <4>3. SelectiveRepeatHolds(new, n2, a, t)
        <5>1. /\ r.earliestExpected_ <= a
              /\ \A i \in 0 .. RSWindowSize - 1 :
                   LET x == r.buffer_[(r.startIdx_ + i) % RSWindowSize]
                   IN  x # None => x = r.earliestExpected_ + i /\ x < t
          BY <2>2 DEF SelectiveRepeatHolds
        <5>2. /\ new.earliestExpected_ <= a
              /\ \A i \in 0 .. RSWindowSize - 1 :
                   LET x == new.buffer_[(new.startIdx_ + i) % RSWindowSize]
                   IN  x # None => x = new.earliestExpected_ + i /\ x < t
          BY <3>6, <5>1
        <5>3. \E j \in 0 .. n2 :
                /\ IsRun(s, j, j + Len(s))
                /\ a = IF j + Len(s) > n2 THEN j + Len(s) ELSE n2
          BY <3>7, <4>2
        <5> QED
          BY <4>1, <5>2, <5>3 DEF SelectiveRepeatHolds
      <4> QED
        BY <1>9, <3>6, <4>3, Protocols DEF RSHolds
    <3>8. CASE k = n
      <4>1. RSHolds(new, n + 1, a, t)
        BY <3>3, <3>4, <3>7, <3>8
      <4>2. Counted /\ Keeps
        BY <3>3, <3>5, <3>6, <3>8, <4>1 DEF Counted, Keeps
      <4> QED
        BY <1>2, <2>2, <2>5, <3>3, <4>2
    <3>9. CASE k # n
      <4>1. RSHolds(new, n, a, t)
        BY <3>3, <3>4, <3>7, <3>9
      <4>2. Skipped /\ Keeps
        BY <3>3, <3>5, <3>6, <3>9, <4>1 DEF Skipped, Keeps
      <4> QED
        BY <1>2, <2>2, <2>5, <3>3, <4>2
    <3> QED
      BY <3>8, <3>9
  <2> QED
    BY <2>4, <2>5
<1> QED
  BY <1>7, <1>8, <1>9, Protocols

==============================================================================
