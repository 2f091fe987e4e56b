---------------------------- MODULE PacketProofs -----------------------------
(***************************************************************************)
(* Theorems about the packets and the identifiers of conversations: the    *)
(* two copies of a header agree after every operation on a packet, a       *)
(* receiver reads the header that was sent, and an identifier given out is *)
(* not in use.                                                             *)
(***************************************************************************)
EXTENDS DataPacket, ConversationIDAllocator, NumberLemmas, FiniteSetTheorems

(***************************************************************************)
(* Packets.                                                                *)
(***************************************************************************)
(* A number is cut into two bytes and put together again.                  *)
LEMMA WordRoundTrip ==
  ASSUME NEW w \in Words
  PROVE  /\ w \div Base \in Bytes
         /\ w % Base \in Bytes
         /\ ntohs(w \div Base, w % Base) = w
<1> DEFINE q == w \div Base
           r == w % Base
<1>1. Base \in Nat \ {0} /\ w \in Nat /\ w < Base * Base
  BY UnitAssumption DEF Words
<1>2. q \in Nat /\ r \in 0 .. Base - 1 /\ w = Base * q + r
  BY <1>1
<1> HIDE DEF q, r
<1>3. q < Base
  <2>1. SUFFICES ASSUME q >= Base PROVE FALSE
    BY <1>1, <1>2
  <2>2. Base * q >= Base * Base
    BY <1>1, <1>2, <2>1
  <2>3. Base * q \in Nat /\ Base * Base \in Nat
    BY <1>1, <1>2
  <2> QED
    BY <1>1, <1>2, <2>2, <2>3
<1>4. q \in Bytes /\ r \in Bytes /\ ntohs(q, r) = w
  BY <1>1, <1>2, <1>3 DEF Bytes, ntohs
<1> QED
  BY <1>4 DEF q, r

(* What a header is written as is read as the same header, whatever        *)
(* follows it.                                                             *)
LEMMA HeaderRoundTrip ==
  ASSUME NEW hdr \in Headers, NEW data,
         \A i \in 1 .. HeaderSize : data[i] = serialise(hdr)[i]
  PROVE  deserialise(data) = hdr
<1>1. /\ hdr = [id_ |-> hdr.id_, sequenceNumber_ |-> hdr.sequenceNumber_,
                length_ |-> hdr.length_]
      /\ hdr.sequenceNumber_ \in Words /\ hdr.length_ \in Words
  BY DEF Headers
<1>2. /\ data[1] = hdr.id_
      /\ data[2] = hdr.sequenceNumber_ \div Base
      /\ data[3] = hdr.sequenceNumber_ % Base
      /\ data[4] = hdr.length_ \div Base
      /\ data[5] = hdr.length_ % Base
  BY DEF HeaderSize, serialise, htons
<1>3. /\ ntohs(data[2], data[3]) = hdr.sequenceNumber_
      /\ ntohs(data[4], data[5]) = hdr.length_
  BY <1>1, <1>2, WordRoundTrip
<1> QED
  BY <1>1, <1>2, <1>3 DEF deserialise

(* A header is written as bytes.                                           *)
LEMMA SerialisedBytes ==
  ASSUME NEW hdr \in Headers
  PROVE  \A i \in 1 .. HeaderSize : serialise(hdr)[i] \in Bytes
<1>1. hdr.id_ \in Bytes /\ hdr.sequenceNumber_ \in Words /\ hdr.length_ \in Words
  BY DEF Headers
<1>2. /\ hdr.sequenceNumber_ \div Base \in Bytes
      /\ hdr.sequenceNumber_ % Base \in Bytes
      /\ hdr.length_ \div Base \in Bytes
      /\ hdr.length_ % Base \in Bytes
  BY <1>1, WordRoundTrip
<1> QED
  BY <1>1, <1>2 DEF HeaderSize, serialise, htons

(* The constants are numbers of the expected ranges.                       *)
LEMMA UnitTypes ==
  /\ Base \in Nat \ {0} /\ Base * Base \in Nat
  /\ MaxUnit \in Nat /\ MaxPayload \in Words /\ MaxPayload \in Nat
  /\ 0 \in Words /\ 0 \in Bytes
<1>1. Base * Base \in Nat
  BY UnitAssumption
<1>2. MaxPayload \in Nat /\ MaxPayload < Base * Base
  BY UnitAssumption, <1>1 DEF MaxPayload, HeaderSize
<1> QED
  BY UnitAssumption, <1>1, <1>2 DEF Words, Bytes

(* A function over 1 .. n is a sequence of length n.                        *)
LEMMA FunctionIsSequence ==
  ASSUME NEW S, NEW n \in Nat, NEW f \in [1 .. n -> S]
  PROVE  f \in Seq(S) /\ Len(f) = n
OBVIOUS

(* What every packet of the program is: data_ starts with header_, and its *)
(* size is that of the header and of as many bytes as the header says.     *)
CopiesAgree(packet) ==
  /\ packet \in [header_ : Headers, data_ : Seq(Bytes)]
  /\ packet.header_.length_ \in 0 .. MaxPayload
  /\ Len(packet.data_) = HeaderSize + packet.header_.length_
  /\ \A i \in 1 .. HeaderSize : packet.data_[i] = serialise(packet.header_)[i]

(* Writing the header makes the copies agree, if the sizes do, and leaves  *)
(* the payload.                                                            *)
LEMMA SerialiseHeaderAgrees ==
  ASSUME NEW hdr \in Headers, NEW data \in Seq(Bytes),
         hdr.length_ \in 0 .. MaxPayload,
         Len(data) = HeaderSize + hdr.length_
  PROVE  LET packet == serialiseHeader([header_ |-> hdr, data_ |-> data])
         IN  /\ CopiesAgree(packet)
             /\ packet.header_ = hdr
             /\ \A i \in HeaderSize + 1 .. Len(data) : packet.data_[i] = data[i]
<1> DEFINE new == [i \in DOMAIN data |-> IF i > HeaderSize THEN data[i]
                                         ELSE serialise(hdr)[i]]
<1>1. serialiseHeader([header_ |-> hdr, data_ |-> data])
        = [header_ |-> hdr, data_ |-> new]
  BY DEF serialiseHeader
<1>2. DOMAIN data = 1 .. Len(data) /\ Len(data) \in Nat
  OBVIOUS
<1>3. \A i \in 1 .. Len(data) : new[i] \in Bytes
  <2> SUFFICES ASSUME NEW i \in 1 .. Len(data) PROVE new[i] \in Bytes
    OBVIOUS
  <2>1. new[i] = IF i > HeaderSize THEN data[i] ELSE serialise(hdr)[i]
    BY <1>2
  <2> HIDE DEF new
  <2>2. CASE i > HeaderSize
    <3>1. data[i] \in Bytes
      BY <1>2
    <3> QED
      BY <2>1, <2>2, <3>1
  <2>3. CASE ~(i > HeaderSize)
    <3>1. i \in 1 .. HeaderSize
      BY <1>2, <2>3 DEF HeaderSize
    <3>2. serialise(hdr)[i] \in Bytes
      BY <3>1, SerialisedBytes
    <3> QED
      BY <2>1, <2>3, <3>2
  <2> QED
    BY <2>2, <2>3
<1>4. new \in Seq(Bytes) /\ Len(new) = Len(data)
  <2>1. DOMAIN new = 1 .. Len(data) /\ new = [i \in DOMAIN new |-> new[i]]
    BY <1>2
  <2> HIDE DEF new
  <2>2. new \in [1 .. Len(data) -> Bytes]
    BY <1>3, <2>1
  <2> QED
    BY <1>2, <2>2, FunctionIsSequence
<1>5. \A i \in 1 .. HeaderSize : new[i] = serialise(hdr)[i]
  <2> SUFFICES ASSUME NEW i \in 1 .. HeaderSize
               PROVE  new[i] = serialise(hdr)[i]
    OBVIOUS
  <2>1. HeaderSize \in Nat /\ hdr.length_ \in Nat
    BY UnitTypes DEF HeaderSize
  <2>2. i \in DOMAIN data /\ ~ (i > HeaderSize)
    BY <1>2, <2>1
  <2> QED
    BY <2>2
<1>6. \A i \in HeaderSize + 1 .. Len(data) : new[i] = data[i]
  <2> SUFFICES ASSUME NEW i \in HeaderSize + 1 .. Len(data)
               PROVE  new[i] = data[i]
    OBVIOUS
  <2>1. i > HeaderSize /\ i \in DOMAIN data
    BY <1>2 DEF HeaderSize
  <2> QED
    BY <2>1
<1> HIDE DEF new
<1> QED
  BY <1>1, <1>4, <1>5, <1>6 DEF CopiesAgree

(* Changing the length, to one that fits.                                  *)
LEMMA UpdateDataLengthAgrees ==
  ASSUME NEW hdr \in Headers, NEW data \in Seq(Bytes),
         NEW len \in 0 .. MaxPayload
  PROVE  LET packet == updateDataLength([header_ |-> hdr, data_ |-> data], len)
         IN  /\ CopiesAgree(packet)
             /\ packet.header_ = [hdr EXCEPT !.length_ = len]
<1> DEFINE size == HeaderSize + len
           new  == resize(data, size)
<1>1. updateDataLength([header_ |-> hdr, data_ |-> data], len)
        = serialiseHeader([header_ |-> [hdr EXCEPT !.length_ = len], data_ |-> new])
  BY UnitTypes DEF updateDataLength
<1>2. size \in Nat
  BY UnitTypes DEF HeaderSize
<1>3. new = [i \in 1 .. size |-> IF i <= Len(data) THEN data[i] ELSE 0]
  BY DEF resize
<1>4. \A i \in 1 .. size : (IF i <= Len(data) THEN data[i] ELSE 0) \in Bytes
  BY <1>2, UnitTypes
<1>5. new \in Seq(Bytes) /\ Len(new) = size
  <2> HIDE DEF size, new
  <2> QED
    BY <1>2, <1>3, <1>4
<1>6. len \in Words
  BY UnitTypes DEF Words
<1>7. [hdr EXCEPT !.length_ = len] \in Headers
  BY <1>6 DEF Headers
<1>8. [hdr EXCEPT !.length_ = len].length_ = len
  BY DEF Headers
<1> DEFINE hdr2 == [hdr EXCEPT !.length_ = len]
<1>9. /\ hdr2 \in Headers /\ hdr2.length_ \in 0 .. MaxPayload
      /\ Len(new) = HeaderSize + hdr2.length_
  BY <1>5, <1>7, <1>8
<1> HIDE DEF new, hdr2
<1>10. LET packet == serialiseHeader([header_ |-> hdr2, data_ |-> new])
       IN  CopiesAgree(packet) /\ packet.header_ = hdr2
  BY <1>5, <1>9, SerialiseHeaderAgrees
<1> QED
  BY <1>1, <1>10 DEF hdr2

(* The packet the default constructor makes.                               *)
THEOREM NewDataPacketAgrees ==
  /\ CopiesAgree(newDataPacket)
  /\ newDataPacket.header_ = [id_ |-> 0, sequenceNumber_ |-> 0, length_ |-> 0]
<1> DEFINE hdr == [id_ |-> 0, sequenceNumber_ |-> 0, length_ |-> 0]
<1>1. hdr \in Headers /\ 0 \in 0 .. MaxPayload
  BY UnitTypes DEF Headers
<1>2. <<>> \in Seq(Bytes)
  OBVIOUS
<1>3. [hdr EXCEPT !.length_ = 0] = hdr
  OBVIOUS
<1> HIDE DEF hdr
<1>4. newDataPacket = updateDataLength([header_ |-> hdr, data_ |-> <<>>], 0)
  BY DEF newDataPacket, hdr
<1>5. CopiesAgree(newDataPacket) /\ newDataPacket.header_ = hdr
  BY <1>1, <1>2, <1>3, <1>4, UpdateDataLengthAgrees
<1> QED
  BY <1>5 DEF hdr

(* A packet is its two members.                                            *)
LEMMA PacketParts ==
  ASSUME NEW packet, CopiesAgree(packet)
  PROVE  /\ packet = [header_ |-> packet.header_, data_ |-> packet.data_]
         /\ packet.header_ \in Headers /\ packet.data_ \in Seq(Bytes)
         /\ packet.header_.length_ \in 0 .. MaxPayload
         /\ Len(packet.data_) = HeaderSize + packet.header_.length_
BY DEF CopiesAgree

(* updateDataLength, also where it truncates.                              *)
THEOREM DataLengthUpdateAgrees ==
  ASSUME NEW packet, CopiesAgree(packet), NEW len \in Nat
  PROVE  LET new == updateDataLength(packet, len)
         IN  /\ CopiesAgree(new)
             /\ new.header_ = [packet.header_ EXCEPT !.length_ =
                                 IF len > MaxPayload THEN MaxPayload ELSE len]
<1> DEFINE hdr    == packet.header_
           data   == packet.data_
           length == IF len > MaxPayload THEN MaxPayload ELSE len
<1>1. packet = [header_ |-> hdr, data_ |-> data] /\ hdr \in Headers /\ data \in Seq(Bytes)
  BY PacketParts
<1>2. length \in 0 .. MaxPayload
  BY UnitTypes
<1>3. updateDataLength(packet, len) = updateDataLength(packet, length)
  BY UnitTypes DEF updateDataLength
<1> HIDE DEF hdr, data, length
<1>4. LET new == updateDataLength([header_ |-> hdr, data_ |-> data], length)
      IN  CopiesAgree(new) /\ new.header_ = [hdr EXCEPT !.length_ = length]
  BY <1>1, <1>2, UpdateDataLengthAgrees
<1>5. LET new == updateDataLength(packet, len)
      IN  CopiesAgree(new) /\ new.header_ = [hdr EXCEPT !.length_ = length]
  BY <1>1, <1>3, <1>4
<1> QED
  BY <1>5 DEF hdr, length

(* updateSequenceNumber keeps the payload.                                 *)
THEOREM SequenceNumberUpdateAgrees ==
  ASSUME NEW packet, CopiesAgree(packet), NEW sn \in Words
  PROVE  LET new == updateSequenceNumber(packet, sn)
         IN  /\ CopiesAgree(new)
             /\ new.header_ = [packet.header_ EXCEPT !.sequenceNumber_ = sn]
             /\ \A i \in HeaderSize + 1 .. Len(packet.data_) :
                  new.data_[i] = packet.data_[i]
<1> DEFINE hdr  == [packet.header_ EXCEPT !.sequenceNumber_ = sn]
           data == packet.data_
<1>1. updateSequenceNumber(packet, sn) = serialiseHeader([header_ |-> hdr, data_ |-> data])
  <2>1. packet = [header_ |-> packet.header_, data_ |-> packet.data_]
    BY PacketParts
  <2>2. [packet EXCEPT !.header_.sequenceNumber_ = sn] = [header_ |-> hdr, data_ |-> data]
    BY <2>1
  <2> QED
    BY <2>2 DEF updateSequenceNumber
<1>2. hdr \in Headers /\ hdr.length_ = packet.header_.length_
  BY PacketParts DEF Headers
<1>3. /\ data \in Seq(Bytes) /\ hdr.length_ \in 0 .. MaxPayload
      /\ Len(data) = HeaderSize + hdr.length_
  BY <1>2, PacketParts
<1> HIDE DEF hdr, data
<1>4. LET new == serialiseHeader([header_ |-> hdr, data_ |-> data])
      IN  /\ CopiesAgree(new)
          /\ new.header_ = hdr
          /\ \A i \in HeaderSize + 1 .. Len(data) : new.data_[i] = data[i]
  BY <1>2, <1>3, SerialiseHeaderAgrees
<1> QED
  BY <1>1, <1>4 DEF hdr, data

(* And so does updateConversationID.                                       *)
THEOREM ConversationIDUpdateAgrees ==
  ASSUME NEW packet, CopiesAgree(packet), NEW id \in Bytes
  PROVE  LET new == updateConversationID(packet, id)
         IN  /\ CopiesAgree(new)
             /\ new.header_ = [packet.header_ EXCEPT !.id_ = id]
             /\ \A i \in HeaderSize + 1 .. Len(packet.data_) :
                  new.data_[i] = packet.data_[i]
<1> DEFINE hdr  == [packet.header_ EXCEPT !.id_ = id]
           data == packet.data_
<1>1. updateConversationID(packet, id) = serialiseHeader([header_ |-> hdr, data_ |-> data])
  <2>1. packet = [header_ |-> packet.header_, data_ |-> packet.data_]
    BY PacketParts
  <2>2. [packet EXCEPT !.header_.id_ = id] = [header_ |-> hdr, data_ |-> data]
    BY <2>1
  <2> QED
    BY <2>2 DEF updateConversationID
<1>2. hdr \in Headers /\ hdr.length_ = packet.header_.length_
  BY PacketParts DEF Headers
<1>3. /\ data \in Seq(Bytes) /\ hdr.length_ \in 0 .. MaxPayload
      /\ Len(data) = HeaderSize + hdr.length_
  BY <1>2, PacketParts
<1> HIDE DEF hdr, data
<1>4. LET new == serialiseHeader([header_ |-> hdr, data_ |-> data])
      IN  /\ CopiesAgree(new)
          /\ new.header_ = hdr
          /\ \A i \in HeaderSize + 1 .. Len(data) : new.data_[i] = data[i]
  BY <1>2, <1>3, SerialiseHeaderAgrees
<1> QED
  BY <1>1, <1>4 DEF hdr, data

(* Writing the payload through its span leaves the header.                 *)
THEOREM WritePayloadAgrees ==
  ASSUME NEW packet, CopiesAgree(packet),
         NEW content \in [1 .. packet.header_.length_ -> Bytes]
  PROVE  LET new == writePayload(packet, content)
         IN  /\ CopiesAgree(new)
             /\ new.header_ = packet.header_
             /\ \A i \in 1 .. packet.header_.length_ :
                  new.data_[HeaderSize + i] = content[i]
<1> DEFINE hdr  == packet.header_
           data == packet.data_
           new  == [i \in DOMAIN data |-> IF i > HeaderSize
                                         THEN content[i - HeaderSize] ELSE data[i]]
<1>1. writePayload(packet, content) = [header_ |-> hdr, data_ |-> new]
  <2>1. packet = [header_ |-> hdr, data_ |-> data]
    BY PacketParts
  <2>2. [packet EXCEPT !.data_ = new] = [header_ |-> hdr, data_ |-> new]
    <3> HIDE DEF new
    <3> QED
      BY <2>1
  <2> QED
    BY <2>2 DEF writePayload
<1>2. /\ hdr \in Headers /\ data \in Seq(Bytes) /\ hdr.length_ \in 0 .. MaxPayload
      /\ Len(data) = HeaderSize + hdr.length_
  BY PacketParts
<1>3. DOMAIN data = 1 .. Len(data) /\ Len(data) \in Nat
  BY <1>2
<1>4. \A i \in 1 .. Len(data) : new[i] \in Bytes
  <2>1. ASSUME NEW i \in 1 .. Len(data), i > HeaderSize
        PROVE  content[i - HeaderSize] \in Bytes
    <3>1. i - HeaderSize \in 1 .. hdr.length_
      BY <1>2, <1>3, <2>1, UnitTypes DEF HeaderSize
    <3> QED
      BY <3>1
  <2>2. ASSUME NEW i \in 1 .. Len(data) PROVE data[i] \in Bytes
    BY <1>2
  <2> QED
    BY <1>3, <2>1, <2>2
<1>5. new \in Seq(Bytes) /\ Len(new) = Len(data)
  <2>1. DOMAIN new = 1 .. Len(data) /\ new = [i \in DOMAIN new |-> new[i]]
    BY <1>3
  <2> HIDE DEF new
  <2>2. new \in [1 .. Len(data) -> Bytes]
    BY <1>4, <2>1
  <2> QED
    BY <1>3, <2>2, FunctionIsSequence
<1>6. \A i \in 1 .. HeaderSize : new[i] = data[i]
  BY <1>2, <1>3, UnitTypes DEF HeaderSize
<1>7. ASSUME NEW i \in 1 .. hdr.length_
      PROVE  new[HeaderSize + i] = content[i]
  <2>1. /\ HeaderSize + i \in 1 .. Len(data) /\ HeaderSize + i > HeaderSize
        /\ (HeaderSize + i) - HeaderSize = i
    BY <1>2, UnitTypes DEF HeaderSize
  <2> QED
    BY <1>3, <2>1
<1>8. \A i \in 1 .. HeaderSize : data[i] = serialise(hdr)[i]
  BY DEF CopiesAgree
<1> HIDE DEF new, hdr, data
<1>9. CopiesAgree([header_ |-> hdr, data_ |-> new])
  BY <1>2, <1>5, <1>6, <1>8 DEF CopiesAgree
<1> QED
  BY <1>1, <1>7, <1>9 DEF hdr

(* A receiver whose buffer starts with the bytes of a packet reads its     *)
(* header and its payload, whatever the rest of the buffer holds.          *)
THEOREM ReceivedIsSent ==
  ASSUME NEW packet, CopiesAgree(packet), NEW S, NEW buffer \in Seq(S),
         Len(buffer) >= Len(packet.data_),
         \A i \in 1 .. Len(packet.data_) : buffer[i] = packet.data_[i]
  PROVE  /\ received(buffer).header_ = packet.header_
         /\ \A i \in 1 .. packet.header_.length_ :
              payload(received(buffer))[i] = packet.data_[HeaderSize + i]
<1>1. /\ packet.header_ \in Headers /\ packet.header_.length_ \in 0 .. MaxPayload
      /\ Len(packet.data_) = HeaderSize + packet.header_.length_
  BY PacketParts
<1>2. \A i \in 1 .. HeaderSize : buffer[i] = serialise(packet.header_)[i]
  <2>1. \A i \in 1 .. HeaderSize : i \in 1 .. Len(packet.data_)
    BY <1>1, UnitTypes DEF HeaderSize
  <2>2. \A i \in 1 .. HeaderSize : packet.data_[i] = serialise(packet.header_)[i]
    BY DEF CopiesAgree
  <2> QED
    BY <2>1, <2>2
<1>3. deserialise(buffer) = packet.header_
  BY <1>1, <1>2, HeaderRoundTrip
<1>4. ASSUME NEW i \in 1 .. packet.header_.length_
      PROVE  payload(received(buffer))[i] = packet.data_[HeaderSize + i]
  <2>1. i \in 1 .. Len(buffer) - HeaderSize /\ HeaderSize + i \in 1 .. Len(packet.data_)
    BY <1>1, UnitTypes DEF HeaderSize
  <2> QED
    BY <2>1 DEF payload, received
<1> QED
  BY <1>3, <1>4 DEF received

(***************************************************************************)
(* Identifiers of conversations.                                           *)
(***************************************************************************)
(* Unless every identifier is in use, one is free.                         *)
LEMMA SomeIDIsFree ==
  ASSUME NEW a \in Allocators, hasFreeID(a)
  PROVE  \E id \in IDs : id \notin a.allocatedIDs
<1>1. Cardinality(IDs) = IDModulus
  <2>1. 0 \in Int /\ IDModulus - 1 \in Int /\ ~ (0 > IDModulus - 1)
    BY IDModulusAssumption
  <2>2. Cardinality(0 .. IDModulus - 1) = (IDModulus - 1) - 0 + 1
    BY <2>1, FS_Interval
  <2> QED
    BY <2>2, IDModulusAssumption DEF IDs
<1>2. a.allocatedIDs \subseteq IDs /\ a.allocatedIDs # IDs
  BY <1>1 DEF Allocators, hasFreeID
<1> QED
  BY <1>2

(* The loop of getNewID meets every identifier within one turn.            *)
LEMMA EveryIDIsMet ==
  ASSUME NEW a \in Allocators, NEW id \in IDs
  PROVE  \E k \in 1 .. IDModulus : candidate(a, k) = id
<1> DEFINE last == a.lastAllocated
<1>1. IDModulus \in Nat \ {0} /\ last \in 0 .. IDModulus - 1 /\ id \in 0 .. IDModulus - 1
  BY IDModulusAssumption DEF Allocators, IDs
<1> HIDE DEF last
<1>2. PICK i \in 0 .. IDModulus - 1 : (last + i) % IDModulus = id
  BY <1>1, SlotsCovered
<1>3. CASE i = 0
  <2>1. (last + IDModulus) % IDModulus = last /\ (last + 0) % IDModulus = last
    <3>1. /\ IDModulus \in 0 .. IDModulus /\ 0 \in 0 .. IDModulus
          /\ ~ (last + IDModulus < IDModulus) /\ last + 0 < IDModulus
          /\ last + IDModulus - IDModulus = last /\ last + 0 = last
      BY <1>1
    <3>2. ASSUME NEW d \in 0 .. IDModulus
          PROVE  (last + d) % IDModulus = IF last + d < IDModulus THEN last + d
                                          ELSE last + d - IDModulus
      BY <1>1, Wraps
    <3> QED
      BY <3>1, <3>2
  <2>2. IDModulus \in 1 .. IDModulus /\ (last + IDModulus) % IDModulus = id
    BY <1>1, <1>2, <1>3, <2>1
  <2> QED
    BY <2>2 DEF candidate, last
<1>4. CASE i # 0
  <2>1. i \in 1 .. IDModulus
    BY <1>1, <1>2, <1>4
  <2> QED
    BY <1>2, <2>1 DEF candidate, last
<1> QED
  BY <1>3, <1>4

(* getNewID ends, and gives out an identifier that is not in use.          *)
THEOREM NewIDIsFresh ==
  ASSUME NEW a \in Allocators
  PROVE  NextIDIsFresh(a)
<1> SUFFICES ASSUME hasFreeID(a)
             PROVE  /\ freeRounds(a) # {}
                    /\ getNewID(a).lastAllocated \notin a.allocatedIDs
                    /\ getNewID(a) \in Allocators
  BY DEF NextIDIsFresh
<1>1. freeRounds(a) # {}
  BY SomeIDIsFree, EveryIDIsMet DEF freeRounds
<1> DEFINE K == freeRounds(a)
           k == CHOOSE k \in K : \A j \in K : k <= j
<1>2. K \in SUBSET Nat
  BY IDModulusAssumption DEF freeRounds
<1>3. k \in K
  <2> HIDE DEF K
  <2>1. \E i \in K : \A j \in K : i <= j
    BY <1>1, <1>2, SmallestExists DEF K
  <2> QED
    BY <2>1
<1>4. getNewID(a) = [lastAllocated |-> candidate(a, k),
                     allocatedIDs  |-> a.allocatedIDs \cup {candidate(a, k)}]
  BY DEF getNewID
<1> HIDE DEF k
<1>5. candidate(a, k) \notin a.allocatedIDs /\ k \in Nat
  BY <1>3, IDModulusAssumption DEF freeRounds
<1>6. candidate(a, k) \in IDs /\ a.allocatedIDs \subseteq IDs
  BY <1>5, IDModulusAssumption DEF candidate, IDs, Allocators
<1>7. getNewID(a) \in Allocators
  BY <1>4, <1>6 DEF Allocators
<1> QED
  BY <1>1, <1>4, <1>5, <1>7
==============================================================================
