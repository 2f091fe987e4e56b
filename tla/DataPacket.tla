----------------------------- MODULE DataPacket ------------------------------
(***************************************************************************)
(* arq::DataPacket and its header: a packet keeps its header twice, as the *)
(* fields of header_ and serialised in network byte order at the start of  *)
(* data_, where the payload follows.  Every update has to keep the two     *)
(* copies and the size of data_ together.                                  *)
(***************************************************************************)
EXTENDS Integers, Sequences

CONSTANTS
  Base,     \* values of a byte, 256
  MaxUnit   \* MAX_TRANSMISSION_UNIT

HeaderSize == 5

MaxPayload == MaxUnit - HeaderSize  \* DATA_PKT_MAX_PAYLOAD_SIZE

ASSUME UnitAssumption == /\ Base \in Nat \ {0} /\ MaxUnit \in Nat
                         /\ MaxUnit > HeaderSize /\ MaxPayload < Base * Base

Bytes == 0 .. Base - 1
Words == 0 .. Base * Base - 1

Headers == [id_ : Bytes, sequenceNumber_ : Words, length_ : Words]

(* A 16-bit number in network byte order, and back.                        *)
htons(w) == <<w \div Base, w % Base>>
ntohs(high, low) == Base * high + low

serialise(hdr) ==
  LET sn  == htons(hdr.sequenceNumber_)
      len == htons(hdr.length_)
  IN  <<hdr.id_, sn[1], sn[2], len[1], len[2]>>

(* A variant with a bug: the two numbers are read in the wrong order.      *)
deserialise_swapped(data) ==
  [id_             |-> data[1],
   sequenceNumber_ |-> ntohs(data[4], data[5]),
   length_         |-> ntohs(data[2], data[3])]

deserialise(data) ==
  [id_             |-> data[1],
   sequenceNumber_ |-> ntohs(data[2], data[3]),
   length_         |-> ntohs(data[4], data[5])]

(* The payload is all of data_ after the header.                           *)
payload(packet) ==
  [i \in 1 .. Len(packet.data_) - HeaderSize |-> packet.data_[HeaderSize + i]]

(* Writing through the span of the payload.                                *)
writePayload(packet, content) ==
  [packet EXCEPT !.data_ =
     [i \in DOMAIN @ |-> IF i > HeaderSize THEN content[i - HeaderSize] ELSE @[i]]]

serialiseHeader(packet) ==
  [packet EXCEPT !.data_ =
     [i \in DOMAIN @ |-> IF i > HeaderSize THEN @[i]
                                           ELSE serialise(packet.header_)[i]]]

(* std::vector::resize.                                                    *)
resize(data, n) == [i \in 1 .. n |-> IF i <= Len(data) THEN data[i] ELSE 0]

(* A payload that is too long is truncated.                                *)
updateDataLength(packet, len) ==
  LET length == IF len > MaxPayload THEN MaxPayload ELSE len
  IN  serialiseHeader([header_ |-> [packet.header_ EXCEPT !.length_ = length],
                       data_   |-> resize(packet.data_, HeaderSize + length)])

(* A variant with a bug: the header is not serialised again.               *)
updateSequenceNumber_headerOnly(packet, sn) ==
  [packet EXCEPT !.header_.sequenceNumber_ = sn]

updateSequenceNumber(packet, sn) ==
  serialiseHeader([packet EXCEPT !.header_.sequenceNumber_ = sn])

updateConversationID(packet, id) ==
  serialiseHeader([packet EXCEPT !.header_.id_ = id])

(* The default constructor.                                                *)
newDataPacket ==
  updateDataLength(
    [header_ |-> [id_ |-> 0, sequenceNumber_ |-> 0, length_ |-> 0],
     data_   |-> <<>>], 0)

(* The receiver's constructors: all of the buffer is kept.                 *)
received(bytes) == [header_ |-> deserialise(bytes), data_ |-> bytes]

(* DataPacket::isEndOfTx.                                                  *)
hasNoPayload(packet) == packet.header_.length_ = 0
==============================================================================
