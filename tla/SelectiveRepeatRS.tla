-------------------------- MODULE SelectiveRepeatRS --------------------------
(***************************************************************************)
(* arq::rs::SelectiveRepeat: a circular buffer of the RSWindowSize packets *)
(* from earliestExpected_ on.  Packets that arrive ahead of a missing one  *)
(* are kept, and once a run from the start of the window is complete it    *)
(* moves to the shadow buffer.  Every arrival is answered with the number  *)
(* before earliestExpected_.                                               *)
(***************************************************************************)
EXTENDS ArqCommon

CONSTANT RSWindowSize  \* windowSize_ of the resequencing buffer

Slots == 0 .. RSWindowSize - 1

Buffers == [buffer_           : [Slots -> Packets \cup {None}],
            startIdx_         : Slots,
            earliestExpected_ : SequenceNumbers,
            packetsInBuffer_  : 0 .. SizeModulus - 1,
            shadowBuffer_     : Seq(Packets),
            canSendAcks_      : BOOLEAN]

SelectiveRepeat == [buffer_           |-> [s \in Slots |-> None],
                    startIdx_         |-> 0,
                    earliestExpected_ |-> 0,
                    packetsInBuffer_  |-> 0,
                    shadowBuffer_     |-> <<>>,
                    canSendAcks_      |-> FALSE]

Slot(rs, i) == (rs.startIdx_ + i) % RSWindowSize

(* The packets at the front of the window, up to the first missing one.    *)
InSequence(rs) ==
  Least({i \in Slots : rs.buffer_[Slot(rs, i)] = None} \cup {RSWindowSize})

(* A variant with a bug: the window moves past the missing packet.         *)
updateBuffer_pastMissing(rs) ==
  LET run   == InSequence(rs)
      moved == {Slot(rs, i) : i \in 0 .. run - 1}
  IN  [rs EXCEPT
         !.buffer_           = [s \in Slots |-> IF s \in moved THEN None ELSE @[s]],
         !.shadowBuffer_     = @ \o [i \in 1 .. run |-> rs.buffer_[Slot(rs, i - 1)]],
         !.packetsInBuffer_  = (@ - run) % SizeModulus,
         !.startIdx_         = Slot(rs, run + 1),
         !.earliestExpected_ = (@ + run + 1) % SeqNumModulus]

(* Moves them to the shadow buffer.  The window advances to the missing    *)
(* packet; when the whole window was in sequence the loop ends without     *)
(* finding one, and the window stays where it is.                          *)
updateBuffer(rs) ==
  LET run     == InSequence(rs)
      moved   == {Slot(rs, i) : i \in 0 .. run - 1}
      advance == IF run = RSWindowSize THEN 0 ELSE run
  IN  [rs EXCEPT
         !.buffer_           = [s \in Slots |-> IF s \in moved THEN None ELSE @[s]],
         !.shadowBuffer_     = @ \o [i \in 1 .. run |-> rs.buffer_[Slot(rs, i - 1)]],
         !.packetsInBuffer_  = (@ - run) % SizeModulus,
         !.startIdx_         = Slot(rs, advance),
         !.earliestExpected_ = (@ + advance) % SeqNumModulus]

InWindow(rs, p) == /\ SeqNum(p) >= rs.earliestExpected_
                   /\ SeqNum(p) < rs.earliestExpected_ + RSWindowSize

InsertionIdx(rs, p) == Slot(rs, SeqNum(p) - rs.earliestExpected_)

(* The buffer after the arrival of p, and the acknowledgement it calls for *)
(* (earliestExpected_ - 1 is computed in int and cut to 16 bits).          *)
Received(rs, p) ==
  LET heard == [rs EXCEPT !.canSendAcks_ = TRUE]
  IN  IF ~ InWindow(rs, p) THEN rs
      ELSE IF rs.buffer_[InsertionIdx(rs, p)] # None THEN heard
      ELSE updateBuffer([heard EXCEPT !.buffer_[InsertionIdx(rs, p)] = p,
                                      !.packetsInBuffer_ = (@ + 1) % SizeModulus])

(* A variant with a bug: acknowledges the packet received.                 *)
do_addPacket_individualAck(rs, p) ==
  [rs |-> Received(rs, p), ack |-> SeqNum(p)]

(* A variant with a bug: no answer to a packet outside the window.         *)
do_addPacket_silent(rs, p) ==
  LET new == Received(rs, p)
  IN  [rs  |-> new,
       ack |-> IF InWindow(rs, p)
               THEN (new.earliestExpected_ - 1) % SeqNumModulus ELSE None]

do_addPacket(rs, p) ==
  LET new == Received(rs, p)
  IN  [rs  |-> new,
       ack |-> IF new.canSendAcks_
               THEN (new.earliestExpected_ - 1) % SeqNumModulus ELSE None]

(* The packets accepted that still wait to be delivered.                  *)
Waiting(rs) == {rs.shadowBuffer_[i] : i \in DOMAIN rs.shadowBuffer_}

do_getNextPacket(rs) ==
  IF rs.shadowBuffer_ = <<>>
  THEN [rs |-> rs, packet |-> None]
  ELSE [rs     |-> [rs EXCEPT !.shadowBuffer_ = Tail(@)],
        packet |-> Head(rs.shadowBuffer_)]
==============================================================================
