-------------------------- MODULE SelectiveRepeatRT --------------------------
(***************************************************************************)
(* arq::rt::SelectiveRepeat.  Its members and the bodies of its operations *)
(* repeat those of arq::rt::GoBackN line by line (the source remarks on    *)
(* it), so the module takes them from GoBackNRT.                           *)
(***************************************************************************)
EXTENDS ArqCommon

CONSTANT WindowSize

Window == INSTANCE GoBackNRT

Buffers == Window!Buffers

SelectiveRepeat == Window!GoBackN

(* A variant with a bug: ready although the window is full.                *)
do_readyForNewPacket_offByOne(rt) == rt.packetsInBuffer_ <= WindowSize

do_readyForNewPacket(rt) == Window!do_readyForNewPacket(rt)

HasSpace(rt) == Window!HasSpace(rt)

do_addPacket(rt, p) == Window!do_addPacket(rt, p)

Held(rt) == Window!Held(rt)

do_tryGetPacketSpan(rt, timedOut) == Window!do_tryGetPacketSpan(rt, timedOut)

(* A variant with a bug: the acknowledgement covers one packet only, and   *)
(* the window does not slide.                                              *)
do_acknowledgePacket_individual(rt, sn) ==
  LET i == sn - rt.nextToAck_
  IN  IF i \in 0 .. WindowSize - 1 /\ rt.buffer_[Window!Slot(rt, i)] # None
      THEN [rt EXCEPT !.buffer_[Window!Slot(rt, i)] = None,
                      !.packetsInBuffer_ = @ - 1]
      ELSE rt

(* A variant with a bug: a sequence number beyond the window is covered.   *)
do_acknowledgePacket_beyond(rt, sn) ==
  IF sn >= rt.nextToAck_ + WindowSize
  THEN Window!do_acknowledgePacket(rt, rt.nextToAck_ + WindowSize - 1)
  ELSE Window!do_acknowledgePacket(rt, sn)

do_acknowledgePacket(rt, sn) == Window!do_acknowledgePacket(rt, sn)
==============================================================================
