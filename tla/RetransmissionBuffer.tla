------------------------ MODULE RetransmissionBuffer -------------------------
(***************************************************************************)
(* arq::RetransmissionBuffer, the interface through which a transmitter    *)
(* uses the buffer of its protocol.  The template parameter is the         *)
(* constant Protocol.                                                      *)
(***************************************************************************)
EXTENDS ArqCommon

CONSTANTS Protocol, WindowSize

SNW == INSTANCE StopAndWaitRT
GBN == INSTANCE GoBackNRT
SR  == INSTANCE SelectiveRepeatRT
SCTP == INSTANCE DummySCTPRT

Buffers ==
  CASE Protocol = "stop-and-wait"    -> SNW!Buffers
    [] Protocol = "go-back-n"        -> GBN!Buffers
    [] Protocol = "selective-repeat" -> SR!Buffers
    [] Protocol = "dummy-sctp"       -> SCTP!Buffers

Empty ==
  CASE Protocol = "stop-and-wait"    -> SNW!StopAndWait
    [] Protocol = "go-back-n"        -> GBN!GoBackN
    [] Protocol = "selective-repeat" -> SR!SelectiveRepeat
    [] Protocol = "dummy-sctp"       -> SCTP!DummySCTP

readyForNewPacket(rt) ==
  CASE Protocol = "stop-and-wait"    -> SNW!do_readyForNewPacket(rt)
    [] Protocol = "go-back-n"        -> GBN!do_readyForNewPacket(rt)
    [] Protocol = "selective-repeat" -> SR!do_readyForNewPacket(rt)
    [] Protocol = "dummy-sctp"       -> SCTP!do_readyForNewPacket(rt)

HasSpace(rt) ==
  CASE Protocol = "stop-and-wait"    -> SNW!HasSpace(rt)
    [] Protocol = "go-back-n"        -> GBN!HasSpace(rt)
    [] Protocol = "selective-repeat" -> SR!HasSpace(rt)
    [] Protocol = "dummy-sctp"       -> SCTP!HasSpace(rt)

addPacket(rt, p) ==
  CASE Protocol = "stop-and-wait"    -> SNW!do_addPacket(rt, p)
    [] Protocol = "go-back-n"        -> GBN!do_addPacket(rt, p)
    [] Protocol = "selective-repeat" -> SR!do_addPacket(rt, p)
    [] Protocol = "dummy-sctp"       -> SCTP!do_addPacket(rt, p)

Held(rt) ==
  CASE Protocol = "stop-and-wait"    -> SNW!Held(rt)
    [] Protocol = "go-back-n"        -> GBN!Held(rt)
    [] Protocol = "selective-repeat" -> SR!Held(rt)
    [] Protocol = "dummy-sctp"       -> SCTP!Held(rt)

tryGetPacketSpan(rt, timedOut) ==
  CASE Protocol = "stop-and-wait"    -> SNW!do_tryGetPacketSpan(rt, timedOut)
    [] Protocol = "go-back-n"        -> GBN!do_tryGetPacketSpan(rt, timedOut)
    [] Protocol = "selective-repeat" -> SR!do_tryGetPacketSpan(rt, timedOut)
    [] Protocol = "dummy-sctp"       -> SCTP!do_tryGetPacketSpan(rt, timedOut)

acknowledgePacket(rt, sn) ==
  CASE Protocol = "stop-and-wait"    -> SNW!do_acknowledgePacket(rt, sn)
    [] Protocol = "go-back-n"        -> GBN!do_acknowledgePacket(rt, sn)
    [] Protocol = "selective-repeat" -> SR!do_acknowledgePacket(rt, sn)
    [] Protocol = "dummy-sctp"       -> SCTP!do_acknowledgePacket(rt, sn)
==============================================================================
