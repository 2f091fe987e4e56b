------------------------- MODULE ResequencingBuffer --------------------------
(***************************************************************************)
(* arq::ResequencingBuffer, the interface through which a receiver uses    *)
(* the buffer of its protocol.                                             *)
(***************************************************************************)
EXTENDS ArqCommon

CONSTANTS Protocol, RSWindowSize

SNW == INSTANCE StopAndWaitRS
GBN == INSTANCE GoBackNRS
SR  == INSTANCE SelectiveRepeatRS
SCTP == INSTANCE DummySCTPRS

Buffers ==
  CASE Protocol = "stop-and-wait"    -> SNW!Buffers
    [] Protocol = "go-back-n"        -> GBN!Buffers
    [] Protocol = "selective-repeat" -> SR!Buffers
    [] Protocol = "dummy-sctp"       -> SCTP!Buffers

Empty ==
  CASE Protocol = "stop-and-wait"    -> SNW!StopAndWait
    [] Protocol = "go-back-n"        -> GBN!GoBackN
    [] Protocol = "selective-repeat" -> SR!SelectiveRepeat
    [] Protocol = "dummy-sctp"       -> SCTP!DummySCTP

addPacket(rs, p) ==
  CASE Protocol = "stop-and-wait"    -> SNW!do_addPacket(rs, p)
    [] Protocol = "go-back-n"        -> GBN!do_addPacket(rs, p)
    [] Protocol = "selective-repeat" -> SR!do_addPacket(rs, p)
    [] Protocol = "dummy-sctp"       -> SCTP!do_addPacket(rs, p)

Waiting(rs) ==
  CASE Protocol = "stop-and-wait"    -> SNW!Waiting(rs)
    [] Protocol = "go-back-n"        -> GBN!Waiting(rs)
    [] Protocol = "selective-repeat" -> SR!Waiting(rs)
    [] Protocol = "dummy-sctp"       -> SCTP!Waiting(rs)

getNextPacket(rs) ==
  CASE Protocol = "stop-and-wait"    -> SNW!do_getNextPacket(rs)
    [] Protocol = "go-back-n"        -> GBN!do_getNextPacket(rs)
    [] Protocol = "selective-repeat" -> SR!do_getNextPacket(rs)
    [] Protocol = "dummy-sctp"       -> SCTP!do_getNextPacket(rs)
==============================================================================
