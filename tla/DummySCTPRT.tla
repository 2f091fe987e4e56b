----------------------------- MODULE DummySCTPRT -----------------------------
(***************************************************************************)
(* arq::rt::DummySCTP: SCTP retransmits by itself, so nothing is kept.     *)
(***************************************************************************)
EXTENDS ArqCommon

Buffers == {<<>>}

DummySCTP == <<>>

do_readyForNewPacket(rt) == TRUE

HasSpace(rt) == TRUE

do_addPacket(rt, p) == rt

Held(rt) == {}

do_tryGetPacketSpan(rt, timedOut) == None

do_acknowledgePacket(rt, sn) == rt
==============================================================================
