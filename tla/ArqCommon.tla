------------------------------ MODULE ArqCommon ------------------------------
(***************************************************************************)
(* What every part of the ARQ library shares: the packets of one           *)
(* transmission and their sequence numbers.                                *)
(*                                                                         *)
(* A packet is named by its position in the transmission, counted from 0   *)
(* and never wrapping.  Only its header's sequence number, the position    *)
(* modulo 2^16, is visible to the protocol; the position itself is what    *)
(* the properties use to tell a packet from a later one that carries the   *)
(* same sequence number.  The last packet is the End-of-Tx packet, the     *)
(* one with a payload of length zero.                                      *)
(***************************************************************************)
EXTENDS Integers, Sequences

CONSTANTS
  NumPackets,     \* data packets the application sends; the EoT follows them
  SeqNumModulus,  \* 2^16: SequenceNumber is uint16_t
  SizeModulus,    \* 2^64: counters of type size_t
  None            \* std::nullopt

ASSUME NumPacketsAssumption == NumPackets \in Nat
ASSUME ModulusAssumption == /\ SeqNumModulus \in Nat \ {0}
                            /\ SizeModulus \in Nat \ {0}
ASSUME NoneAssumption == None \notin Int

Packets == 0 .. NumPackets

SequenceNumbers == 0 .. SeqNumModulus - 1

(* The sequence number the input buffer gives to the packet submitted in   *)
(* position p: it starts from FIRST_SEQUENCE_NUMBER = 0 and is incremented *)
(* once per packet in 16 bits.                                             *)
SeqNum(p) == p % SeqNumModulus

(* The least of a set of numbers.                                          *)
Least(S) == CHOOSE i \in S : \A j \in S : i <= j

(* A packet with payload length zero is an End-of-Tx packet; the launcher  *)
(* sends exactly one, last.                                                *)
isEndOfTx(p) == p = NumPackets
==============================================================================
