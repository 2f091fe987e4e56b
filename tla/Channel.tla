------------------------------- MODULE Channel -------------------------------
(***************************************************************************)
(* The data channel, as txFn_ and rxFn_ see it, one variable for each      *)
(* direction.                                                              *)
(*                                                                         *)
(* A transmission runs over UDP, except for the dummy SCTP protocol.  UDP  *)
(* is the set of datagrams that can still arrive: one may be lost when it  *)
(* is sent, datagrams arrive in any order, and one that arrives may arrive *)
(* again.  SCTP is a FIFO, but a send may fail, and what an association    *)
(* still carries when it is lost never arrives, which to the receiver is   *)
(* the same.  Only UDP sockets are given a receive timeout; a receive on   *)
(* an SCTP socket returns without data only when there is nobody left to   *)
(* receive from.                                                           *)
(***************************************************************************)
EXTENDS Sequences

CONSTANTS
  Protocol,      \* the template parameter: which pair of buffers is used
  AckQueueBound  \* bound of the model: entries in a queue of acknowledgements

VARIABLES
  dataChannel,  \* packets on their way to the receiver
  ackChannel    \* sequence numbers on their way to the transmitter

UsesSCTP == Protocol = "dummy-sctp"

EmptyChannel == IF UsesSCTP THEN <<>> ELSE {}

(* What the channel may hold once m has been handed to it: m gets through, *)
Carried(channel, m) ==
  IF UsesSCTP THEN Append(channel, m) ELSE channel \cup {m}

(* or it is lost on its way, or txFn_ fails, which its callers ignore.     *)
Sent(channel, m) == {Carried(channel, m), channel}

(* The messages that can arrive next.                                      *)
Arriving(channel) ==
  IF UsesSCTP
  THEN IF channel = <<>> THEN {} ELSE {Head(channel)}
  ELSE channel

(* The last copy of m has arrived.                                         *)
LastArrival(channel, m) == IF UsesSCTP THEN Tail(channel) ELSE channel \ {m}

(* What the channel may hold after m has arrived.                          *)
AfterArrival(channel, m) ==
  {LastArrival(channel, m)} \cup (IF UsesSCTP THEN {} ELSE {channel})

(* Can a receive return without data?                                      *)
RecvFails(channel, peerGone) ==
  IF UsesSCTP THEN channel = <<>> /\ peerGone ELSE TRUE
==============================================================================
