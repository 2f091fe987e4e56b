--------------------------- MODULE ReliableTransfer --------------------------
(***************************************************************************)
(* What the ARQ library promises its two applications, whatever the        *)
(* protocol: the packets submitted are accepted by the receiver and taken  *)
(* by its application in the order of submission, none missing and none    *)
(* twice, and the sender considers the transmission complete only when the *)
(* receiver has accepted all of it.                                        *)
(***************************************************************************)
EXTENDS Integers, Sequences

CONSTANT NumPackets  \* data packets; one End-of-Tx packet follows them

VARIABLES
  submitted,  \* packets 0 .. submitted - 1 have been submitted
  accepted,   \* packets 0 .. accepted - 1 have been accepted
  delivered,  \* what the receiving application has taken
  completed   \* does the sender consider the transmission complete?

vars == <<submitted, accepted, delivered, completed>>

Init == /\ submitted = 0
        /\ accepted = 0
        /\ delivered = <<>>
        /\ completed = FALSE

Submit == /\ submitted <= NumPackets
          /\ submitted' = submitted + 1
          /\ UNCHANGED <<accepted, delivered, completed>>

(* Several packets are accepted at once when one fills a gap.              *)
Accept == /\ accepted' \in accepted + 1 .. submitted
          /\ UNCHANGED <<submitted, delivered, completed>>

Deliver == /\ Len(delivered) < accepted
           /\ delivered' = Append(delivered, Len(delivered))
           /\ UNCHANGED <<submitted, accepted, completed>>

Complete == /\ accepted = NumPackets + 1
            /\ completed' = TRUE
            /\ UNCHANGED <<submitted, accepted, delivered>>

Next == Submit \/ Accept \/ Deliver \/ Complete

Spec == Init /\ [][Next]_vars
==============================================================================
