----------------------------- MODULE ArqLauncher ------------------------------
(***************************************************************************)
(* The launcher's two processes with the dummy SCTP protocol: the          *)
(* connection is set up, the transmission runs over it, and each end       *)
(* closes its socket when its threads have been joined.                    *)
(***************************************************************************)
EXTENDS ArqProperties, Endpoint

ASSUME LauncherAssumption == Protocol = "dummy-sctp"

(* At most 65535 data packets: the EoT's number is no other packet's.      *)
ASSUME TransmissionAssumption == NumPackets < SeqNumModulus

VARIABLE
  sendFailed  \* the ends where txFn_ has failed; no code reads it

launcherVars == <<vars, endpointVars, sendFailed>>

LauncherInit == Init /\ EndpointInit /\ sendFailed = {}

(* A receive on a socket whose peer has closed, or whose association has   *)
(* been lost, or that has not been connected, returns without data.        *)
receiverGone    == Closed("rx") \/ sendFailed # {}
transmitterGone == Closed("tx") \/ sendFailed # {} \/ ~ connected

(* A send that fails is logged, or not even that, and the message is gone. *)
packetDropped == inputPackets_' # inputPackets_ /\ dataChannel' = dataChannel
ackDropped    == rxAckQueue' # rxAckQueue /\ ackChannel' = ackChannel

(***************************************************************************)
(* The threads of an end run between its set-up and its end.               *)
(***************************************************************************)
submitPackets ==
  /\ main["tx"] = "run" /\ sendPacket
  /\ UNCHANGED <<rxVars, endpointVars, sendFailed>>

transmitPackets ==
  /\ main["tx"] = "run" /\ transmitThread
  /\ sendFailed' = IF packetDropped THEN sendFailed \cup {"tx"} ELSE sendFailed
  /\ UNCHANGED <<rxVars, endpointVars>>

receiveAcks ==
  /\ main["tx"] = "run" /\ TxAckThread(receiverGone)
  /\ UNCHANGED <<rxVars, endpointVars, sendFailed>>

receivePackets ==
  /\ main["rx"] = "run" /\ resequencingThread(transmitterGone)
  /\ UNCHANGED <<txVars, endpointVars, sendFailed>>

sendAcks ==
  /\ main["rx"] = "run" /\ RxAckThread
  /\ sendFailed' = IF ackDropped THEN sendFailed \cup {"rx"} ELSE sendFailed
  /\ UNCHANGED <<txVars, endpointVars>>

takePackets ==
  /\ main["rx"] = "run" /\ tryGetPacket
  /\ UNCHANGED <<txVars, endpointVars, sendFailed>>

setUp(e) == SetUp(e) /\ UNCHANGED <<vars, sendFailed>>

end(e, done) ==
  /\ \/ done /\ closeEndpoint(e)
     \/ exit(e)
  /\ UNCHANGED <<vars, sendFailed>>

launchTransmitter ==
  \/ setUp("tx")
  \/ submitPackets \/ transmitPackets \/ receiveAcks
  \/ end("tx", TransmitterDone)

launchReceiver ==
  \/ setUp("rx")
  \/ receivePackets \/ sendAcks \/ takePackets
  \/ end("rx", ReceiverDone)

LauncherNext == launchTransmitter \/ launchReceiver

(* Every thread keeps running.                                             *)
LauncherSpec ==
  /\ LauncherInit /\ [][LauncherNext]_launcherVars
  /\ WF_launcherVars(setUp("tx")) /\ WF_launcherVars(setUp("rx"))
  /\ WF_launcherVars(submitPackets) /\ WF_launcherVars(transmitPackets)
  /\ WF_launcherVars(receiveAcks) /\ WF_launcherVars(receivePackets)
  /\ WF_launcherVars(sendAcks) /\ WF_launcherVars(takePackets)
  /\ WF_launcherVars(end("tx", TransmitterDone))
  /\ WF_launcherVars(end("rx", ReceiverDone))

(* A process has ended with an exception, or the receiver runs without a   *)
(* connection because it has not looked at connectRetry's result.          *)
SetUpFailed ==
  \/ "terminated" \in {main[e] : e \in Ends}
  \/ main["rx"] = "run" /\ ~ connected

(* Whatever the order in which the two ends come up, everything reaches    *)
(* the output buffer unless the set-up or the sending of a packet fails    *)
(* (connectRetry and listen, accept; the shutdown of one end while the     *)
(* other still receives; acknowledgements that cannot be sent).            *)
DeliversUnlessFails ==
  <>(SetUpFailed \/ "tx" \in sendFailed \/ Delivered = FirstPackets(NumPackets + 1))

(* "The acknowledgement thread ... runs until an ACK is received for an    *)
(* EoT packet": both threads of the transmitter end, if no send fails.     *)
TransmitterStopsUnlessFails ==
  <>(SetUpFailed \/ sendFailed # {} \/ TransmitterDone)

(* The descriptor that the threads use is open, is not the one listened    *)
(* on, and belongs to one Socket object: no other destructor closes it     *)
(* (the move operations of Socket).                                        *)
SocketUsable ==
  \A e \in Ends :
    main[e] = "run" => /\ process[e].socket_ \in process[e].opened
                       /\ process[e].socket_ # listening \/ e = "rx"
                       /\ process[e].socket_ # process[e].sock

(* Every open descriptor has an owner that will close it, except the one   *)
(* that socket_ owned before a connection was accepted (the destructors of *)
(* Socket on each path through the constructor of Endpoint and accept).    *)
OnlyListenerLeaks ==
  \A e \in Ends :
    LET p == process[e]
    IN  p.opened \ {p.sock, p.socket_} \subseteq IF e = "tx" THEN {listening} ELSE {}

(***************************************************************************)
(* The inductive invariant of the descriptors: what each process holds at  *)
(* each point of its set-up and of its end.                                *)
(***************************************************************************)
Holds(p, o, a, b) == p = [opened |-> o, sock |-> a, socket_ |-> b]

TransmitterHolds(m, p, l) ==
  \/ /\ m = "socket" /\ l = None /\ Holds(p, {}, None, None)
  \/ /\ m = "bind" /\ l = None
     /\ \E d \in Descriptors : Holds(p, {d}, d, None)
  \/ /\ m = "listen" /\ l = None
     /\ \E d \in Descriptors : Holds(p, {d}, None, d)
  \/ /\ m = "accept" /\ l \in Descriptors /\ Holds(p, {l}, None, l)
  \/ /\ m = "run" /\ l \in Descriptors
     /\ \E d \in Descriptors \ {l} : Holds(p, {l, d}, None, d)
  \/ /\ m = "closed" /\ Holds(p, {l}, None, None)
  \/ /\ m \in {"exited", "terminated"} /\ Holds(p, {}, None, None)

ReceiverHolds(m, p) ==
  \/ /\ m \in {"socket", "closed", "exited", "terminated"}
     /\ Holds(p, {}, None, None)
  \/ /\ m = "bind"
     /\ \E d \in Descriptors : Holds(p, {d}, d, None)
  \/ /\ m \in {"connect", "run"}
     /\ \E d \in Descriptors : Holds(p, {d}, None, d)

(* At each point of its set-up and of its end a process holds exactly the  *)
(* descriptors that its objects own and, once the transmitter has accepted *)
(* a connection, the one it listened on (Socket's constructors, moves and  *)
(* destructors, in the order in which Endpoint calls them).                *)
DescriptorsKept ==
  /\ DOMAIN main = Ends /\ DOMAIN process = Ends
  /\ TransmitterHolds(main["tx"], process["tx"], listening)
  /\ ReceiverHolds(main["rx"], process["rx"])

(***************************************************************************)
(* The inductive invariant of the transfer.  What has been submitted and   *)
(* not yet taken is spread over five queues in the order of submission:    *)
(* packets from t on wait in the input buffer, those from c to t are on    *)
(* their way unless their sending has failed, resequencingThread may have  *)
(* one from a to c in its hands, those from d to a are in the RS buffer    *)
(* and, before d, with the output buffer and the application.              *)
(***************************************************************************)
(* The packets i, i + 1, ..., j - 1 in a queue,                            *)
Consecutive(q, i, j) == /\ Len(q) = j - i
                        /\ \A n \in 1 .. Len(q) : q[n] = i + n - 1

(* and some of them, in that order.                                        *)
Ascending(q, i, j) == /\ i <= j
                      /\ \A n \in 1 .. Len(q) : i <= q[n] /\ q[n] < j
                      /\ \A m, n \in 1 .. Len(q) : m < n => q[m] < q[n]

InTransit(t, c) ==
  /\ Consecutive(inputPackets_, t, nextSubmit)
  /\ Ascending(dataChannel, c, t)

AtReceiver(c, a, d) ==
  /\ a <= c
  /\ \/ rxPc = "add" /\ received \in a .. c - 1
     \/ rxPc # "add" /\ received = None
  /\ rs.nextSequenceNumber_ = SeqNum(a)
  /\ Consecutive(rs.shadowBuffer_, d, a)
  /\ nextSequenceNumber_ = SeqNum(d)
  /\ Consecutive(outputPackets_, Len(taken), d)
  /\ Consecutive(taken, 0, Len(taken))

(* Only what has been accepted is acknowledged.                            *)
AllBefore(q, a) == \A i \in DOMAIN q : q[i] < a

AcksBefore(a) ==
  /\ AllBefore(rxAckQueue, a) /\ AllBefore(ackChannel, a) /\ AllBefore(txAckQueue, a)
  /\ endOfTxSeqNum_ \in {None, NumPackets}
  /\ endOfTxAcked_ => a = NumPackets + 1

Transfer(t, c, a, d) == InTransit(t, c) /\ AtReceiver(c, a, d) /\ AcksBefore(a)

(* Every packet is in one place and in its turn, from the application that *)
(* submits it to the one that takes it, none is accepted after one that    *)
(* could not be sent, and no acknowledgement is ahead of the packets       *)
(* accepted (FIFO channel, transmitPacketData, do_addPacket, addPacket of  *)
(* the output buffer).                                                     *)
TransferKept ==
  /\ TypeOK
  /\ \E t, c, a, d \in 0 .. NumPackets + 1 : Transfer(t, c, a, d)
==============================================================================
