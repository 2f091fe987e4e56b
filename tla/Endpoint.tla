------------------------------- MODULE Endpoint -------------------------------
(***************************************************************************)
(* util::Endpoint and util::Socket as the launcher uses them for the dummy *)
(* SCTP protocol: each end creates and binds a socket, the transmitter     *)
(* listens and accepts, the receiver connects, both transfer and close.    *)
(*                                                                         *)
(* A process holds a set of open descriptors.  A Socket object owns the    *)
(* descriptor in its socketID_; there are two objects per end, the local   *)
(* one of the Endpoint's constructor or of accept, and the Endpoint's      *)
(* socket_.  An exception that leaves startTransmitter or startReceiver    *)
(* ends the process, which closes everything.                              *)
(***************************************************************************)
EXTENDS ArqCommon

CONSTANTS
  NumAddrs,     \* entries in the list getaddrinfo returns
  MaxAttempts   \* maxAttempts of connectRetry

ASSUME EndpointAssumption == /\ NumAddrs \in Nat \ {0}
                             /\ MaxAttempts \in Nat \ {0}

VARIABLES
  main,       \* where startTransmitter and startReceiver are
  addr,       \* the entry of the address list tried by the constructor
  process,    \* open descriptors, and what the Socket objects own
  listening,  \* the descriptor the transmitter listens on
  pending,    \* is a connection waiting to be accepted?
  connected,  \* is the receiver's socket connected?
  attempts    \* attempts connectRetry has made

endpointVars == <<main, addr, process, listening, pending, connected, attempts>>

Ends == {"tx", "rx"}

(* Descriptors after the three standard ones; no process needs more.       *)
Descriptors == 3 .. 6

(* SOCKET_ERROR, what an object that owns nothing holds, is None.          *)
NoDescriptors == [opened |-> {}, sock |-> None, socket_ |-> None]

EndpointInit ==
  /\ main = [e \in Ends |-> "socket"]
  /\ addr = [e \in Ends |-> 1]
  /\ process = [e \in Ends |-> NoDescriptors]
  /\ listening = None
  /\ pending = FALSE
  /\ connected = FALSE
  /\ attempts = 0

(***************************************************************************)
(* The operations of Socket on the process that calls them.                *)
(***************************************************************************)
(* A new descriptor, wrapped by the local object.                          *)
opensSocket(p) ==
  LET new == Least(Descriptors \ p.opened)
  IN  [p EXCEPT !.opened = @ \cup {new}, !.sock = new]

(* Variants with a bug: the object moved from keeps its descriptor; the    *)
(* destructor does not close.                                              *)
moveAssign_copies(p) == [p EXCEPT !.socket_ = p.sock]
destroySock_withoutClose(p) == [p EXCEPT !.sock = None]

(* socket_ = std::move(sock): what socket_ owned is not closed.            *)
moveAssign(p) == [p EXCEPT !.socket_ = p.sock, !.sock = None]

(* The local object's destructor.                                          *)
destroySock(p) == [p EXCEPT !.opened = @ \ {p.sock}, !.sock = None]

(* The Endpoint's destructor.                                              *)
destroyEndpoint(p) == [p EXCEPT !.opened = @ \ {p.socket_}, !.socket_ = None]

(***************************************************************************)
(* The constructor of Endpoint: the addresses are tried in turn.           *)
(***************************************************************************)
terminate(e) ==
  /\ main' = [main EXCEPT ![e] = "terminated"]
  /\ process' = [process EXCEPT ![e] = NoDescriptors]
  /\ UNCHANGED <<addr, listening, pending, connected, attempts>>

createSocket(e) ==
  /\ main[e] = "socket" /\ addr[e] <= NumAddrs
  /\ \/ /\ process' = [process EXCEPT ![e] = opensSocket(process[e])]
        /\ main' = [main EXCEPT ![e] = "bind"]
        /\ addr' = addr
     \/ /\ addr' = [addr EXCEPT ![e] = @ + 1]  \* SocketException, caught
        /\ UNCHANGED <<process, main>>
  /\ UNCHANGED <<listening, pending, connected, attempts>>

noAddressLeft(e) == main[e] = "socket" /\ addr[e] > NumAddrs /\ terminate(e)

bind(e) ==
  /\ main[e] = "bind"
  /\ \/ /\ process' = [process EXCEPT ![e] = destroySock(moveAssign(process[e]))]
        /\ main' = [main EXCEPT ![e] = IF e = "tx" THEN "listen" ELSE "connect"]
        /\ addr' = addr
     \/ /\ process' = [process EXCEPT ![e] = destroySock(process[e])]
        /\ main' = [main EXCEPT ![e] = "socket"]
        /\ addr' = [addr EXCEPT ![e] = @ + 1]
  /\ UNCHANGED <<listening, pending, connected, attempts>>

(***************************************************************************)
(* The transmitter: listen(1), accept(host).                               *)
(***************************************************************************)
listen ==
  /\ main["tx"] = "listen"
  /\ listening' = process["tx"].socket_
  /\ main' = [main EXCEPT !["tx"] = "accept"]
  /\ UNCHANGED <<addr, process, pending, connected, attempts>>

(* The connection is from the host expected, and becomes socket_.          *)
accept ==
  /\ main["tx"] = "accept" /\ pending
  /\ pending' = FALSE
  /\ process' = [process EXCEPT
                   !["tx"] = destroySock(moveAssign(opensSocket(process["tx"])))]
  /\ main' = [main EXCEPT !["tx"] = "run"]
  /\ UNCHANGED <<addr, listening, connected, attempts>>

(* listen fails, accept fails, or the host is not the one expected.        *)
setUpFails == main["tx"] \in {"listen", "accept"} /\ terminate("tx")

(***************************************************************************)
(* The receiver: connectRetry, whose result nobody looks at.               *)
(***************************************************************************)
Reachable == listening # None /\ listening \in process["tx"].opened

connectRetry ==
  /\ main["rx"] = "connect"
  /\ attempts' = attempts + 1
  /\ \/ /\ Reachable
        /\ connected' = TRUE /\ pending' = TRUE
        /\ main' = [main EXCEPT !["rx"] = "run"]
     \/ /\ main' = [main EXCEPT !["rx"] = IF attempts' = MaxAttempts
                                          THEN "run" ELSE "connect"]
        /\ UNCHANGED <<connected, pending>>
  /\ UNCHANGED <<addr, process, listening>>

(***************************************************************************)
(* The end of startTransmitter and startReceiver, and of the process.      *)
(***************************************************************************)
closeEndpoint(e) ==
  /\ main[e] = "run"
  /\ main' = [main EXCEPT ![e] = "closed"]
  /\ process' = [process EXCEPT ![e] = destroyEndpoint(process[e])]
  /\ UNCHANGED <<addr, listening, pending, connected, attempts>>

exit(e) ==
  /\ main[e] = "closed"
  /\ main' = [main EXCEPT ![e] = "exited"]
  /\ process' = [process EXCEPT ![e] = NoDescriptors]
  /\ UNCHANGED <<addr, listening, pending, connected, attempts>>

(* The end of the connection that e uses is closed.                        *)
Closed(e) == main[e] \in {"closed", "exited", "terminated"}

SetUp(e) ==
  \/ createSocket(e) \/ noAddressLeft(e) \/ bind(e)
  \/ e = "tx" /\ (listen \/ accept \/ setUpFails)
  \/ e = "rx" /\ connectRetry
==============================================================================
