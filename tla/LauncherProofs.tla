--------------------------- MODULE LauncherProofs ----------------------------
(***************************************************************************)
(* The two processes over SCTP: their descriptors are used, owned and      *)
(* closed as they should be, for every number of addresses and attempts    *)
(* and whatever the threads of the transmission do meanwhile; and what     *)
(* these threads do is a reliable transfer, for every number of packets.   *)
(***************************************************************************)
EXTENDS ArqLauncher, NumberLemmas, FiniteSetTheorems

(***************************************************************************)
(* The operations of Socket, on what a process may hold.                   *)
(***************************************************************************)
(* What an object owns is a number, never SOCKET_ERROR.                    *)
LEMMA DescriptorIsOwned == None \notin Descriptors
BY NoneAssumption DEF Descriptors

(* There is a descriptor left for a process that holds at most one, and it *)
(* is not that one (socket and accept of the operating system).            *)
LEMMA NewDescriptor ==
  ASSUME NEW opened, opened = {} \/ \E d \in Descriptors : opened = {d}
  PROVE  Least(Descriptors \ opened) \in Descriptors \ opened
<1> DEFINE S == Descriptors \ opened
<1>1. S \in SUBSET Nat /\ S \in SUBSET Int
  BY DEF Descriptors
<1>2. 3 \in S \/ 4 \in S
  BY DEF Descriptors
<1> HIDE DEF S
<1>3. PICK k \in S : \A j \in S : k <= j
  BY <1>1, <1>2, SmallestExists
<1>4. Least(S) = k
  BY <1>1, <1>3, LeastIs
<1> QED
  BY <1>3, <1>4 DEF S

(* What the operations do to a process that holds o, a and b.              *)
LEMMA HoldsAfter ==
  ASSUME NEW p, NEW o, NEW a, NEW b, Holds(p, o, a, b)
  PROVE  /\ Holds(opensSocket(p), o \cup {Least(Descriptors \ o)},
                  Least(Descriptors \ o), b)
         /\ Holds(moveAssign(p), o, None, a)
         /\ Holds(destroySock(p), o \ {a}, None, b)
         /\ Holds(destroyEndpoint(p), o \ {b}, a, None)
<1>1. PICK new, o1, o2, o3 :
        /\ new = Least(Descriptors \ o) /\ o1 = o \cup {new}
        /\ o2 = o \ {a} /\ o3 = o \ {b}
  OBVIOUS
<1>2. p = [opened |-> o, sock |-> a, socket_ |-> b]
  BY Zenon DEF Holds
<1>3. /\ p.opened = o /\ p.sock = a /\ p.socket_ = b
      /\ p \in [opened : {o}, sock : {a}, socket_ : {b}]
  BY <1>2
<1>4. Holds(opensSocket(p), o1, new, b)
  <2>1. PICK x : x = opensSocket(p)
    OBVIOUS
  <2>2. x = [p EXCEPT !.opened = o1, !.sock = new]
    BY <1>1, <1>3, <2>1, Zenon DEF opensSocket
  <2>3. x = [opened |-> o1, sock |-> new, socket_ |-> b]
    BY <1>3, <2>2
  <2> QED
    BY <2>1, <2>3, Zenon DEF Holds
<1>5. Holds(moveAssign(p), o, None, a)
  <2>1. PICK x : x = moveAssign(p)
    OBVIOUS
  <2>2. x = [p EXCEPT !.socket_ = a, !.sock = None]
    BY <1>3, <2>1, Zenon DEF moveAssign
  <2>3. x = [opened |-> o, sock |-> None, socket_ |-> a]
    BY <1>3, <2>2
  <2> QED
    BY <2>1, <2>3, Zenon DEF Holds
<1>6. Holds(destroySock(p), o2, None, b)
  <2>1. PICK x : x = destroySock(p)
    OBVIOUS
  <2>2. x = [p EXCEPT !.opened = o2, !.sock = None]
    BY <1>1, <1>3, <2>1, Zenon DEF destroySock
  <2>3. x = [opened |-> o2, sock |-> None, socket_ |-> b]
    BY <1>3, <2>2
  <2> QED
    BY <2>1, <2>3, Zenon DEF Holds
<1>7. Holds(destroyEndpoint(p), o3, a, None)
  <2>1. PICK x : x = destroyEndpoint(p)
    OBVIOUS
  <2>2. x = [p EXCEPT !.opened = o3, !.socket_ = None]
    BY <1>1, <1>3, <2>1, Zenon DEF destroyEndpoint
  <2>3. x = [opened |-> o3, sock |-> a, socket_ |-> None]
    BY <1>3, <2>2
  <2> QED
    BY <2>1, <2>3, Zenon DEF Holds
<1> QED
  BY <1>1, <1>4, <1>5, <1>6, <1>7, Zenon

(* The local object opens a socket.                                        *)
LEMMA OpensFirst ==
  ASSUME NEW p, Holds(p, {}, None, None)
  PROVE  \E d \in Descriptors : Holds(opensSocket(p), {d}, d, None)
<1>1. PICK d \in Descriptors : d = Least(Descriptors \ {})
  BY NewDescriptor
<1>2. {} \cup {d} = {d}
  OBVIOUS
<1>3. Holds(opensSocket(p), {} \cup {d}, d, None)
  BY <1>1, HoldsAfter
<1> QED
  BY <1>2, <1>3

(* The Endpoint's object takes the socket over, and the local object ends; *)
(* or the local object closes a socket that could not be bound.            *)
LEMMA Binds ==
  ASSUME NEW p, NEW d \in Descriptors, Holds(p, {d}, d, None)
  PROVE  /\ Holds(destroySock(moveAssign(p)), {d}, None, d)
         /\ Holds(destroySock(p), {}, None, None)
<1>1. {d} \ {None} = {d} /\ {d} \ {d} = {}
  BY DescriptorIsOwned
<1>2. PICK q : q = moveAssign(p)
  OBVIOUS
<1>3. Holds(q, {d}, None, d) /\ Holds(destroySock(p), {d} \ {d}, None, None)
  BY <1>2, HoldsAfter
<1>4. Holds(destroySock(q), {d} \ {None}, None, d)
  BY <1>3, HoldsAfter
<1> QED
  BY <1>1, <1>2, <1>3, <1>4

(* The connection accepted is another descriptor than the one listened on, *)
(* which stays open.                                                       *)
LEMMA Accepts ==
  ASSUME NEW p, NEW l \in Descriptors, Holds(p, {l}, None, l)
  PROVE  \E d \in Descriptors \ {l} :
           Holds(destroySock(moveAssign(opensSocket(p))), {l, d}, None, d)
<1>1. PICK d \in Descriptors \ {l} : d = Least(Descriptors \ {l})
  BY NewDescriptor
<1>2. {l} \cup {d} = {l, d} /\ {l, d} \ {None} = {l, d}
  BY DescriptorIsOwned
<1>3. PICK q1, q2 : q1 = opensSocket(p) /\ q2 = moveAssign(q1)
  OBVIOUS
<1>4. Holds(q1, {l} \cup {d}, d, l)
  BY <1>1, <1>3, HoldsAfter
<1>5. Holds(q2, {l, d}, None, d)
  BY <1>2, <1>3, <1>4, HoldsAfter
<1>6. Holds(destroySock(q2), {l, d} \ {None}, None, d)
  BY <1>5, HoldsAfter
<1> QED
  BY <1>2, <1>3, <1>6

(* The destructor of Endpoint closes its socket, and not the one that the  *)
(* transmitter listened on.                                                *)
LEMMA ClosesEndpoint ==
  ASSUME NEW p, NEW d \in Descriptors
  PROVE  /\ Holds(p, {d}, None, d) =>
              Holds(destroyEndpoint(p), {}, None, None)
         /\ \A l \in Descriptors \ {d} :
              Holds(p, {l, d}, None, d) =>
                Holds(destroyEndpoint(p), {l}, None, None)
<1>1. {d} \ {d} = {}
  OBVIOUS
<1>2. ASSUME Holds(p, {d}, None, d)
      PROVE  Holds(destroyEndpoint(p), {d} \ {d}, None, None)
  BY <1>2, HoldsAfter
<1>3. ASSUME NEW l \in Descriptors \ {d}, Holds(p, {l, d}, None, d)
      PROVE  Holds(destroyEndpoint(p), {l}, None, None)
  <2>1. {l, d} \ {d} = {l}
    OBVIOUS
  <2>2. Holds(destroyEndpoint(p), {l, d} \ {d}, None, None)
    BY <1>3, HoldsAfter
  <2> QED
    BY <2>1, <2>2
<1> QED
  BY <1>1, <1>2, <1>3

(***************************************************************************)
(* The steps of an end, on what it holds.                                  *)
(***************************************************************************)
(* What the transmitter holds, from one point to the next.                 *)
LEMMA TransmitterHoldsNext ==
  ASSUME NEW p, NEW l
  PROVE  /\ TransmitterHolds("socket", p, l) =>
              TransmitterHolds("bind", opensSocket(p), l)
         /\ TransmitterHolds("bind", p, l) =>
              /\ TransmitterHolds("listen", destroySock(moveAssign(p)), l)
              /\ TransmitterHolds("socket", destroySock(p), l)
         /\ TransmitterHolds("listen", p, l) =>
              TransmitterHolds("accept", p, p.socket_)
         /\ TransmitterHolds("accept", p, l) =>
              TransmitterHolds("run",
                destroySock(moveAssign(opensSocket(p))), l)
         /\ TransmitterHolds("run", p, l) =>
              TransmitterHolds("closed", destroyEndpoint(p), l)
         /\ TransmitterHolds("exited", NoDescriptors, l)
         /\ TransmitterHolds("terminated", NoDescriptors, l)
<1>1. ASSUME TransmitterHolds("socket", p, l)
      PROVE  TransmitterHolds("bind", opensSocket(p), l)
  <2>1. l = None /\ Holds(p, {}, None, None)
    BY <1>1 DEF TransmitterHolds
  <2>2. \E d \in Descriptors : Holds(opensSocket(p), {d}, d, None)
    BY <2>1, OpensFirst
  <2> QED
    BY <2>1, <2>2 DEF TransmitterHolds
<1>2. ASSUME TransmitterHolds("bind", p, l)
      PROVE  /\ TransmitterHolds("listen", destroySock(moveAssign(p)), l)
             /\ TransmitterHolds("socket", destroySock(p), l)
  <2>1. l = None
    BY <1>2 DEF TransmitterHolds
  <2>2. PICK d \in Descriptors : Holds(p, {d}, d, None)
    BY <1>2 DEF TransmitterHolds
  <2>3. /\ Holds(destroySock(moveAssign(p)), {d}, None, d)
        /\ Holds(destroySock(p), {}, None, None)
    BY <2>2, Binds
  <2> QED
    BY <2>1, <2>3 DEF TransmitterHolds
<1>3. ASSUME TransmitterHolds("listen", p, l)
      PROVE  TransmitterHolds("accept", p, p.socket_)
  <2>1. PICK d \in Descriptors : Holds(p, {d}, None, d)
    BY <1>3 DEF TransmitterHolds
  <2>2. p.socket_ = d
    BY <2>1 DEF Holds
  <2> QED
    BY <2>1, <2>2 DEF TransmitterHolds
<1>4. ASSUME TransmitterHolds("accept", p, l)
      PROVE  TransmitterHolds("run", destroySock(moveAssign(opensSocket(p))), l)
  <2>1. l \in Descriptors /\ Holds(p, {l}, None, l)
    BY <1>4 DEF TransmitterHolds
  <2>2. PICK q : q = destroySock(moveAssign(opensSocket(p)))
    OBVIOUS
  <2>3. \E d \in Descriptors \ {l} : Holds(q, {l, d}, None, d)
    BY <2>1, <2>2, Accepts
  <2> QED
    BY <2>1, <2>2, <2>3 DEF TransmitterHolds
<1>5. ASSUME TransmitterHolds("run", p, l)
      PROVE  TransmitterHolds("closed", destroyEndpoint(p), l)
  <2>1. l \in Descriptors
    BY <1>5 DEF TransmitterHolds
  <2>2. PICK d \in Descriptors \ {l} : Holds(p, {l, d}, None, d)
    BY <1>5 DEF TransmitterHolds
  <2>3. Holds(destroyEndpoint(p), {l}, None, None)
    BY <2>1, <2>2, ClosesEndpoint
  <2> QED
    BY <2>3 DEF TransmitterHolds
<1>6. /\ TransmitterHolds("exited", NoDescriptors, l)
      /\ TransmitterHolds("terminated", NoDescriptors, l)
  BY DEF TransmitterHolds, Holds, NoDescriptors
<1> QED
  BY <1>1, <1>2, <1>3, <1>4, <1>5, <1>6

(* What the receiver holds, from one point to the next.                    *)
LEMMA ReceiverHoldsNext ==
  ASSUME NEW p
  PROVE  /\ ReceiverHolds("socket", p) => ReceiverHolds("bind", opensSocket(p))
         /\ ReceiverHolds("bind", p) =>
              /\ ReceiverHolds("connect", destroySock(moveAssign(p)))
              /\ ReceiverHolds("socket", destroySock(p))
         /\ ReceiverHolds("connect", p) => ReceiverHolds("run", p)
         /\ ReceiverHolds("run", p) =>
              ReceiverHolds("closed", destroyEndpoint(p))
         /\ ReceiverHolds("exited", NoDescriptors)
         /\ ReceiverHolds("terminated", NoDescriptors)
<1>1. ASSUME ReceiverHolds("socket", p)
      PROVE  ReceiverHolds("bind", opensSocket(p))
  <2>1. Holds(p, {}, None, None)
    BY <1>1 DEF ReceiverHolds
  <2>2. \E d \in Descriptors : Holds(opensSocket(p), {d}, d, None)
    BY <2>1, OpensFirst
  <2> QED
    BY <2>2 DEF ReceiverHolds
<1>2. ASSUME ReceiverHolds("bind", p)
      PROVE  /\ ReceiverHolds("connect", destroySock(moveAssign(p)))
             /\ ReceiverHolds("socket", destroySock(p))
  <2>1. PICK d \in Descriptors : Holds(p, {d}, d, None)
    BY <1>2 DEF ReceiverHolds
  <2>2. /\ Holds(destroySock(moveAssign(p)), {d}, None, d)
        /\ Holds(destroySock(p), {}, None, None)
    BY <2>1, Binds
  <2> QED
    BY <2>2 DEF ReceiverHolds
<1>3. ReceiverHolds("connect", p) => ReceiverHolds("run", p)
  BY DEF ReceiverHolds
<1>4. ASSUME ReceiverHolds("run", p)
      PROVE  ReceiverHolds("closed", destroyEndpoint(p))
  <2>1. PICK d \in Descriptors : Holds(p, {d}, None, d)
    BY <1>4 DEF ReceiverHolds
  <2>2. Holds(destroyEndpoint(p), {}, None, None)
    BY <2>1, ClosesEndpoint
  <2> QED
    BY <2>2 DEF ReceiverHolds
<1>5. /\ ReceiverHolds("exited", NoDescriptors)
      /\ ReceiverHolds("terminated", NoDescriptors)
  BY DEF ReceiverHolds, Holds, NoDescriptors
<1> QED
  BY <1>1, <1>2, <1>3, <1>4, <1>5

(***************************************************************************)
(* The steps of the launcher keep the invariant.                           *)
(***************************************************************************)
(* What is set for one end, or left as it is, leaves the other end alone.  *)
LEMMA OneEndChanges ==
  ASSUME NEW e \in Ends, NEW f, NEW g, NEW x, DOMAIN f = Ends,
         g = [f EXCEPT ![e] = x] \/ (g = f /\ x = f[e])
  PROVE  DOMAIN g = Ends /\ g[e] = x /\ \A d \in Ends : d # e => g[d] = f[d]
OBVIOUS

(* The transmitter goes from one point to another.                         *)
LEMMA TransmitterMoves ==
  ASSUME DescriptorsKept, NEW m, NEW p,
         \/ main' = [main EXCEPT !["tx"] = m]
         \/ main' = main /\ m = main["tx"],
         \/ process' = [process EXCEPT !["tx"] = p]
         \/ process' = process /\ p = process["tx"],
         TransmitterHolds(m, p, listening')
  PROVE  DescriptorsKept'
<1>1. /\ DOMAIN main = Ends /\ DOMAIN process = Ends
      /\ ReceiverHolds(main["rx"], process["rx"])
  BY DEF DescriptorsKept
<1>2. "tx" \in Ends /\ "rx" \in Ends /\ "rx" # "tx"
  BY DEF Ends
<1>3. DOMAIN main' = Ends /\ main'["tx"] = m /\ main'["rx"] = main["rx"]
  BY <1>1, <1>2, OneEndChanges
<1>4. /\ DOMAIN process' = Ends
      /\ process'["tx"] = p /\ process'["rx"] = process["rx"]
  BY <1>1, <1>2, OneEndChanges
<1> QED
  BY <1>1, <1>3, <1>4 DEF DescriptorsKept

(* The receiver goes from one point to another.                            *)
LEMMA ReceiverMoves ==
  ASSUME DescriptorsKept, NEW m, NEW p,
         \/ main' = [main EXCEPT !["rx"] = m]
         \/ main' = main /\ m = main["rx"],
         \/ process' = [process EXCEPT !["rx"] = p]
         \/ process' = process /\ p = process["rx"],
         ReceiverHolds(m, p), listening' = listening
  PROVE  DescriptorsKept'
<1>1. /\ DOMAIN main = Ends /\ DOMAIN process = Ends
      /\ TransmitterHolds(main["tx"], process["tx"], listening)
  BY DEF DescriptorsKept
<1>2. "tx" \in Ends /\ "rx" \in Ends /\ "rx" # "tx"
  BY DEF Ends
<1>3. DOMAIN main' = Ends /\ main'["rx"] = m /\ main'["tx"] = main["tx"]
  BY <1>1, <1>2, OneEndChanges
<1>4. /\ DOMAIN process' = Ends
      /\ process'["rx"] = p /\ process'["tx"] = process["tx"]
  BY <1>1, <1>2, OneEndChanges
<1> QED
  BY <1>1, <1>3, <1>4 DEF DescriptorsKept

(* Whatever the transmitter does to its sockets.                           *)
LEMMA TransmitterKeeps ==
  ASSUME DescriptorsKept,
         SetUp("tx") \/ closeEndpoint("tx") \/ exit("tx")
  PROVE  DescriptorsKept'
<1>1. PICK m, p : m = main["tx"] /\ p = process["tx"]
  OBVIOUS
<1>2. TransmitterHolds(m, p, listening)
  BY <1>1 DEF DescriptorsKept
<1>3. ASSUME terminate("tx")
      PROVE  DescriptorsKept'
  <2>1. TransmitterHolds("terminated", NoDescriptors, listening)
    BY TransmitterHoldsNext
  <2> QED
    BY <1>3, <2>1, TransmitterMoves DEF terminate
<1>4. CASE createSocket("tx")
  <2>1. m = "socket" /\ listening' = listening
    BY <1>1, <1>4 DEF createSocket
  <2>2. CASE /\ process' = [process EXCEPT !["tx"] = opensSocket(process["tx"])]
             /\ main' = [main EXCEPT !["tx"] = "bind"]
    <3>1. TransmitterHolds("bind", opensSocket(p), listening)
      BY <1>2, <2>1, TransmitterHoldsNext
    <3> QED
      BY <1>1, <2>1, <2>2, <3>1, TransmitterMoves
  <2>3. CASE process' = process /\ main' = main
    BY <1>1, <1>2, <2>1, <2>3, TransmitterMoves
  <2> QED
    BY <1>4, <2>2, <2>3 DEF createSocket
<1>5. CASE bind("tx")
  <2>1. m = "bind" /\ listening' = listening
    BY <1>1, <1>5 DEF bind
  <2>2. /\ TransmitterHolds("listen", destroySock(moveAssign(p)), listening)
        /\ TransmitterHolds("socket", destroySock(p), listening)
    BY <1>2, <2>1, TransmitterHoldsNext
  <2>3. \/ /\ process' = [process EXCEPT
                            !["tx"] = destroySock(moveAssign(process["tx"]))]
           /\ main' = [main EXCEPT !["tx"] = "listen"]
        \/ /\ process' = [process EXCEPT !["tx"] = destroySock(process["tx"])]
           /\ main' = [main EXCEPT !["tx"] = "socket"]
    BY <1>5 DEF bind
  <2> QED
    BY <1>1, <2>1, <2>2, <2>3, TransmitterMoves
<1>6. CASE listen
  <2>1. /\ m = "listen" /\ listening' = p.socket_ /\ process' = process
        /\ main' = [main EXCEPT !["tx"] = "accept"]
    BY <1>1, <1>6 DEF listen
  <2>2. TransmitterHolds("accept", p, p.socket_)
    BY <1>2, <2>1, TransmitterHoldsNext
  <2> QED
    BY <1>1, <2>1, <2>2, TransmitterMoves
<1>7. CASE accept
  <2>1. /\ m = "accept" /\ listening' = listening
        /\ process' = [process EXCEPT !["tx"] =
                         destroySock(moveAssign(opensSocket(process["tx"])))]
        /\ main' = [main EXCEPT !["tx"] = "run"]
    BY <1>1, <1>7 DEF accept
  <2>2. TransmitterHolds("run", destroySock(moveAssign(opensSocket(p))), listening)
    BY <1>2, <2>1, TransmitterHoldsNext
  <2> QED
    BY <1>1, <2>1, <2>2, TransmitterMoves
<1>8. CASE closeEndpoint("tx")
  <2>1. /\ m = "run" /\ listening' = listening
        /\ process' = [process EXCEPT !["tx"] = destroyEndpoint(process["tx"])]
        /\ main' = [main EXCEPT !["tx"] = "closed"]
    BY <1>1, <1>8 DEF closeEndpoint
  <2>2. TransmitterHolds("closed", destroyEndpoint(p), listening)
    BY <1>2, <2>1, TransmitterHoldsNext
  <2> QED
    BY <1>1, <2>1, <2>2, TransmitterMoves
<1>9. CASE exit("tx")
  <2>1. TransmitterHolds("exited", NoDescriptors, listening)
    BY TransmitterHoldsNext
  <2> QED
    BY <1>9, <2>1, TransmitterMoves DEF exit
<1>10. CASE noAddressLeft("tx") \/ setUpFails
  BY <1>3, <1>10 DEF noAddressLeft, setUpFails
<1> QED
  BY <1>4, <1>5, <1>6, <1>7, <1>8, <1>9, <1>10 DEF SetUp

(* Whatever the receiver does to its socket.                               *)
LEMMA ReceiverKeeps ==
  ASSUME DescriptorsKept,
         SetUp("rx") \/ closeEndpoint("rx") \/ exit("rx")
  PROVE  DescriptorsKept'
<1>1. PICK m, p : m = main["rx"] /\ p = process["rx"]
  OBVIOUS
<1>2. ReceiverHolds(m, p)
  BY <1>1 DEF DescriptorsKept
<1>3. CASE createSocket("rx")
  <2>1. m = "socket" /\ listening' = listening
    BY <1>1, <1>3 DEF createSocket
  <2>2. CASE /\ process' = [process EXCEPT !["rx"] = opensSocket(process["rx"])]
             /\ main' = [main EXCEPT !["rx"] = "bind"]
    <3>1. ReceiverHolds("bind", opensSocket(p))
      BY <1>2, <2>1, ReceiverHoldsNext
    <3> QED
      BY <1>1, <2>1, <2>2, <3>1, ReceiverMoves
  <2>3. CASE process' = process /\ main' = main
    BY <1>1, <1>2, <2>1, <2>3, ReceiverMoves
  <2> QED
    BY <1>3, <2>2, <2>3 DEF createSocket
<1>4. CASE noAddressLeft("rx")
  <2>1. ReceiverHolds("terminated", NoDescriptors)
    BY ReceiverHoldsNext
  <2> QED
    BY <1>4, <2>1, ReceiverMoves DEF noAddressLeft, terminate
<1>5. CASE bind("rx")
  <2>1. m = "bind" /\ listening' = listening
    BY <1>1, <1>5 DEF bind
  <2>2. /\ ReceiverHolds("connect", destroySock(moveAssign(p)))
        /\ ReceiverHolds("socket", destroySock(p))
    BY <1>2, <2>1, ReceiverHoldsNext
  <2>3. \/ /\ process' = [process EXCEPT
                            !["rx"] = destroySock(moveAssign(process["rx"]))]
           /\ main' = [main EXCEPT !["rx"] = "connect"]
        \/ /\ process' = [process EXCEPT !["rx"] = destroySock(process["rx"])]
           /\ main' = [main EXCEPT !["rx"] = "socket"]
    BY <1>5 DEF bind
  <2> QED
    BY <1>1, <2>1, <2>2, <2>3, ReceiverMoves
<1>6. CASE connectRetry
  <2>1. /\ m = "connect" /\ listening' = listening /\ process' = process
        /\ \/ main' = [main EXCEPT !["rx"] = "run"]
           \/ main' = [main EXCEPT !["rx"] = "connect"]
    BY <1>1, <1>6 DEF connectRetry
  <2>2. ReceiverHolds("run", p) /\ ReceiverHolds("connect", p)
    BY <1>2, <2>1, ReceiverHoldsNext
  <2> QED
    BY <1>1, <2>1, <2>2, ReceiverMoves
<1>7. CASE closeEndpoint("rx")
  <2>1. /\ m = "run" /\ listening' = listening
        /\ process' = [process EXCEPT !["rx"] = destroyEndpoint(process["rx"])]
        /\ main' = [main EXCEPT !["rx"] = "closed"]
    BY <1>1, <1>7 DEF closeEndpoint
  <2>2. ReceiverHolds("closed", destroyEndpoint(p))
    BY <1>2, <2>1, ReceiverHoldsNext
  <2> QED
    BY <1>1, <2>1, <2>2, ReceiverMoves
<1>8. CASE exit("rx")
  <2>1. ReceiverHolds("exited", NoDescriptors)
    BY ReceiverHoldsNext
  <2> QED
    BY <1>8, <2>1, ReceiverMoves DEF exit
<1> QED
  BY <1>3, <1>4, <1>5, <1>6, <1>7, <1>8 DEF SetUp

(* Every step of the launcher keeps the invariant: the threads of a        *)
(* transmission do not touch the descriptors.                              *)
LEMMA LauncherKeeps ==
  DescriptorsKept /\ [LauncherNext]_launcherVars => DescriptorsKept'
<1> SUFFICES ASSUME DescriptorsKept, [LauncherNext]_launcherVars
             PROVE  DescriptorsKept'
  OBVIOUS
<1>1. CASE UNCHANGED endpointVars
  BY <1>1 DEF DescriptorsKept, endpointVars
<1>2. CASE SetUp("tx") \/ closeEndpoint("tx") \/ exit("tx")
  BY <1>2, TransmitterKeeps
<1>3. CASE SetUp("rx") \/ closeEndpoint("rx") \/ exit("rx")
  BY <1>3, ReceiverKeeps
<1>4. UNCHANGED launcherVars => UNCHANGED endpointVars
  BY DEF launcherVars
<1>5. CASE launchTransmitter
  <2>1. \/ UNCHANGED endpointVars
        \/ SetUp("tx") \/ closeEndpoint("tx") \/ exit("tx")
    BY <1>5 DEF launchTransmitter, setUp, submitPackets, transmitPackets,
                receiveAcks, end
  <2> QED
    BY <1>1, <1>2, <2>1
<1>6. CASE launchReceiver
  <2>1. \/ UNCHANGED endpointVars
        \/ SetUp("rx") \/ closeEndpoint("rx") \/ exit("rx")
    BY <1>6 DEF launchReceiver, setUp, receivePackets, sendAcks, takePackets, end
  <2> QED
    BY <1>1, <1>3, <2>1
<1> QED
  BY <1>1, <1>4, <1>5, <1>6 DEF LauncherNext

(* At every point of set-up, transmission and end each process holds       *)
(* exactly the descriptors its objects own and the one it listened on (the *)
(* constructors, moves and destructors of Socket), for every number of     *)
(* addresses, attempts and packets.                                        *)
THEOREM LauncherDescriptors == LauncherSpec => []DescriptorsKept
<1>1. LauncherInit => DescriptorsKept
  BY DEF LauncherInit, EndpointInit, DescriptorsKept, TransmitterHolds,
         ReceiverHolds, Holds, NoDescriptors, Ends
<1> QED
  BY <1>1, LauncherKeeps, PTL DEF LauncherSpec

(* The descriptor the threads use is open, is not the one listened on, and *)
(* has one owner only (Socket's move operations and destructor).           *)
THEOREM LauncherSocketUsable == LauncherSpec => []SocketUsable
<1>1. DescriptorsKept => SocketUsable
  <2> SUFFICES ASSUME DescriptorsKept, NEW e \in Ends, main[e] = "run"
               PROVE  /\ process[e].socket_ \in process[e].opened
                      /\ process[e].socket_ # listening \/ e = "rx"
                      /\ process[e].socket_ # process[e].sock
    BY DEF SocketUsable
  <2>1. PICK p : p = process[e]
    OBVIOUS
  <2>2. CASE e = "tx"
    <3>1. TransmitterHolds("run", p, listening)
      BY <2>1, <2>2 DEF DescriptorsKept
    <3>2. PICK d \in Descriptors \ {listening} :
            Holds(p, {listening, d}, None, d)
      BY <3>1 DEF TransmitterHolds
    <3>3. p.opened = {listening, d} /\ p.sock = None /\ p.socket_ = d
      BY <3>2 DEF Holds
    <3> QED
      BY <2>1, <3>3, DescriptorIsOwned
  <2>3. CASE e = "rx"
    <3>1. ReceiverHolds("run", p)
      BY <2>1, <2>3 DEF DescriptorsKept
    <3>2. PICK d \in Descriptors : Holds(p, {d}, None, d)
      BY <3>1 DEF ReceiverHolds
    <3>3. p.opened = {d} /\ p.sock = None /\ p.socket_ = d
      BY <3>2 DEF Holds
    <3> QED
      BY <2>1, <2>3, <3>3, DescriptorIsOwned
  <2> QED
    BY <2>2, <2>3 DEF Ends
<1> QED
  BY <1>1, LauncherDescriptors, PTL

(* No descriptor is left without an owner that closes it, except the one   *)
(* that the transmitter listened on (the move assignment in accept).       *)
THEOREM LauncherLeaksListenerOnly == LauncherSpec => []OnlyListenerLeaks
<1>1. DescriptorsKept => OnlyListenerLeaks
  <2> SUFFICES ASSUME DescriptorsKept, NEW e \in Ends, NEW p, p = process[e]
               PROVE  p.opened \ {p.sock, p.socket_}
                        \subseteq IF e = "tx" THEN {listening} ELSE {}
    BY DEF OnlyListenerLeaks
  <2>1. ASSUME NEW o, NEW a, NEW b, Holds(p, o, a, b)
        PROVE  p.opened \ {p.sock, p.socket_} = o \ {a, b}
    BY <2>1 DEF Holds
  <2>2. ASSUME NEW d
        PROVE  /\ {d} \ {d, None} = {} /\ {d} \ {None, d} = {}
               /\ {} \ {None, None} = {} /\ {d} \ {None, None} \subseteq {d}
               /\ \A l : {l, d} \ {None, d} \subseteq {l}
    OBVIOUS
  <2>3. ASSUME \/ Holds(p, {}, None, None)
               \/ \E d : Holds(p, {d}, d, None) \/ Holds(p, {d}, None, d)
        PROVE  p.opened \ {p.sock, p.socket_} = {}
    <3>1. CASE Holds(p, {}, None, None)
      BY <2>1, <2>2, <3>1
    <3>2. CASE \E d : Holds(p, {d}, d, None) \/ Holds(p, {d}, None, d)
      <4>1. PICK d : Holds(p, {d}, d, None) \/ Holds(p, {d}, None, d)
        BY <3>2
      <4> QED
        BY <2>1, <2>2, <4>1
    <3> QED
      BY <2>3, <3>1, <3>2
  <2>4. CASE e = "tx"
    <3>1. TransmitterHolds(main[e], p, listening)
      BY <2>4 DEF DescriptorsKept
    <3>2. CASE \E d : Holds(p, {listening, d}, None, d)
      <4>1. PICK d : Holds(p, {listening, d}, None, d)
        BY <3>2
      <4> QED
        BY <2>1, <2>2, <2>4, <4>1
    <3>3. CASE Holds(p, {listening}, None, None)
      BY <2>1, <2>2, <2>4, <3>3
    <3>4. \/ Holds(p, {}, None, None)
          \/ \E d : Holds(p, {d}, d, None) \/ Holds(p, {d}, None, d)
          \/ \E d : Holds(p, {listening, d}, None, d)
          \/ Holds(p, {listening}, None, None)
      BY <3>1, Zenon DEF TransmitterHolds
    <3> QED
      BY <2>3, <3>2, <3>3, <3>4
  <2>5. CASE e = "rx"
    <3>1. ReceiverHolds(main[e], p)
      BY <2>5 DEF DescriptorsKept
    <3>2. \/ Holds(p, {}, None, None)
          \/ \E d : Holds(p, {d}, d, None) \/ Holds(p, {d}, None, d)
      BY <3>1, Zenon DEF ReceiverHolds
    <3> QED
      BY <2>3, <3>2
  <2> QED
    BY <2>4, <2>5 DEF Ends
<1> QED
  BY <1>1, LauncherDescriptors, PTL

(***************************************************************************)
(* The buffers of the dummy SCTP protocol, the channel and the queues.     *)
(***************************************************************************)
(* The constants are numbers of the expected ranges.                       *)
LEMMA TransferConstants ==
  /\ NumPackets \in Nat /\ SeqNumModulus \in Nat \ {0}
  /\ NumPackets < SeqNumModulus
  /\ None \notin Int /\ None \notin Packets /\ None \notin SequenceNumbers
BY NumPacketsAssumption, ModulusAssumption, NoneAssumption,
   TransmissionAssumption DEF Packets, SequenceNumbers

(* No packet's number is cut off.                                          *)
LEMMA NumberIsPosition ==
  ASSUME NEW p \in 0 .. NumPackets
  PROVE  SeqNum(p) = p /\ p \in Packets /\ p \in SequenceNumbers
BY TransferConstants, SmallMod DEF SeqNum, Packets, SequenceNumbers

(* The counters of the two buffers count in 16 bits.                       *)
LEMMA CountsOn ==
  ASSUME NEW k \in Nat
  PROVE  /\ (SeqNum(k) + 1) % SeqNumModulus = SeqNum(k + 1)
         /\ SeqNum(k) \in SequenceNumbers
<1>1. /\ ((k % SeqNumModulus) + 1) % SeqNumModulus = (k + 1) % SeqNumModulus
      /\ k % SeqNumModulus \in 0 .. SeqNumModulus - 1
  BY TransferConstants, NextMod, ModBelow
<1> QED
  BY <1>1 DEF SeqNum, SequenceNumbers

(* The retransmission buffer keeps nothing and is always ready.            *)
LEMMA RetransmissionCalls ==
  /\ RT!Buffers = {<<>>} /\ RT!Empty = <<>>
  /\ \A r : RT!HasSpace(r) /\ RT!Held(r) = {}
  /\ \A r, x : /\ RT!tryGetPacketSpan(r, x) = None
               /\ RT!addPacket(r, x) = r
               /\ RT!acknowledgePacket(r, x) = r
BY LauncherAssumption
   DEF RT!Buffers, RT!Empty, RT!HasSpace, RT!Held, RT!tryGetPacketSpan,
       RT!addPacket, RT!acknowledgePacket, RT!SCTP!Buffers, RT!SCTP!DummySCTP,
       RT!SCTP!HasSpace, RT!SCTP!Held, RT!SCTP!do_tryGetPacketSpan,
       RT!SCTP!do_addPacket, RT!SCTP!do_acknowledgePacket

(* The resequencing buffer passes on what has the number it expects.       *)
LEMMA ResequencingCalls ==
  /\ RS!Buffers = [shadowBuffer_       : Seq(Packets),
                   nextSequenceNumber_ : SequenceNumbers]
  /\ RS!Empty = [shadowBuffer_ |-> <<>>, nextSequenceNumber_ |-> 0]
  /\ \A r : RS!Waiting(r) = Elements(r.shadowBuffer_)
  /\ \A r, p : SeqNum(p) = r.nextSequenceNumber_ =>
        RS!addPacket(r, p) =
          [rs  |-> [shadowBuffer_       |-> Append(r.shadowBuffer_, p),
                    nextSequenceNumber_ |->
                      (r.nextSequenceNumber_ + 1) % SeqNumModulus],
           ack |-> SeqNum(p)]
  /\ \A r, p : SeqNum(p) # r.nextSequenceNumber_ =>
        RS!addPacket(r, p) = [rs |-> r, ack |-> None]
  /\ \A r : RS!getNextPacket(r) =
        IF r.shadowBuffer_ = <<>> THEN [rs |-> r, packet |-> None]
        ELSE [rs     |-> [r EXCEPT !.shadowBuffer_ = Tail(@)],
              packet |-> Head(r.shadowBuffer_)]
BY LauncherAssumption, ZenonT(60)
   DEF RS!Buffers, RS!Empty, RS!Waiting, RS!addPacket, RS!getNextPacket,
       RS!SCTP!Buffers, RS!SCTP!DummySCTP, RS!SCTP!Waiting,
       RS!SCTP!do_addPacket, RS!SCTP!do_getNextPacket, RS!SCTP!Packets,
       RS!SCTP!SequenceNumbers, RS!SCTP!SeqNum, Packets, SequenceNumbers,
       SeqNum, Elements

(* The channel is a FIFO, which may not take a message.                    *)
LEMMA ChannelCalls ==
  /\ UsesSCTP /\ EmptyChannel = <<>>
  /\ \A q, m, q2 : q2 \in Sent(q, m) => q2 \in {q, Append(q, m)}
  /\ \A q, m : m \in Arriving(q) => q # <<>> /\ m = Head(q)
  /\ \A q, m, q2 : q2 \in AfterArrival(q, m) => q2 = Tail(q)
BY LauncherAssumption
   DEF UsesSCTP, EmptyChannel, Sent, Carried, Arriving, AfterArrival, LastArrival

(* There are no fewer packets in a queue than none.                        *)
LEMMA ConsecutiveInOrder ==
  ASSUME NEW S, NEW q \in Seq(S), NEW i \in Int, NEW j \in Int,
         Consecutive(q, i, j)
  PROVE  i <= j /\ (q = <<>> <=> i = j)
BY DEF Consecutive

(* A queue grows by the packet that follows.                               *)
LEMMA ConsecutiveAppend ==
  ASSUME NEW q \in Seq(Packets), NEW i \in Int, NEW j \in Packets,
         Consecutive(q, i, j)
  PROVE  Append(q, j) \in Seq(Packets) /\ Consecutive(Append(q, j), i, j + 1)
<1>1. PICK q2 : q2 = Append(q, j)
  OBVIOUS
<1>2. /\ q2 \in Seq(Packets) /\ Len(q2) = Len(q) + 1 /\ Len(q) \in Nat
      /\ q2[Len(q) + 1] = j /\ \A n \in 1 .. Len(q) : q2[n] = q[n]
      /\ j \in Int
  BY <1>1, TransferConstants DEF Packets
<1>3. Consecutive(q2, i, j + 1)
  BY <1>2 DEF Consecutive
<1> QED
  BY <1>1, <1>2, <1>3

(* It starts with the first packet, and loses it.                          *)
LEMMA ConsecutiveTail ==
  ASSUME NEW q \in Seq(Packets), NEW i \in Int, NEW j \in Int,
         Consecutive(q, i, j), q # <<>>
  PROVE  /\ Head(q) = i /\ i \in Packets /\ i < j
         /\ Tail(q) \in Seq(Packets) /\ Consecutive(Tail(q), i + 1, j)
<1>1. PICK q2 : q2 = Tail(q)
  OBVIOUS
<1>2. /\ q2 \in Seq(Packets) /\ Len(q2) = Len(q) - 1
      /\ Len(q) \in Nat /\ Len(q) > 0
      /\ Head(q) = q[1] /\ q[1] \in Packets
      /\ \A n \in 1 .. Len(q2) : q2[n] = q[n + 1]
  BY <1>1
<1>3. Len(q) = j - i /\ \A n \in 1 .. Len(q) : q[n] = i + n - 1
  BY DEF Consecutive
<1>4. q[1] = i
  BY <1>2, <1>3
<1>5. Consecutive(q2, i + 1, j)
  <2>1. ASSUME NEW n \in 1 .. Len(q2)
        PROVE  q2[n] = i + 1 + n - 1
    <3>1. n + 1 \in 1 .. Len(q)
      BY <1>2
    <3> QED
      BY <1>2, <1>3, <3>1
  <2> QED
    BY <1>2, <1>3, <2>1 DEF Consecutive
<1> QED
  BY <1>1, <1>2, <1>3, <1>4, <1>5

(* The packets in a queue.                                                 *)
LEMMA ConsecutiveElements ==
  ASSUME NEW q \in Seq(Packets), NEW i \in Int, NEW j \in Int,
         Consecutive(q, i, j)
  PROVE  Elements(q) = i .. j - 1
<1>1. /\ Len(q) = j - i /\ Len(q) \in Nat /\ DOMAIN q = 1 .. Len(q)
      /\ \A n \in 1 .. Len(q) : q[n] = i + n - 1
  BY DEF Consecutive
<1>2. ASSUME NEW x \in Elements(q)
      PROVE  x \in i .. j - 1
  BY <1>1, <1>2 DEF Elements
<1>3. ASSUME NEW x \in i .. j - 1
      PROVE  x \in Elements(q)
  <2>1. x - i + 1 \in 1 .. Len(q) /\ q[x - i + 1] = x
    BY <1>1
  <2> QED
    BY <1>1, <2>1 DEF Elements
<1> QED
  BY <1>2, <1>3

(* Of the packets up to j, the channel has j or has not.                   *)
LEMMA AscendingAppend ==
  ASSUME NEW q \in Seq(Packets), NEW i \in Int, NEW j \in Packets,
         Ascending(q, i, j)
  PROVE  /\ Ascending(q, i, j + 1)
         /\ Append(q, j) \in Seq(Packets) /\ Ascending(Append(q, j), i, j + 1)
<1>1. PICK q2 : q2 = Append(q, j)
  OBVIOUS
<1>2. /\ q2 \in Seq(Packets) /\ Len(q2) = Len(q) + 1 /\ Len(q) \in Nat
      /\ q2[Len(q) + 1] = j /\ \A n \in 1 .. Len(q) : q2[n] = q[n]
      /\ j \in Int
  BY <1>1, TransferConstants DEF Packets
<1>3. /\ i <= j /\ \A n \in 1 .. Len(q) : i <= q[n] /\ q[n] < j /\ q[n] \in Int
      /\ \A m, n \in 1 .. Len(q) : m < n => q[m] < q[n]
  BY TransferConstants DEF Ascending, Packets
<1>4. Ascending(q, i, j + 1)
  BY <1>2, <1>3 DEF Ascending
<1>5. \A n \in 1 .. Len(q2) :
        \/ n \in 1 .. Len(q) /\ q2[n] = q[n]
        \/ n = Len(q) + 1 /\ q2[n] = j
  BY <1>2
<1>6. Ascending(q2, i, j + 1)
  <2>1. ASSUME NEW n \in 1 .. Len(q2)
        PROVE  i <= q2[n] /\ q2[n] < j + 1
    BY <1>2, <1>3, <1>5
  <2>2. ASSUME NEW m \in 1 .. Len(q2), NEW n \in 1 .. Len(q2), m < n
        PROVE  q2[m] < q2[n]
    <3>1. m \in 1 .. Len(q) /\ q2[m] = q[m]
      BY <1>2, <2>2
    <3> QED
      BY <1>3, <1>5, <2>2, <3>1
  <2> QED
    BY <1>2, <1>3, <2>1, <2>2 DEF Ascending
<1> QED
  BY <1>1, <1>2, <1>4, <1>6

(* What follows the first packet of the channel was sent after it.         *)
LEMMA AscendingTail ==
  ASSUME NEW q \in Seq(Packets), NEW i \in Int, NEW j \in Int,
         Ascending(q, i, j), q # <<>>
  PROVE  /\ Head(q) \in Packets /\ i <= Head(q) /\ Head(q) < j
         /\ Tail(q) \in Seq(Packets) /\ Ascending(Tail(q), Head(q) + 1, j)
<1>1. PICK q2, h : q2 = Tail(q) /\ h = Head(q)
  OBVIOUS
<1>2. /\ q2 \in Seq(Packets) /\ Len(q2) = Len(q) - 1
      /\ Len(q) \in Nat /\ Len(q) > 0
      /\ h = q[1] /\ h \in Packets /\ h \in Int
      /\ \A n \in 1 .. Len(q2) : q2[n] = q[n + 1]
  BY <1>1, TransferConstants DEF Packets
<1>3. /\ \A n \in 1 .. Len(q) : i <= q[n] /\ q[n] < j /\ q[n] \in Int
      /\ \A m, n \in 1 .. Len(q) : m < n => q[m] < q[n]
  BY TransferConstants DEF Ascending, Packets
<1>4. i <= h /\ h < j /\ h + 1 <= j
  BY <1>2, <1>3
<1>5. ASSUME NEW n \in 1 .. Len(q2)
      PROVE  h + 1 <= q2[n] /\ q2[n] < j
  <2>1. 1 \in 1 .. Len(q) /\ n + 1 \in 1 .. Len(q) /\ 1 < n + 1
    BY <1>2
  <2>2. q[1] < q[n + 1] /\ q[n + 1] < j /\ q[n + 1] \in Int
    BY <1>3, <2>1
  <2> QED
    BY <1>2, <2>2
<1>6. ASSUME NEW m \in 1 .. Len(q2), NEW n \in 1 .. Len(q2), m < n
      PROVE  q2[m] < q2[n]
  <2>1. m + 1 \in 1 .. Len(q) /\ n + 1 \in 1 .. Len(q) /\ m + 1 < n + 1
    BY <1>2, <1>6
  <2> QED
    BY <1>2, <1>3, <2>1
<1>7. Ascending(q2, h + 1, j)
  BY <1>4, <1>5, <1>6 DEF Ascending
<1> QED
  BY <1>1, <1>2, <1>4, <1>7

(* The packet that follows those accepted is accepted and acknowledged.    *)
LEMMA AcceptsNext ==
  ASSUME NEW r \in RS!Buffers, NEW d \in Int, NEW a \in 0 .. NumPackets,
         r.nextSequenceNumber_ = SeqNum(a), Consecutive(r.shadowBuffer_, d, a),
         NEW result, result = RS!addPacket(r, a)
  PROVE  /\ result.rs \in RS!Buffers
         /\ result.rs.nextSequenceNumber_ = SeqNum(a + 1)
         /\ Consecutive(result.rs.shadowBuffer_, d, a + 1)
         /\ result.ack = a
<1>1. PICK q, n, ack : /\ q = Append(r.shadowBuffer_, a)
                       /\ n = (r.nextSequenceNumber_ + 1) % SeqNumModulus
                       /\ ack = SeqNum(a)
  OBVIOUS
<1>2. /\ a \in Packets /\ ack = a
      /\ n = SeqNum(a + 1) /\ n \in SequenceNumbers
  <2>1. SeqNum(a + 1) \in SequenceNumbers /\ n = SeqNum(a + 1)
    BY <1>1, CountsOn
  <2> QED
    BY <1>1, <2>1, NumberIsPosition
<1>3. r.shadowBuffer_ \in Seq(Packets)
  BY ResequencingCalls
<1>4. q \in Seq(Packets) /\ Consecutive(q, d, a + 1)
  BY <1>1, <1>2, <1>3, ConsecutiveAppend
<1>5. result = [rs |-> [shadowBuffer_ |-> q, nextSequenceNumber_ |-> n], ack |-> ack]
  BY <1>1, ResequencingCalls, Zenon
<1>6. /\ result.rs = [shadowBuffer_ |-> q, nextSequenceNumber_ |-> n]
      /\ result.ack = a
  BY <1>2, <1>5
<1>7. /\ result.rs \in [shadowBuffer_       : Seq(Packets),
                        nextSequenceNumber_ : SequenceNumbers]
      /\ result.rs.shadowBuffer_ = q /\ result.rs.nextSequenceNumber_ = n
  BY <1>2, <1>4, <1>6
<1> QED
  BY <1>2, <1>4, <1>6, <1>7, ResequencingCalls

(* The first packet that waits is passed on.                               *)
LEMMA PassesOnNext ==
  ASSUME NEW r \in RS!Buffers, NEW d \in Int, NEW a \in Int,
         Consecutive(r.shadowBuffer_, d, a),
         NEW result, result = RS!getNextPacket(r), result.packet # None
  PROVE  /\ result.packet = d /\ d \in Packets /\ d < a
         /\ result.rs \in RS!Buffers
         /\ result.rs.nextSequenceNumber_ = r.nextSequenceNumber_
         /\ Consecutive(result.rs.shadowBuffer_, d + 1, a)
<1>1. /\ r \in [shadowBuffer_       : Seq(Packets),
                nextSequenceNumber_ : SequenceNumbers]
      /\ r.shadowBuffer_ \in Seq(Packets)
      /\ r.nextSequenceNumber_ \in SequenceNumbers
  BY ResequencingCalls
<1>2. PICK q, n, p : /\ q = Tail(r.shadowBuffer_) /\ n = r.nextSequenceNumber_
                     /\ p = Head(r.shadowBuffer_)
  OBVIOUS
<1>3. r.shadowBuffer_ # <<>>
  <2>1. r.shadowBuffer_ = <<>> => result = [rs |-> r, packet |-> None]
    BY ResequencingCalls, Zenon
  <2> QED
    BY <2>1
<1>4. /\ p = d /\ d \in Packets /\ d < a
      /\ q \in Seq(Packets) /\ Consecutive(q, d + 1, a)
  BY <1>1, <1>2, <1>3, ConsecutiveTail
<1>5. result = [rs |-> [r EXCEPT !.shadowBuffer_ = q], packet |-> p]
  BY <1>2, <1>3, ResequencingCalls, Zenon
<1>6. /\ result.rs = [r EXCEPT !.shadowBuffer_ = q] /\ result.packet = d
  BY <1>4, <1>5
<1>7. /\ result.rs \in [shadowBuffer_       : Seq(Packets),
                        nextSequenceNumber_ : SequenceNumbers]
      /\ result.rs.shadowBuffer_ = q /\ result.rs.nextSequenceNumber_ = n
  BY <1>1, <1>2, <1>4, <1>6
<1> QED
  BY <1>2, <1>4, <1>6, <1>7, ResequencingCalls

(* A queue of acknowledgements loses its first or gets another.            *)
LEMMA AcksStayBefore ==
  ASSUME NEW q \in Seq(SequenceNumbers), NEW a \in Int, AllBefore(q, a)
  PROVE  /\ q # <<>> => /\ Head(q) \in SequenceNumbers /\ Head(q) < a
                        /\ Tail(q) \in Seq(SequenceNumbers)
                        /\ AllBefore(Tail(q), a)
         /\ \A sn \in SequenceNumbers :
              sn < a => /\ Append(q, sn) \in Seq(SequenceNumbers)
                        /\ AllBefore(Append(q, sn), a)
         /\ AllBefore(q, a + 1)
<1>1. q # <<>> => /\ Head(q) \in SequenceNumbers /\ Head(q) < a
                 /\ Tail(q) \in Seq(SequenceNumbers)
                 /\ AllBefore(Tail(q), a)
  BY DEF AllBefore
<1>2. ASSUME NEW sn \in SequenceNumbers, sn < a
      PROVE  /\ Append(q, sn) \in Seq(SequenceNumbers)
             /\ AllBefore(Append(q, sn), a)
  BY <1>2 DEF AllBefore
<1>3. AllBefore(q, a + 1)
  <2>1. \A i \in DOMAIN q : q[i] \in SequenceNumbers /\ q[i] < a
    BY DEF AllBefore
  <2>2. \A sn \in SequenceNumbers : sn < a => sn < a + 1
    BY TransferConstants DEF SequenceNumbers
  <2> QED
    BY <2>1, <2>2 DEF AllBefore
<1> QED
  BY <1>1, <1>2, <1>3

(***************************************************************************)
(* The steps of the transfer, with a packets accepted.                     *)
(***************************************************************************)
(* Before a step.                                                          *)
TransferNow(t, c, a, d) ==
  /\ TypeOK /\ Transfer(t, c, a, d)
  /\ t \in 0 .. NumPackets + 1 /\ c \in 0 .. NumPackets + 1
  /\ a \in 0 .. NumPackets + 1 /\ d \in 0 .. NumPackets + 1

(* The counts are in order, and the variables have their types.            *)
LEMMA TransferCounts ==
  ASSUME NEW t, NEW c, NEW a, NEW d, TransferNow(t, c, a, d)
  PROVE  /\ t \in Nat /\ c \in Nat /\ a \in Nat /\ d \in Nat
         /\ Len(taken) \in Nat /\ nextSubmit \in 0 .. NumPackets + 1
         /\ Len(taken) <= d /\ d <= a /\ a <= c /\ c <= t /\ t <= nextSubmit
         /\ inputPackets_ \in Seq(Packets) /\ dataChannel \in Seq(Packets)
         /\ rs \in RS!Buffers /\ rs.shadowBuffer_ \in Seq(Packets)
         /\ outputPackets_ \in Seq(Packets) /\ taken \in Seq(Packets)
         /\ rxAckQueue \in Seq(SequenceNumbers)
         /\ ackChannel \in Seq(SequenceNumbers)
         /\ txAckQueue \in Seq(SequenceNumbers)
         /\ TransmitterTypeOK /\ ReceiverTypeOK
         /\ InTransit(t, c) /\ AtReceiver(c, a, d) /\ AcksBefore(a)
<1>1. /\ TransmitterTypeOK /\ ReceiverTypeOK
      /\ dataChannel \in Seq(Packets) /\ ackChannel \in Seq(SequenceNumbers)
      /\ InTransit(t, c) /\ AtReceiver(c, a, d) /\ AcksBefore(a)
      /\ t \in Nat /\ c \in Nat /\ a \in Nat /\ d \in Nat
  BY ChannelCalls, TransferConstants DEF TransferNow, TypeOK, Transfer
<1>2. /\ nextSubmit \in 0 .. NumPackets + 1 /\ inputPackets_ \in Seq(Packets)
      /\ txAckQueue \in Seq(SequenceNumbers)
  BY <1>1 DEF TransmitterTypeOK
<1>3. /\ rs \in RS!Buffers /\ outputPackets_ \in Seq(Packets)
      /\ taken \in Seq(Packets) /\ rxAckQueue \in Seq(SequenceNumbers)
  BY <1>1 DEF ReceiverTypeOK
<1>4. rs.shadowBuffer_ \in Seq(Packets) /\ Len(taken) \in Nat
  BY <1>3, ResequencingCalls
<1>5. t <= nextSubmit /\ c <= t
  <2>1. Consecutive(inputPackets_, t, nextSubmit) /\ c <= t
    BY <1>1 DEF InTransit, Ascending
  <2>2. t \in Int /\ nextSubmit \in Int
    BY <1>1, <1>2
  <2> QED
    BY <1>2, <2>1, <2>2, ConsecutiveInOrder
<1>6. Len(taken) <= d /\ d <= a /\ a <= c
  <2>1. /\ Consecutive(rs.shadowBuffer_, d, a)
        /\ Consecutive(outputPackets_, Len(taken), d)
        /\ a <= c
    BY <1>1 DEF AtReceiver
  <2>2. a \in Int /\ d \in Int /\ Len(taken) \in Int
    BY <1>1, <1>4
  <2>3. d <= a /\ Len(taken) <= d
    BY <1>3, <1>4, <2>1, <2>2, ConsecutiveInOrder
  <2> QED
    BY <1>1, <2>1, <2>3
<1> QED
  BY <1>1, <1>2, <1>3, <1>4, <1>5, <1>6

(* After a step: a packets have been accepted, and everything is in its    *)
(* place.                                                                  *)
TransferAfter(a) ==
  /\ TypeOK'
  /\ \E t, c, d \in 0 .. NumPackets + 1 : Transfer(t, c, a, d)'

(* A step of the transmitter.                                              *)
LEMMA SenderKeeps ==
  ASSUME NEW t, NEW c, NEW a, NEW d, TransferNow(t, c, a, d), UNCHANGED rxVars,
         TransmitterTypeOK',
         dataChannel' \in Seq(Packets), ackChannel' \in Seq(SequenceNumbers),
         NEW u \in 0 .. NumPackets + 1, InTransit(u, c)', AcksBefore(a)'
  PROVE  TransferAfter(a)
<1>1. ReceiverTypeOK' /\ AtReceiver(c, a, d)'
  BY TransferCounts DEF rxVars, ReceiverTypeOK, AtReceiver
<1>2. TypeOK'
  BY <1>1, ChannelCalls DEF TypeOK
<1>3. c \in 0 .. NumPackets + 1 /\ d \in 0 .. NumPackets + 1
  BY DEF TransferNow
<1>4. Transfer(u, c, a, d)'
  BY <1>1 DEF Transfer
<1> QED
  BY <1>2, <1>3, <1>4 DEF TransferAfter

(* A step of the receiver.                                                 *)
LEMMA ReceptionKeeps ==
  ASSUME NEW t, NEW c, NEW a, NEW d, TransferNow(t, c, a, d), UNCHANGED txVars,
         ReceiverTypeOK',
         dataChannel' \in Seq(Packets), ackChannel' \in Seq(SequenceNumbers),
         NEW c2 \in 0 .. NumPackets + 1, NEW a2 \in 0 .. NumPackets + 1,
         NEW d2 \in 0 .. NumPackets + 1, a <= a2,
         Ascending(dataChannel', c2, t), AtReceiver(c2, a2, d2)',
         AllBefore(rxAckQueue', a2), AllBefore(ackChannel', a2),
         AllBefore(txAckQueue, a2)
  PROVE  TransferAfter(a2)
<1>1. /\ TransmitterTypeOK' /\ Consecutive(inputPackets_', t, nextSubmit')
      /\ endOfTxSeqNum_' \in {None, NumPackets}
      /\ endOfTxAcked_' => a = NumPackets + 1
      /\ txAckQueue' = txAckQueue
  BY TransferCounts DEF txVars, TransmitterTypeOK, InTransit, AcksBefore
<1>2. t \in 0 .. NumPackets + 1 /\ a \in Int /\ a2 \in Int /\ a2 <= NumPackets + 1
  BY TransferCounts, TransferConstants DEF TransferNow
<1>3. AcksBefore(a2)'
  BY <1>1, <1>2, TransferConstants DEF AcksBefore
<1>4. TypeOK'
  BY <1>1, ChannelCalls DEF TypeOK
<1>5. Transfer(t, c2, a2, d2)'
  BY <1>1, <1>3 DEF Transfer, InTransit
<1> QED
  BY <1>2, <1>4, <1>5 DEF TransferAfter

(* The application submits a packet.                                       *)
LEMMA SubmitKeeps ==
  ASSUME NEW t, NEW c, NEW a, NEW d, TransferNow(t, c, a, d), sendPacket,
         UNCHANGED rxVars
  PROVE  TransferAfter(a)
<1>1. /\ nextSubmit \in Packets
      /\ inputPackets_' = Append(inputPackets_, nextSubmit)
      /\ nextSubmit' = nextSubmit + 1
      /\ UNCHANGED <<rt, endOfTxSeqNum_, endOfTxAcked_, txPc, txAckQueue,
                     txAckPc, dataChannel, ackChannel, rxAckQueue>>
  BY DEF sendPacket, txThreadVars, rxVars
<1>2. /\ inputPackets_' \in Seq(Packets)
      /\ Consecutive(inputPackets_', t, nextSubmit')
  <2>1. inputPackets_ \in Seq(Packets) /\ t \in Int
        /\ Consecutive(inputPackets_, t, nextSubmit)
    BY TransferCounts DEF InTransit
  <2> QED
    BY <1>1, <2>1, ConsecutiveAppend
<1>3. nextSubmit' \in 0 .. NumPackets + 1 /\ TransmitterTypeOK'
  <2>1. nextSubmit' \in 0 .. NumPackets + 1
    BY <1>1, TransferConstants DEF Packets
  <2> QED
    BY <1>1, <1>2, <2>1, TransferCounts DEF TransmitterTypeOK
<1>4. InTransit(t, c)' /\ AcksBefore(a)'
  BY <1>1, <1>2, TransferCounts DEF InTransit, AcksBefore
<1>5. /\ t \in 0 .. NumPackets + 1
      /\ dataChannel' \in Seq(Packets) /\ ackChannel' \in Seq(SequenceNumbers)
  BY <1>1, TransferCounts DEF TransferNow
<1> QED
  BY <1>3, <1>4, <1>5, SenderKeeps

(* transmitThread sends the first packet of the input buffer, or fails to. *)
LEMMA TransmitKeeps ==
  ASSUME NEW t, NEW c, NEW a, NEW d, TransferNow(t, c, a, d),
         attemptNewPacketTransmission, UNCHANGED rxVars
  PROVE  TransferAfter(a)
<1>1. /\ inputPackets_ # <<>> /\ inputPackets_' = Tail(inputPackets_)
      /\ endOfTxSeqNum_' = IF isEndOfTx(Head(inputPackets_))
                           THEN SeqNum(Head(inputPackets_)) ELSE endOfTxSeqNum_
      /\ dataChannel' \in {dataChannel, Append(dataChannel, Head(inputPackets_))}
      /\ rt' = rt /\ txPc' = "acks"
      /\ UNCHANGED <<nextSubmit, endOfTxAcked_, txAckQueue, txAckPc, ackChannel,
                     rxAckQueue>>
  BY RetransmissionCalls, ChannelCalls
     DEF attemptNewPacketTransmission, transmitPacketData, rxVars
<1>2. /\ Consecutive(inputPackets_, t, nextSubmit) /\ inputPackets_ \in Seq(Packets)
      /\ Ascending(dataChannel, c, t) /\ dataChannel \in Seq(Packets)
      /\ t \in Int /\ c \in Int /\ nextSubmit \in Int
  BY TransferCounts DEF InTransit
<1>3. /\ Head(inputPackets_) = t /\ t \in Packets /\ t < nextSubmit
      /\ inputPackets_' \in Seq(Packets)
      /\ Consecutive(inputPackets_', t + 1, nextSubmit)
  BY <1>1, <1>2, ConsecutiveTail
<1>4. dataChannel' \in Seq(Packets) /\ Ascending(dataChannel', c, t + 1)
  <2>1. /\ Ascending(dataChannel, c, t + 1)
        /\ Append(dataChannel, t) \in Seq(Packets)
        /\ Ascending(Append(dataChannel, t), c, t + 1)
    BY <1>2, <1>3, AscendingAppend
  <2>2. dataChannel' = dataChannel \/ dataChannel' = Append(dataChannel, t)
    BY <1>1, <1>3
  <2> QED
    BY <1>2, <2>1, <2>2
<1>5. t + 1 \in 0 .. NumPackets + 1 /\ InTransit(t + 1, c)'
  BY <1>1, <1>3, <1>4, TransferConstants DEF InTransit, Packets
<1>6. endOfTxSeqNum_' \in {None, NumPackets}
  <2>1. isEndOfTx(t) => SeqNum(t) = NumPackets
    BY <1>3, NumberIsPosition DEF isEndOfTx, Packets
  <2> QED
    BY <1>1, <1>3, <2>1, TransferCounts DEF AcksBefore
<1>7. TransmitterTypeOK'
  <2>1. NumPackets \in SequenceNumbers
    BY TransferConstants DEF SequenceNumbers
  <2> QED
    BY <1>1, <1>3, <1>6, <2>1, TransferCounts DEF TransmitterTypeOK
<1>8. AcksBefore(a)' /\ ackChannel' \in Seq(SequenceNumbers)
  BY <1>1, <1>6, TransferCounts DEF AcksBefore
<1> QED
  BY <1>4, <1>5, <1>7, <1>8, SenderKeeps

(* It reads the first acknowledgement of its queue: if that is the EoT's,  *)
(* everything has been accepted.                                           *)
LEMMA ProcessAckKeeps ==
  ASSUME NEW t, NEW c, NEW a, NEW d, TransferNow(t, c, a, d), processAckQueue,
         UNCHANGED rxVars
  PROVE  TransferAfter(a) /\ (endOfTxAcked_' => a = NumPackets + 1)
<1>1. PICK eot : eot = acksEndOfTx(Head(txAckQueue))
  OBVIOUS
<1>2. /\ txAckQueue # <<>> /\ txAckQueue' = Tail(txAckQueue)
      /\ endOfTxAcked_' = (endOfTxAcked_ \/ eot)
      /\ rt' = rt /\ txPc' \in {"exited", "acks"}
      /\ UNCHANGED <<nextSubmit, inputPackets_, endOfTxSeqNum_, txAckPc,
                     dataChannel, ackChannel, rxAckQueue>>
  BY <1>1, RetransmissionCalls DEF processAckQueue, rxVars
<1>3. /\ txAckQueue \in Seq(SequenceNumbers) /\ AllBefore(txAckQueue, a)
      /\ endOfTxSeqNum_ \in {None, NumPackets} /\ a \in Int
      /\ endOfTxAcked_ => a = NumPackets + 1
      /\ endOfTxAcked_ \in BOOLEAN
  BY TransferCounts DEF AcksBefore, TransmitterTypeOK
<1>4. /\ Head(txAckQueue) \in SequenceNumbers /\ Head(txAckQueue) < a
      /\ txAckQueue' \in Seq(SequenceNumbers) /\ AllBefore(txAckQueue', a)
  BY <1>2, <1>3, AcksStayBefore
<1>5. eot => a = NumPackets + 1
  <2>1. eot => Head(txAckQueue) = NumPackets
    BY <1>1, <1>3, <1>4, TransferConstants DEF acksEndOfTx
  <2>2. a \in 0 .. NumPackets + 1
    BY DEF TransferNow
  <2> QED
    BY <1>4, <2>1, <2>2, TransferConstants
<1>6. endOfTxAcked_' => a = NumPackets + 1
  BY <1>2, <1>3, <1>5
<1>7. endOfTxAcked_' \in BOOLEAN
  BY <1>1, <1>2, <1>3 DEF acksEndOfTx
<1>8. TransmitterTypeOK'
  BY <1>2, <1>4, <1>7, TransferCounts DEF TransmitterTypeOK
<1>9. AcksBefore(a)' /\ InTransit(t, c)'
  BY <1>2, <1>4, <1>6, TransferCounts DEF AcksBefore, InTransit
<1>10. /\ t \in 0 .. NumPackets + 1
       /\ dataChannel' \in Seq(Packets) /\ ackChannel' \in Seq(SequenceNumbers)
  BY <1>2, TransferCounts DEF TransferNow
<1> QED
  BY <1>6, <1>8, <1>9, <1>10, SenderKeeps

(* ackThread takes the first acknowledgement of the channel.               *)
LEMMA ReceiveAckKeeps ==
  ASSUME NEW t, NEW c, NEW a, NEW d, TransferNow(t, c, a, d),
         NEW sn \in SequenceNumbers, receiveAck(sn), UNCHANGED rxVars
  PROVE  TransferAfter(a)
<1>1. /\ ackChannel # <<>> /\ sn = Head(ackChannel)
      /\ ackChannel' = Tail(ackChannel)
      /\ txAckQueue' = Append(txAckQueue, sn) /\ txAckPc' = "loop"
      /\ UNCHANGED <<nextSubmit, inputPackets_, rt, endOfTxSeqNum_,
                     endOfTxAcked_, txPc, dataChannel, rxAckQueue>>
  BY ChannelCalls DEF receiveAck, txThreadVars, rxVars
<1>2. /\ txAckQueue \in Seq(SequenceNumbers) /\ AllBefore(txAckQueue, a)
      /\ ackChannel \in Seq(SequenceNumbers) /\ AllBefore(ackChannel, a)
      /\ a \in Int
  BY TransferCounts DEF AcksBefore
<1>3. /\ sn < a
      /\ ackChannel' \in Seq(SequenceNumbers) /\ AllBefore(ackChannel', a)
  BY <1>1, <1>2, AcksStayBefore
<1>4. txAckQueue' \in Seq(SequenceNumbers) /\ AllBefore(txAckQueue', a)
  BY <1>1, <1>2, <1>3, AcksStayBefore
<1>5. TransmitterTypeOK'
  BY <1>1, <1>4, TransferCounts DEF TransmitterTypeOK
<1>6. AcksBefore(a)' /\ InTransit(t, c)'
  BY <1>1, <1>3, <1>4, TransferCounts DEF AcksBefore, InTransit
<1>7. t \in 0 .. NumPackets + 1 /\ dataChannel' \in Seq(Packets)
  BY <1>1, TransferCounts DEF TransferNow
<1> QED
  BY <1>3, <1>5, <1>6, <1>7, SenderKeeps

(* What moves no packet and no acknowledgement.                            *)
LEMMA SenderIdleKeeps ==
  ASSUME NEW t, NEW c, NEW a, NEW d, TransferNow(t, c, a, d), UNCHANGED rxVars,
         UNCHANGED <<nextSubmit, inputPackets_, rt, endOfTxSeqNum_, endOfTxAcked_,
                     txAckQueue, dataChannel, ackChannel>>,
         txPc' \in {"send", "acks", "exited", "terminated"},
         txAckPc' \in {"loop", "recv", "exited"}
  PROVE  TransferAfter(a)
<1>1. TransmitterTypeOK'
  BY TransferCounts DEF TransmitterTypeOK
<1>2. rxAckQueue' = rxAckQueue
  BY DEF rxVars
<1>3. AcksBefore(a)' /\ InTransit(t, c)'
  BY <1>2, TransferCounts DEF AcksBefore, InTransit
<1>4. /\ t \in 0 .. NumPackets + 1
      /\ dataChannel' \in Seq(Packets) /\ ackChannel' \in Seq(SequenceNumbers)
  BY TransferCounts DEF TransferNow
<1> QED
  BY <1>1, <1>3, <1>4, SenderKeeps

(* Every step of the transmitter's threads and application.                *)
LEMMA SenderStepKeeps ==
  ASSUME NEW t, NEW c, NEW a, NEW d, TransferNow(t, c, a, d), UNCHANGED rxVars,
         NEW gone, sendPacket \/ transmitThread \/ TxAckThread(gone)
  PROVE  TransferAfter(a)
<1> DEFINE Idle == UNCHANGED <<nextSubmit, inputPackets_, rt, endOfTxSeqNum_,
                               endOfTxAcked_, txAckQueue, dataChannel, ackChannel>>
<1>1. /\ txPc \in {"send", "acks", "exited", "terminated"}
      /\ txAckPc \in {"loop", "recv", "exited"}
  BY TransferCounts DEF TransmitterTypeOK
<1>2. CASE sendPacket
  BY <1>2, SubmitKeeps
<1>3. CASE transmitThread
  <2>1. ASSUME NEW timedOut
        PROVE  ~ attemptPacketRetransmission(timedOut)
    BY RetransmissionCalls DEF attemptPacketRetransmission
  <2>2. CASE nothingToTransmit \/ ackQueueProcessed
    <3>1. Idle /\ txPc' \in {"send", "acks"} /\ txAckPc' = txAckPc
      BY <2>2 DEF nothingToTransmit, ackQueueProcessed
    <3> QED
      BY <1>1, <3>1, SenderIdleKeeps
  <2> QED
    BY <1>3, <2>1, <2>2, TransmitKeeps, ProcessAckKeeps DEF transmitThread
<1>4. CASE TxAckThread(gone)
  <2>1. CASE ackThreadLoop \/ receiveNoAck(gone)
    <3>1. Idle /\ txPc' = txPc /\ txAckPc' \in {"loop", "recv", "exited"}
      BY <2>1 DEF ackThreadLoop, receiveNoAck, txThreadVars
    <3> QED
      BY <1>1, <3>1, SenderIdleKeeps
  <2> QED
    BY <1>4, <2>1, ReceiveAckKeeps DEF TxAckThread
<1> QED
  BY <1>2, <1>3, <1>4

(* resequencingThread takes the first packet of the channel.               *)
LEMMA ReceivePacketKeeps ==
  ASSUME NEW t, NEW c, NEW a, NEW d, TransferNow(t, c, a, d),
         NEW p \in Packets, receivePacket(p), UNCHANGED txVars
  PROVE  TransferAfter(a)
<1>1. /\ rxPc = "recv" /\ rxPc' = "add" /\ received' = p
      /\ dataChannel # <<>> /\ p = Head(dataChannel)
      /\ dataChannel' = Tail(dataChannel)
      /\ endOfTxSn_' = IF isEndOfTx(p) THEN SeqNum(p) ELSE endOfTxSn_
      /\ UNCHANGED <<rs, ackedEndOfTx_, rxAckQueue, nextSequenceNumber_,
                     outputPackets_, taken, rxAckPc, nextToAck, ackChannel>>
  BY ChannelCalls DEF receivePacket
<1>2. /\ dataChannel \in Seq(Packets) /\ Ascending(dataChannel, c, t)
      /\ c \in Int /\ t \in Int /\ a \in Nat /\ a <= c
  BY TransferCounts DEF InTransit
<1>3. /\ c <= p /\ p < t
      /\ dataChannel' \in Seq(Packets) /\ Ascending(dataChannel', p + 1, t)
  BY <1>1, <1>2, AscendingTail
<1>4. p \in 0 .. NumPackets /\ p + 1 \in 0 .. NumPackets + 1
  BY TransferConstants DEF Packets
<1>5. AtReceiver(p + 1, a, d)'
  <2>1. a <= p + 1 /\ received' \in a .. p + 1 - 1
    BY <1>1, <1>2, <1>3, <1>4
  <2>2. /\ rs'.nextSequenceNumber_ = SeqNum(a)
        /\ Consecutive(rs'.shadowBuffer_, d, a)
        /\ nextSequenceNumber_' = SeqNum(d)
        /\ Consecutive(outputPackets_', Len(taken'), d)
        /\ Consecutive(taken', 0, Len(taken'))
    BY <1>1, TransferCounts DEF AtReceiver
  <2> QED
    BY <1>1, <2>1, <2>2 DEF AtReceiver
<1>6. ReceiverTypeOK'
  <2>1. SeqNum(p) \in SequenceNumbers
    BY <1>4, NumberIsPosition
  <2> QED
    BY <1>1, <2>1, TransferCounts DEF ReceiverTypeOK
<1>7. /\ AllBefore(rxAckQueue', a) /\ AllBefore(ackChannel', a)
      /\ AllBefore(txAckQueue, a) /\ ackChannel' \in Seq(SequenceNumbers)
      /\ a <= a /\ a \in 0 .. NumPackets + 1 /\ d \in 0 .. NumPackets + 1
  BY <1>1, TransferCounts DEF AcksBefore, TransferNow
<1> QED
  BY <1>3, <1>4, <1>5, <1>6, <1>7, ReceptionKeeps

(* It accepts and acknowledges the packet it has taken, if that is the     *)
(* next one,                                                               *)
LEMMA AcceptKeeps ==
  ASSUME NEW t, NEW c, NEW a, NEW d, TransferNow(t, c, a, d),
         resequencePacket, received = a, UNCHANGED txVars
  PROVE  a < nextSubmit /\ TransferAfter(a + 1)
<1>1. PICK result : result = RS!addPacket(rs, received)
  OBVIOUS
<1>2. /\ rxPc = "add" /\ rxPc' = "deliver" /\ received' = None
      /\ rs' = result.rs
      /\ result.ack # None => rxAckQueue' = Append(rxAckQueue, result.ack)
      /\ UNCHANGED <<endOfTxSn_, ackedEndOfTx_, nextSequenceNumber_,
                     outputPackets_, taken, rxAckPc, nextToAck,
                     dataChannel, ackChannel>>
  BY <1>1 DEF resequencePacket
<1>3. /\ a \in a .. c - 1 /\ rs \in RS!Buffers
      /\ rs.nextSequenceNumber_ = SeqNum(a) /\ Consecutive(rs.shadowBuffer_, d, a)
      /\ d \in Int /\ a \in Int /\ c \in Int
  BY <1>2, TransferCounts DEF AtReceiver
<1>4. /\ a \in 0 .. NumPackets /\ a < nextSubmit
      /\ a + 1 \in 0 .. NumPackets + 1 /\ a + 1 <= c
  BY <1>3, TransferCounts, TransferConstants
<1>5. /\ result.rs \in RS!Buffers
      /\ result.rs.nextSequenceNumber_ = SeqNum(a + 1)
      /\ Consecutive(result.rs.shadowBuffer_, d, a + 1)
      /\ result.ack = a
  BY <1>1, <1>3, <1>4, AcceptsNext
<1>6. a \in SequenceNumbers /\ a # None
  BY <1>4, NumberIsPosition, TransferConstants
<1>7. /\ rxAckQueue' \in Seq(SequenceNumbers)
      /\ AllBefore(rxAckQueue', a + 1) /\ AllBefore(ackChannel, a + 1)
      /\ AllBefore(txAckQueue, a + 1)
  <2>1. /\ rxAckQueue \in Seq(SequenceNumbers) /\ AllBefore(rxAckQueue, a)
        /\ ackChannel \in Seq(SequenceNumbers) /\ AllBefore(ackChannel, a)
        /\ txAckQueue \in Seq(SequenceNumbers) /\ AllBefore(txAckQueue, a)
    BY TransferCounts DEF AcksBefore
  <2>2. /\ AllBefore(rxAckQueue, a + 1) /\ AllBefore(ackChannel, a + 1)
        /\ AllBefore(txAckQueue, a + 1)
    BY <1>3, <2>1, AcksStayBefore
  <2>3. rxAckQueue' = Append(rxAckQueue, a) /\ a + 1 \in Int /\ a < a + 1
    BY <1>2, <1>3, <1>5, <1>6
  <2>4. rxAckQueue' \in Seq(SequenceNumbers) /\ AllBefore(rxAckQueue', a + 1)
    BY <1>6, <2>1, <2>2, <2>3, AcksStayBefore
  <2> QED
    BY <2>2, <2>4
<1>8. ReceiverTypeOK'
  BY <1>2, <1>5, <1>7, TransferCounts DEF ReceiverTypeOK
<1>9. AtReceiver(c, a + 1, d)'
  <2>1. /\ nextSequenceNumber_' = SeqNum(d)
        /\ Consecutive(outputPackets_', Len(taken'), d)
        /\ Consecutive(taken', 0, Len(taken'))
    BY <1>2, TransferCounts DEF AtReceiver
  <2> QED
    BY <1>2, <1>4, <1>5, <2>1 DEF AtReceiver
<1>10. /\ dataChannel' \in Seq(Packets) /\ ackChannel' \in Seq(SequenceNumbers)
       /\ Ascending(dataChannel', c, t) /\ AllBefore(ackChannel', a + 1)
       /\ a <= a + 1 /\ d \in 0 .. NumPackets + 1 /\ c \in 0 .. NumPackets + 1
  BY <1>2, <1>3, <1>7, TransferCounts DEF TransferNow, InTransit
<1> QED
  BY <1>4, <1>7, <1>8, <1>9, <1>10, ReceptionKeeps

(* and otherwise drops it: one before it has not been sent.                *)
LEMMA RejectKeeps ==
  ASSUME NEW t, NEW c, NEW a, NEW d, TransferNow(t, c, a, d),
         resequencePacket, received # a, UNCHANGED txVars
  PROVE  TransferAfter(a)
<1>1. PICK result : result = RS!addPacket(rs, received)
  OBVIOUS
<1>2. /\ rxPc = "add" /\ rxPc' = "deliver" /\ received' = None
      /\ rs' = result.rs
      /\ result.ack = None => rxAckQueue' = rxAckQueue
      /\ UNCHANGED <<endOfTxSn_, ackedEndOfTx_, nextSequenceNumber_,
                     outputPackets_, taken, rxAckPc, nextToAck,
                     dataChannel, ackChannel>>
  BY <1>1 DEF resequencePacket
<1>3. /\ received \in a .. c - 1 /\ rs.nextSequenceNumber_ = SeqNum(a)
      /\ a \in Nat /\ c \in 0 .. NumPackets + 1
  BY <1>2, TransferCounts DEF AtReceiver, TransferNow
<1>4. received \in 0 .. NumPackets /\ a \in 0 .. NumPackets
  BY <1>3, TransferConstants
<1>5. SeqNum(received) # rs.nextSequenceNumber_
  BY <1>3, <1>4, NumberIsPosition
<1>6. rs' = rs /\ rxAckQueue' = rxAckQueue
  <2>1. result = [rs |-> rs, ack |-> None]
    BY <1>1, <1>5, ResequencingCalls, Zenon
  <2> QED
    BY <1>2, <2>1
<1>7. ReceiverTypeOK'
  BY <1>2, <1>6, TransferCounts DEF ReceiverTypeOK
<1>8. AtReceiver(c, a, d)'
  BY <1>2, <1>6, TransferCounts DEF AtReceiver
<1>9. /\ dataChannel' \in Seq(Packets) /\ ackChannel' \in Seq(SequenceNumbers)
      /\ Ascending(dataChannel', c, t)
      /\ AllBefore(rxAckQueue', a) /\ AllBefore(ackChannel', a)
      /\ AllBefore(txAckQueue, a) /\ a <= a
      /\ c \in 0 .. NumPackets + 1 /\ a \in 0 .. NumPackets + 1
      /\ d \in 0 .. NumPackets + 1
  BY <1>2, <1>6, TransferCounts DEF TransferNow, InTransit, AcksBefore
<1> QED
  BY <1>7, <1>8, <1>9, ReceptionKeeps

(* It delivers the first packet that waits to the output buffer.           *)
LEMMA DeliverKeeps ==
  ASSUME NEW t, NEW c, NEW a, NEW d, TransferNow(t, c, a, d), deliverPacket,
         UNCHANGED txVars
  PROVE  TransferAfter(a)
<1>1. PICK result : result = RS!getNextPacket(rs)
  OBVIOUS
<1>2. /\ rxPc = "deliver" /\ result.packet # None /\ rs' = result.rs
      /\ inOutputSequence(result.packet) =>
           /\ nextSequenceNumber_' = (nextSequenceNumber_ + 1) % SeqNumModulus
           /\ outputPackets_' = Append(outputPackets_, result.packet)
      /\ UNCHANGED <<received, endOfTxSn_, ackedEndOfTx_, rxAckQueue, taken,
                     rxPc, rxAckPc, nextToAck, dataChannel, ackChannel>>
  BY <1>1 DEF deliverPacket
<1>3. /\ received = None /\ a <= c /\ rs \in RS!Buffers
      /\ rs.nextSequenceNumber_ = SeqNum(a) /\ Consecutive(rs.shadowBuffer_, d, a)
      /\ nextSequenceNumber_ = SeqNum(d)
      /\ Consecutive(outputPackets_, Len(taken), d) /\ outputPackets_ \in Seq(Packets)
      /\ Consecutive(taken, 0, Len(taken))
      /\ d \in Nat /\ d \in Int /\ a \in Int /\ Len(taken) \in Int
  BY <1>2, TransferCounts DEF AtReceiver
<1>4. /\ result.packet = d /\ d \in Packets /\ d < a
      /\ result.rs \in RS!Buffers
      /\ result.rs.nextSequenceNumber_ = SeqNum(a)
      /\ Consecutive(result.rs.shadowBuffer_, d + 1, a)
  BY <1>1, <1>2, <1>3, PassesOnNext
<1>5. inOutputSequence(d)
  BY <1>3 DEF inOutputSequence
<1>6. /\ nextSequenceNumber_' = SeqNum(d + 1) /\ SeqNum(d + 1) \in SequenceNumbers
      /\ outputPackets_' = Append(outputPackets_, d)
  BY <1>2, <1>3, <1>4, <1>5, CountsOn
<1>7. /\ outputPackets_' \in Seq(Packets)
      /\ Consecutive(outputPackets_', Len(taken), d + 1)
  BY <1>3, <1>4, <1>6, ConsecutiveAppend
<1>8. AtReceiver(c, a, d + 1)'
  BY <1>2, <1>3, <1>4, <1>6, <1>7 DEF AtReceiver
<1>9. ReceiverTypeOK'
  BY <1>2, <1>4, <1>6, <1>7, TransferCounts DEF ReceiverTypeOK
<1>10. /\ dataChannel' \in Seq(Packets) /\ ackChannel' \in Seq(SequenceNumbers)
       /\ Ascending(dataChannel', c, t)
       /\ AllBefore(rxAckQueue', a) /\ AllBefore(ackChannel', a)
       /\ AllBefore(txAckQueue, a)
       /\ a <= a /\ a \in 0 .. NumPackets + 1 /\ c \in 0 .. NumPackets + 1
  BY <1>2, <1>3, TransferCounts DEF TransferNow, InTransit, AcksBefore
<1>11. d + 1 \in 0 .. NumPackets + 1
  BY <1>4, TransferConstants DEF Packets
<1> QED
  BY <1>8, <1>9, <1>10, <1>11, ReceptionKeeps

(* ackThread sends the first acknowledgement of its queue, or fails to.    *)
LEMMA SendAckKeeps ==
  ASSUME NEW t, NEW c, NEW a, NEW d, TransferNow(t, c, a, d), sendAck,
         UNCHANGED txVars
  PROVE  TransferAfter(a)
<1>1. /\ rxAckQueue # <<>> /\ rxAckQueue' = Tail(rxAckQueue)
      /\ nextToAck' = Head(rxAckQueue)
      /\ ackChannel' \in {ackChannel, Append(ackChannel, Head(rxAckQueue))}
      /\ rxAckPc' = "check"
      /\ UNCHANGED <<rs, received, endOfTxSn_, ackedEndOfTx_,
                     nextSequenceNumber_, outputPackets_, taken, rxPc, dataChannel>>
  BY ChannelCalls DEF sendAck
<1>2. /\ rxAckQueue \in Seq(SequenceNumbers) /\ AllBefore(rxAckQueue, a)
      /\ ackChannel \in Seq(SequenceNumbers) /\ AllBefore(ackChannel, a)
      /\ a \in Int
  BY TransferCounts DEF AcksBefore
<1>3. /\ Head(rxAckQueue) \in SequenceNumbers /\ Head(rxAckQueue) < a
      /\ rxAckQueue' \in Seq(SequenceNumbers) /\ AllBefore(rxAckQueue', a)
  BY <1>1, <1>2, AcksStayBefore
<1>4. ackChannel' \in Seq(SequenceNumbers) /\ AllBefore(ackChannel', a)
  BY <1>1, <1>2, <1>3, AcksStayBefore
<1>5. ReceiverTypeOK'
  BY <1>1, <1>3, TransferCounts DEF ReceiverTypeOK
<1>6. AtReceiver(c, a, d)'
  BY <1>1, TransferCounts DEF AtReceiver
<1>7. /\ dataChannel' \in Seq(Packets) /\ Ascending(dataChannel', c, t)
      /\ AllBefore(txAckQueue, a) /\ a <= a
      /\ c \in 0 .. NumPackets + 1 /\ a \in 0 .. NumPackets + 1
      /\ d \in 0 .. NumPackets + 1
  BY <1>1, TransferCounts DEF TransferNow, InTransit, AcksBefore
<1> QED
  BY <1>3, <1>4, <1>5, <1>6, <1>7, ReceptionKeeps

(* The application takes the first packet of the output buffer, which is   *)
(* the next one.                                                           *)
LEMMA TakeKeeps ==
  ASSUME NEW t, NEW c, NEW a, NEW d, TransferNow(t, c, a, d), tryGetPacket,
         UNCHANGED txVars
  PROVE  /\ Len(taken) < a /\ taken' = Append(taken, Len(taken))
         /\ TransferAfter(a)
<1>1. /\ outputPackets_ # <<>> /\ outputPackets_' = Tail(outputPackets_)
      /\ taken' = Append(taken, Head(outputPackets_))
      /\ UNCHANGED <<rs, received, endOfTxSn_, ackedEndOfTx_, rxAckQueue,
                     nextSequenceNumber_, rxPc, rxAckPc, nextToAck,
                     dataChannel, ackChannel>>
  BY DEF tryGetPacket
<1>2. /\ outputPackets_ \in Seq(Packets) /\ taken \in Seq(Packets)
      /\ Consecutive(outputPackets_, Len(taken), d)
      /\ Consecutive(taken, 0, Len(taken))
      /\ d \in Int /\ Len(taken) \in Int /\ 0 \in Int
  BY TransferCounts DEF AtReceiver
<1>3. /\ Head(outputPackets_) = Len(taken) /\ Len(taken) \in Packets
      /\ Len(taken) < d
      /\ outputPackets_' \in Seq(Packets)
      /\ Consecutive(outputPackets_', Len(taken) + 1, d)
  BY <1>1, <1>2, ConsecutiveTail
<1>4. taken' \in Seq(Packets) /\ Consecutive(taken', 0, Len(taken) + 1)
  BY <1>1, <1>2, <1>3, ConsecutiveAppend
<1>5. Len(taken') = Len(taken) + 1
  BY <1>1, <1>2, <1>3
<1>6. ReceiverTypeOK'
  BY <1>1, <1>3, <1>4, TransferCounts DEF ReceiverTypeOK
<1>7. AtReceiver(c, a, d)'
  BY <1>1, <1>3, <1>4, <1>5, TransferCounts DEF AtReceiver
<1>8. /\ dataChannel' \in Seq(Packets) /\ ackChannel' \in Seq(SequenceNumbers)
      /\ Ascending(dataChannel', c, t)
      /\ AllBefore(rxAckQueue', a) /\ AllBefore(ackChannel', a)
      /\ AllBefore(txAckQueue, a) /\ a <= a
      /\ c \in 0 .. NumPackets + 1 /\ a \in 0 .. NumPackets + 1
      /\ d \in 0 .. NumPackets + 1
  BY <1>1, TransferCounts DEF TransferNow, InTransit, AcksBefore
<1>9. TransferAfter(a)
  BY <1>6, <1>7, <1>8, ReceptionKeeps
<1> QED
  BY <1>1, <1>3, <1>9, TransferCounts

(* What moves no packet and no acknowledgement.                            *)
LEMMA ReceptionIdleKeeps ==
  ASSUME NEW t, NEW c, NEW a, NEW d, TransferNow(t, c, a, d), UNCHANGED txVars,
         UNCHANGED <<rs, received, endOfTxSn_, rxAckQueue, nextSequenceNumber_,
                     outputPackets_, taken, dataChannel, ackChannel>>,
         rxPc' \in {"loop", "recv", "add", "deliver", "exited"},
         (rxPc' = "add") <=> (rxPc = "add"),
         rxAckPc' \in {"pop", "check", "exited"}, ackedEndOfTx_' \in BOOLEAN,
         nextToAck' \in {nextToAck, None}
  PROVE  TransferAfter(a)
<1>1. ReceiverTypeOK'
  BY TransferCounts DEF ReceiverTypeOK
<1>2. AtReceiver(c, a, d)'
  BY TransferCounts DEF AtReceiver
<1>3. /\ dataChannel' \in Seq(Packets) /\ ackChannel' \in Seq(SequenceNumbers)
      /\ Ascending(dataChannel', c, t)
      /\ AllBefore(rxAckQueue', a) /\ AllBefore(ackChannel', a)
      /\ AllBefore(txAckQueue, a) /\ a <= a
      /\ c \in 0 .. NumPackets + 1 /\ a \in 0 .. NumPackets + 1
      /\ d \in 0 .. NumPackets + 1
  BY TransferCounts DEF TransferNow, InTransit, AcksBefore
<1> QED
  BY <1>1, <1>2, <1>3, ReceptionKeeps

(* Every step of the receiver's threads and application: only one of them  *)
(* accepts a packet.                                                       *)
LEMMA ReceptionStepKeeps ==
  ASSUME NEW t, NEW c, NEW a, NEW d, TransferNow(t, c, a, d), UNCHANGED txVars,
         NEW gone,
         resequencingThread(gone) \/ RxAckThread \/ tryGetPacket
  PROVE  \/ TransferAfter(a)
         \/ a < nextSubmit /\ resequencePacket /\ TransferAfter(a + 1)
<1> DEFINE Idle == UNCHANGED <<rs, received, endOfTxSn_, rxAckQueue,
                               nextSequenceNumber_, outputPackets_, taken,
                               dataChannel, ackChannel>>
<1>1. /\ rxPc \in {"loop", "recv", "add", "deliver", "exited"}
      /\ rxAckPc \in {"pop", "check", "exited"} /\ ackedEndOfTx_ \in BOOLEAN
  BY TransferCounts DEF ReceiverTypeOK
<1>2. CASE resequencingThread(gone)
  <2>1. CASE resequencingLoop \/ receiveNoPacket(gone) \/ nothingToDeliver
    <3>1. /\ Idle /\ rxPc' \in {"loop", "recv", "deliver", "exited"}
          /\ rxPc # "add" /\ UNCHANGED <<rxAckPc, ackedEndOfTx_, nextToAck>>
      BY <2>1 DEF resequencingLoop, receiveNoPacket, nothingToDeliver
    <3> QED
      BY <1>1, <3>1, ReceptionIdleKeeps
  <2> QED
    BY <1>2, <2>1, ReceivePacketKeeps, AcceptKeeps, RejectKeeps, DeliverKeeps
       DEF resequencingThread
<1>3. CASE RxAckThread
  <2>1. CASE checkEndOfTx
    <3>1. /\ Idle /\ rxPc' = rxPc /\ rxAckPc' \in {"exited", "pop"}
          /\ ackedEndOfTx_' \in BOOLEAN /\ nextToAck' = None
      BY <2>1 DEF checkEndOfTx, sentLastAck
    <3> QED
      BY <1>1, <3>1, ReceptionIdleKeeps
  <2> QED
    BY <1>3, <2>1, SendAckKeeps DEF RxAckThread
<1>4. CASE tryGetPacket
  BY <1>4, TakeKeeps
<1> QED
  BY <1>2, <1>3, <1>4

(***************************************************************************)
(* The transfer over SCTP.                                                 *)
(***************************************************************************)
(* A step in which the transfer stands still.                              *)
LEMMA StandsStill ==
  ASSUME NEW t, NEW c, NEW a, NEW d, TransferNow(t, c, a, d), UNCHANGED vars
  PROVE  TransferAfter(a)
<1>1. /\ UNCHANGED rxVars
      /\ UNCHANGED <<nextSubmit, inputPackets_, rt, endOfTxSeqNum_, endOfTxAcked_,
                     txAckQueue, txPc, txAckPc, dataChannel, ackChannel>>
  BY DEF vars, txVars
<1>2. /\ txPc \in {"send", "acks", "exited", "terminated"}
      /\ txAckPc \in {"loop", "recv", "exited"}
  BY TransferCounts DEF TransmitterTypeOK
<1> QED
  BY <1>1, <1>2, SenderIdleKeeps

(* What a step of the launcher is to the transfer.                         *)
LEMMA LauncherSteps ==
  ASSUME [LauncherNext]_launcherVars
  PROVE  \/ UNCHANGED vars
         \/ /\ UNCHANGED rxVars
            /\ sendPacket \/ transmitThread \/ TxAckThread(receiverGone)
         \/ /\ UNCHANGED txVars
            /\ \/ resequencingThread(transmitterGone)
               \/ RxAckThread
               \/ tryGetPacket
BY DEF LauncherNext, launchTransmitter, launchReceiver, launcherVars, setUp, end,
       submitPackets, transmitPackets, receiveAcks, receivePackets, sendAcks,
       takePackets

(* It keeps everything in its place, and accepts one packet at most.       *)
LEMMA LauncherStepKeeps ==
  ASSUME NEW t, NEW c, NEW a, NEW d, TransferNow(t, c, a, d),
         [LauncherNext]_launcherVars
  PROVE  \/ TransferAfter(a)
         \/ /\ a < nextSubmit /\ resequencePacket /\ UNCHANGED txVars
            /\ TransferAfter(a + 1)
<1>1. CASE UNCHANGED vars
  BY <1>1, StandsStill
<1>2. CASE /\ UNCHANGED rxVars
           /\ sendPacket \/ transmitThread \/ TxAckThread(receiverGone)
  BY <1>2, SenderStepKeeps
<1>3. CASE /\ UNCHANGED txVars
           /\ \/ resequencingThread(transmitterGone)
              \/ RxAckThread
              \/ tryGetPacket
  BY <1>3, ReceptionStepKeeps
<1> QED
  BY <1>1, <1>2, <1>3, LauncherSteps

(* The places are those that the invariant speaks of.                      *)
LEMMA KeptIsNow ==
  TransferKept <=> \E t, c, a, d : TransferNow(t, c, a, d)
BY DEF TransferKept, TransferNow

(* Before the first step all places are empty.                             *)
LEMMA TransferStarts == LauncherInit => TransferKept
<1> SUFFICES ASSUME LauncherInit PROVE TransferKept
  OBVIOUS
<1> USE DEF LauncherInit, Init, TransmitterInit, ReceiverInit
<1>1. dataChannel = <<>> /\ ackChannel = <<>> /\ rt = <<>>
      /\ rs = [shadowBuffer_ |-> <<>>, nextSequenceNumber_ |-> 0]
  BY ChannelCalls, RetransmissionCalls, ResequencingCalls
<1>2. /\ <<>> \in Seq(Packets) /\ <<>> \in Seq(SequenceNumbers)
      /\ Consecutive(<<>>, 0, 0) /\ Ascending(<<>>, 0, 0)
      /\ \A a : AllBefore(<<>>, a)
      /\ 0 \in 0 .. NumPackets + 1
  BY TransferConstants DEF Consecutive, Ascending, AllBefore
<1>3. SeqNum(0) = 0 /\ 0 \in SequenceNumbers
  BY NumberIsPosition, TransferConstants
<1>4. /\ rs.shadowBuffer_ = <<>> /\ rs.nextSequenceNumber_ = 0
      /\ rs \in RS!Buffers /\ rt \in RT!Buffers
  BY <1>1, <1>2, <1>3, RetransmissionCalls, ResequencingCalls
<1>5. TypeOK
  <2>1. TransmitterTypeOK
    BY <1>2, <1>4 DEF TransmitterTypeOK
  <2>2. ReceiverTypeOK
    BY <1>2, <1>3, <1>4 DEF ReceiverTypeOK
  <2> QED
    BY <1>1, <1>2, <2>1, <2>2, ChannelCalls DEF TypeOK
<1>6. InTransit(0, 0)
  BY <1>1, <1>2 DEF InTransit
<1>7. AtReceiver(0, 0, 0)
  BY <1>2, <1>3, <1>4 DEF AtReceiver
<1>8. AcksBefore(0)
  BY <1>1, <1>2 DEF AcksBefore
<1> QED
  BY <1>2, <1>5, <1>6, <1>7, <1>8 DEF TransferKept, Transfer

(* Every step of the launcher keeps everything in its place.               *)
LEMMA TransferGoesOn ==
  TransferKept /\ [LauncherNext]_launcherVars => TransferKept'
<1> SUFFICES ASSUME TransferKept, [LauncherNext]_launcherVars
             PROVE  TransferKept'
  OBVIOUS
<1>1. PICK t, c, a, d : TransferNow(t, c, a, d)
  BY KeptIsNow
<1>2. /\ a \in 0 .. NumPackets + 1
      /\ a < nextSubmit => a + 1 \in 0 .. NumPackets + 1
  BY <1>1, TransferCounts, TransferConstants DEF TransferNow
<1>3. PICK b \in 0 .. NumPackets + 1 : TransferAfter(b)
  BY <1>1, <1>2, LauncherStepKeeps
<1> QED
  BY <1>3 DEF TransferAfter, TransferKept

(* Over SCTP every packet goes through the input buffer, the channel, the  *)
(* RS buffer and the output buffer in its turn, whatever the order in      *)
(* which the six threads run and the two processes come up and end, and    *)
(* nothing is acknowledged before it has been accepted.                    *)
THEOREM LauncherTransfer == LauncherSpec => []TransferKept
BY TransferStarts, TransferGoesOn, PTL DEF LauncherSpec

(* The elements of two sequences, one after the other.                     *)
LEMMA ElementsOfBoth ==
  ASSUME NEW p \in Seq(Packets), NEW q \in Seq(Packets)
  PROVE  Elements(p \o q) = Elements(p) \cup Elements(q)
<1>1. PICK r : r = p \o q
  OBVIOUS
<1>2. /\ r \in Seq(Packets) /\ Len(p) \in Nat /\ Len(q) \in Nat
      /\ Len(r) = Len(p) + Len(q)
      /\ \A i \in 1 .. Len(r) :
           r[i] = IF i <= Len(p) THEN p[i] ELSE q[i - Len(p)]
      /\ DOMAIN r = 1 .. Len(r) /\ DOMAIN p = 1 .. Len(p) /\ DOMAIN q = 1 .. Len(q)
  BY <1>1
<1>3. ASSUME NEW i \in DOMAIN r
      PROVE  r[i] \in Elements(p) \cup Elements(q)
  <2>1. CASE i <= Len(p)
    BY <1>2, <2>1 DEF Elements
  <2>2. CASE i > Len(p)
    <3>1. i - Len(p) \in DOMAIN q /\ r[i] = q[i - Len(p)]
      BY <1>2, <2>2
    <3> QED
      BY <3>1 DEF Elements
  <2> QED
    BY <1>2, <2>1, <2>2
<1>4. ASSUME NEW i \in DOMAIN p
      PROVE  p[i] \in Elements(r)
  <2>1. i \in DOMAIN r /\ r[i] = p[i]
    BY <1>2
  <2> QED
    BY <2>1 DEF Elements
<1>5. ASSUME NEW i \in DOMAIN q
      PROVE  q[i] \in Elements(r)
  <2>1. i + Len(p) \in DOMAIN r /\ r[i + Len(p)] = q[i]
    BY <1>2
  <2> QED
    BY <2>1 DEF Elements
<1>6. Elements(r) = Elements(p) \cup Elements(q)
  BY <1>3, <1>4, <1>5 DEF Elements
<1> QED
  BY <1>1, <1>6

(* The packets accepted are those before a.                                *)
LEMMA AcceptedOf ==
  \A t, c, a, d : TransferNow(t, c, a, d) =>
    Accepted = 0 .. a - 1 /\ Cardinality(Accepted) = a
<1> SUFFICES ASSUME NEW t, NEW c, NEW a, NEW d, TransferNow(t, c, a, d)
             PROVE  Accepted = 0 .. a - 1 /\ Cardinality(Accepted) = a
  OBVIOUS
<1>1. /\ taken \in Seq(Packets) /\ Consecutive(taken, 0, Len(taken))
      /\ outputPackets_ \in Seq(Packets) /\ Consecutive(outputPackets_, Len(taken), d)
      /\ rs.shadowBuffer_ \in Seq(Packets) /\ Consecutive(rs.shadowBuffer_, d, a)
      /\ Len(taken) \in Nat /\ d \in Nat /\ a \in Nat
      /\ Len(taken) <= d /\ d <= a
  BY TransferCounts DEF AtReceiver
<1>2. /\ Elements(taken) = 0 .. Len(taken) - 1
      /\ Elements(outputPackets_) = Len(taken) .. d - 1
      /\ Elements(rs.shadowBuffer_) = d .. a - 1
  <2>1. 0 \in Int /\ Len(taken) \in Int /\ d \in Int /\ a \in Int
    BY <1>1
  <2> QED
    BY <1>1, <2>1, ConsecutiveElements
<1>3. Accepted = Elements(taken) \cup Elements(outputPackets_)
                   \cup Elements(rs.shadowBuffer_)
  BY <1>1, ElementsOfBoth, ResequencingCalls DEF Accepted, Delivered
<1>4. Accepted = 0 .. a - 1
  BY <1>1, <1>2, <1>3
<1>5. Cardinality(0 .. a - 1) = a
  <2>1. 0 \in Int /\ a - 1 \in Int /\ a - 1 - 0 + 1 = a
    BY <1>1
  <2> QED
    BY <1>1, <2>1, FS_Interval
<1> QED
  BY <1>4, <1>5

(* And those after a step.                                                 *)
LEMMA AcceptedOfNext ==
  (\A t, c, a, d : TransferNow(t, c, a, d) =>
     Accepted = 0 .. a - 1 /\ Cardinality(Accepted) = a)'
BY AcceptedOf, PTL

(* How many are accepted after a step.                                     *)
LEMMA AcceptedAfter ==
  ASSUME NEW a \in 0 .. NumPackets + 1, TransferAfter(a)
  PROVE  Cardinality(Accepted)' = a
<1>1. PICK t, c, d \in 0 .. NumPackets + 1 : Transfer(t, c, a, d)'
  BY DEF TransferAfter
<1>2. TransferNow(t, c, a, d)'
  BY <1>1 DEF TransferAfter, TransferNow
<1> QED
  BY <1>2, AcceptedOfNext

(* No acknowledgement on its way over SCTP is of a packet that the         *)
(* receiver has not accepted (do_addPacket).                               *)
THEOREM LauncherAcksAreTrue == LauncherSpec => []AcksAreTrue
<1>1. TransferKept => AcksAreTrue
  <2> SUFFICES ASSUME TransferKept, NEW sn \in AcksInFlight
               PROVE  0 .. sn \subseteq Accepted
    BY DEF AcksAreTrue
  <2>1. PICK t, c, a, d : TransferNow(t, c, a, d)
    BY KeptIsNow
  <2>2. Accepted = 0 .. a - 1 /\ AcksBefore(a) /\ a \in Int
        /\ rxAckQueue \in Seq(SequenceNumbers)
        /\ ackChannel \in Seq(SequenceNumbers)
        /\ txAckQueue \in Seq(SequenceNumbers)
    BY <2>1, AcceptedOf, TransferCounts
  <2>3. sn \in Elements(rxAckQueue) \cup Elements(txAckQueue) \cup Elements(ackChannel)
    BY ChannelCalls DEF AcksInFlight
  <2>4. sn < a /\ sn \in SequenceNumbers
    BY <2>2, <2>3 DEF AcksBefore, AllBefore, Elements
  <2> QED
    BY <2>2, <2>4 DEF SequenceNumbers
<1> QED
  BY <1>1, LauncherTransfer, PTL

(* Which steps change what the application has, what has been submitted    *)
(* and what the transmitter takes to be complete.                          *)
LEMMA VisibleSteps ==
  ASSUME [LauncherNext]_launcherVars
  PROVE  \/ sendPacket /\ UNCHANGED rxVars
         \/ processAckQueue /\ UNCHANGED rxVars
         \/ tryGetPacket /\ UNCHANGED txVars
         \/ UNCHANGED <<nextSubmit, taken, endOfTxAcked_>>
<1>1. CASE UNCHANGED vars
  BY <1>1 DEF vars, txVars, rxVars
<1>2. CASE /\ UNCHANGED rxVars
           /\ sendPacket \/ transmitThread \/ TxAckThread(receiverGone)
  BY <1>2 DEF rxVars, transmitThread, attemptPacketRetransmission,
              attemptNewPacketTransmission, nothingToTransmit,
              ackQueueProcessed, TxAckThread, ackThreadLoop, receiveAck,
              receiveNoAck, txThreadVars
<1>3. CASE /\ UNCHANGED txVars
           /\ \/ resequencingThread(transmitterGone)
              \/ RxAckThread
              \/ tryGetPacket
  BY <1>3 DEF txVars, resequencingThread, resequencingLoop, receivePacket,
              receiveNoPacket, resequencePacket, deliverPacket, nothingToDeliver,
              RxAckThread, sendAck, checkEndOfTx
<1> QED
  BY <1>1, <1>2, <1>3, LauncherSteps

(* A step of the launcher is a step of the reliable transfer, or one that  *)
(* the applications do not see.                                            *)
LEMMA LauncherStepPromise ==
  TransferKept /\ [LauncherNext]_launcherVars => [Promise!Next]_Promise!vars
<1> SUFFICES ASSUME TransferKept, [LauncherNext]_launcherVars
             PROVE  [Promise!Next]_Promise!vars
  OBVIOUS
<1>1. PICK t, c, a, d : TransferNow(t, c, a, d)
  BY KeptIsNow
<1>2. /\ Cardinality(Accepted) = a /\ a \in 0 .. NumPackets + 1
      /\ nextSubmit \in 0 .. NumPackets + 1
      /\ TransmitterTypeOK
  BY <1>1, AcceptedOf, TransferCounts DEF TransferNow
<1>3. CASE sendPacket /\ UNCHANGED rxVars
  <2>1. Cardinality(Accepted)' = a
    BY <1>1, <1>2, <1>3, SubmitKeeps, AcceptedAfter
  <2>2. /\ nextSubmit <= NumPackets /\ nextSubmit' = nextSubmit + 1
        /\ UNCHANGED <<taken, endOfTxAcked_>>
    BY <1>3, TransferConstants DEF sendPacket, txThreadVars, rxVars, Packets
  <2> QED
    BY <1>2, <2>1, <2>2 DEF Promise!Next, Promise!Submit
<1>4. CASE processAckQueue /\ UNCHANGED rxVars
  <2>1. Cardinality(Accepted)' = a
    BY <1>1, <1>2, <1>4, ProcessAckKeeps, AcceptedAfter
  <2>2. UNCHANGED <<nextSubmit, taken>>
    BY <1>4 DEF processAckQueue, rxVars
  <2>3. \/ endOfTxAcked_' = TRUE
        \/ endOfTxAcked_' = FALSE /\ endOfTxAcked_ = FALSE
    <3>1. endOfTxAcked_ \in BOOLEAN
      BY <1>2 DEF TransmitterTypeOK
    <3>2. endOfTxAcked_' = (endOfTxAcked_ \/ acksEndOfTx(Head(txAckQueue)))
      BY <1>4 DEF processAckQueue
    <3> QED
      BY <3>1, <3>2, Zenon
  <2>4. CASE endOfTxAcked_' = TRUE
    <3>1. a = NumPackets + 1
      <4>1. endOfTxAcked_' => a = NumPackets + 1
        BY <1>1, <1>4, ProcessAckKeeps
      <4> QED
        BY <2>4, <4>1, Zenon
    <3>2. Promise!Complete
      BY <1>2, <2>1, <2>2, <2>4, <3>1 DEF Promise!Complete
    <3> QED
      BY <3>2 DEF Promise!Next
  <2>5. CASE endOfTxAcked_' = FALSE /\ endOfTxAcked_ = FALSE
    <3>1. UNCHANGED <<nextSubmit, Cardinality(Accepted), taken, endOfTxAcked_>>
      BY <1>2, <2>1, <2>2, <2>5
    <3> QED
      BY <3>1 DEF Promise!vars
  <2> QED
    BY <2>3, <2>4, <2>5
<1>5. CASE tryGetPacket /\ UNCHANGED txVars
  <2>1. /\ Len(taken) < a /\ taken' = Append(taken, Len(taken))
        /\ Cardinality(Accepted)' = a
    BY <1>1, <1>2, <1>5, TakeKeeps, AcceptedAfter
  <2>2. UNCHANGED <<nextSubmit, endOfTxAcked_>>
    BY <1>5 DEF txVars
  <2> QED
    BY <1>2, <2>1, <2>2 DEF Promise!Next, Promise!Deliver
<1>6. CASE UNCHANGED <<nextSubmit, taken, endOfTxAcked_>>
  <2>1. CASE TransferAfter(a)
    <3>1. Cardinality(Accepted)' = a
      BY <1>2, <2>1, AcceptedAfter
    <3> QED
      BY <1>2, <1>6, <3>1 DEF Promise!vars
  <2>2. CASE a < nextSubmit /\ TransferAfter(a + 1)
    <3>1. a + 1 \in 0 .. NumPackets + 1
      BY <1>2, <2>2, TransferConstants
    <3>2. Cardinality(Accepted)' = a + 1
      BY <2>2, <3>1, AcceptedAfter
    <3>3. a + 1 \in a + 1 .. nextSubmit
      BY <1>2, <2>2, TransferConstants
    <3> QED
      BY <1>2, <1>6, <3>2, <3>3 DEF Promise!Next, Promise!Accept
  <2> QED
    BY <1>1, <2>1, <2>2, LauncherStepKeeps
<1> QED
  BY <1>3, <1>4, <1>5, <1>6, VisibleSteps

(* The two processes over SCTP implement the abstract reliable transfer,   *)
(* from their sockets to their exit.                                       *)
THEOREM LauncherTransfersReliably == LauncherSpec => ReliablyTransfers
<1>1. LauncherInit => Promise!Init
  <2> SUFFICES ASSUME LauncherInit PROVE Promise!Init
    OBVIOUS
  <2>1. /\ nextSubmit = 0 /\ taken = <<>> /\ endOfTxAcked_ = FALSE
        /\ outputPackets_ = <<>> /\ rs = RS!Empty
    BY DEF LauncherInit, Init, TransmitterInit, ReceiverInit
  <2>2. RS!Waiting(rs) = {}
    BY <2>1, ResequencingCalls DEF Elements
  <2>3. Accepted = {}
    BY <2>1, <2>2 DEF Accepted, Delivered, Elements
  <2> QED
    BY <2>1, <2>3, FS_EmptySet DEF Promise!Init
<1> QED
  BY <1>1, LauncherStepPromise, LauncherTransfer, PTL
     DEF LauncherSpec, ReliablyTransfers, Promise!Spec
==============================================================================
