# A TLA+ development of the ARQ library

This directory specifies the ARQ (automatic repeat request) library in
`src/src/arq` with what it stands on: the transmitter and the receiver with all
their threads and their start-up, the four pairs of retransmission and
resequencing buffers, the packets and their bytes, the queue between the
threads, the sockets of the launcher and the lossy network. TLC checks the
specification on small instances. TLAPS proves the safety of the system with
each of the three protocols that run over UDP, for every number of packets up
to the roll-over of the sequence numbers and every window; that it implements
an abstract reliable transfer; that the descriptors of the two processes are
used and closed as they should be; that the queue with its lock and condition
variable implements an atomic queue; and that whatever is transmitted is read
as what was submitted.

Paths below are relative to the repository; line numbers are of this commit.

## 1. The system

The library transfers the packets one application submits to a `Transmitter`
to another application, which takes them from a `Receiver`, over a data channel
given as two functions, `txFn` and `rxFn`. The launcher supplies a UDP socket
(or an SCTP socket for the dummy buffers, the control of the benchmarks).

| component | code | state | operations |
|---|---|---|---|
| Transmitter | `src/arq/transmitter.hpp` | `ackQueue_`, `endOfTxSeqNum_`, `endOfTxAcked_`; owns an input buffer and a retransmission buffer | `sendPacket`; threads `transmitThread` (retransmit or transmit, then `processAckQueue`) and `ackThread` |
| Input buffer | `src/arq/common/input_buffer.*` | `lastSequenceNumber_`, queue | `addPacket`, `tryGetPacket`, `getPacket` |
| Retransmission (RT) buffers | `src/arq/retransmission_buffers/*`, `common/retransmission_buffer.hpp` | stop-and-wait: one packet; go-back-n and selective repeat: circular buffer, `startIdx_`, `nextToAck_`, `packetsInBuffer_`; SCTP: nothing | `addPacket`, `tryGetPacketSpan`, `readyForNewPacket`, `packetsPending`, `acknowledgePacket` |
| Receiver | `src/arq/receiver.hpp` | `ackQueue_`, `endOfTxSn_`, `ackedEndOfTx_`; owns a resequencing buffer and an output buffer | `tryGetPacket`; threads `resequencingThread` and `ackThread` |
| Resequencing (RS) buffers | `src/arq/resequencing_buffers/*`, `common/resequencing_buffer.hpp` | next sequence number or start of the window, packets accepted (and, for selective repeat, packets ahead of sequence) | `addPacket` (returns the acknowledgement to send), `getNextPacket`, `packetsPending` |
| Output buffer | `src/arq/common/output_buffer.*` | `nextSequenceNumber_`, queue | `addPacket` (rejects what is not next), `tryGetPacket`, `getPacket` |
| Packets | `src/arq/common/data_packet.*`, `control_packet.*`, `sequence_number.*` | header (id, sequence number, length) and payload; length 0 is the End-of-Tx (EoT) packet | (de)serialisation, updates of the header |
| Conversation IDs | `src/arq/common/conversation_id.*` | 8-bit counter, set of identifiers | `getNewID`, `registerID`, `releaseID` |
| SafeQueue | `src/util/safe_queue.hpp` | queue, mutex, condition variable | `push`, `pop_wait`, `try_pop` |
| Socket, Endpoint, AddressInfo | `src/util/{socket,endpoint,address_info}.*` | a file descriptor each | `bind`, `listen`, `accept`, `connect`, `send`, `recv`, moves |
| Launcher | `src/launcher.cpp`, `src/config.hpp` | configuration | connects the two ends, starts them, submits the packets and the EoT |
| Logging | `src/util/logging.hpp` | - | output only |

### How the parts interact

* Calls: `transmitThread` alone uses the RT buffer, `resequencingThread` alone
  the RS buffer. No lock protects either.
* Shared state between threads: the input buffer (application to
  `transmitThread`), the two `ackQueue_`s, the output buffer
  (`resequencingThread` to application), and the flags `endOfTxAcked_`,
  `ackedEndOfTx_` and `endOfTxSn_`, by which one thread tells the other to end.
* Messages: data packets one way, acknowledgements (a sequence number) the
  other.
* Callbacks: `txFn` and `rxFn`. Over UDP `rxFn` has a receive timeout, over
  SCTP it has none. A `txFn` that fails is logged, and the message is gone.

### What is hard

* *Unreliable delivery*: a datagram is lost, repeated or overtaken, in both
  directions. The acknowledgement of the EoT is sent once only. Over SCTP, which
  is taken to be reliable, nothing is kept to send again when a send fails.
* *Start-up*: both classes start their threads in the constructor, before the
  members the threads use have been initialised.
* *Interleaving*: five threads. Flags are tested before a receive that may
  block and may be set while it does; `ackThread` of the receiver compares with
  `endOfTxSn_` after it has sent; an acknowledgement waits in two queues and the
  network before the window it is compared with is read.
* *Circular buffers and fixed-width numbers*: `startIdx_`, `nextToAck_` and
  `packetsInBuffer_` describe the same window and are updated separately;
  sequence numbers are `uint16_t` but compared as `int`; `earliestExpected_ - 1`
  and `nextSequenceNumber_ - 1` at 0.
* *Two copies of one fact*: a packet's header, as fields and as bytes; the time
  at which a packet was last chosen for transmission and the one at which it was
  sent; who owns a file descriptor.
* *Termination*: neither side knows whether its last message has arrived.
* *Retransmission against new transmission*, *several acknowledgements at once*,
  *the window at its limit*.

`PROJECT.json` lists each of these hazards with its line and the properties
that cover it.

### What makes each part correct

| component | properties |
|---|---|
| whole transmission | it implements `ReliableTransfer` (`ReliablyTransfers`); `EventuallyDelivered` |
| Transmitter | `CompletionSound`, `NoProtocolException`, `NothingForgotten`; `TransmitterStops`, `TransmitterStopsUnlessFails` (which fail, see 4) |
| RT buffers | `WindowConsistent`, `NothingForgotten` |
| Receiver | `InOrderExactlyOnce`, `ReceiverStopsComplete`, `ReceiverStops` |
| RS buffers | `AcksAreTrue`, `AcksAreTrueOrVoid`, `ArrivalsFitWindow`, `WindowFollowsDelivery`, `WholeTransmissionInOrder` |
| start-up of both ends | `OnlyStartUpMisfires`, `DeliversUnlessMisfired`, `StopsAfterEndOfTx` |
| timeouts | `RetransmissionsSpaced`; `TimeoutSinceFirstTx` (which fails, see 4) |
| packets | `ReceiverReads` |
| conversation IDs | `NewIDsAreFresh` |
| SafeQueue | `NoLostWakeup`, `WaitersServed`, `ImplementsAtomicQueue` |
| sockets and launcher | `SocketUsable`, `OnlyListenerLeaks`, `DescriptorsKept`, `TransferKept`, `DeliversUnlessFails` |
| every variable | `TypeOK` |

## 2. The modules

```
ArqCommon                       packets, sequence numbers, constants
 |- StopAndWaitRT  GoBackNRT  SelectiveRepeatRT  DummySCTPRT
 |      RetransmissionBuffer    the interface: one of the four, by Protocol
 |- StopAndWaitRS  GoBackNRS  SelectiveRepeatRS  DummySCTPRS
 |      ResequencingBuffer      the interface: one of the four, by Protocol
Channel                         the network as txFn and rxFn see it
Transmitter  (ArqCommon, Channel, RT == INSTANCE RetransmissionBuffer)
Receiver     (ArqCommon, Channel, RS == INSTANCE ResequencingBuffer)
ArqSystem    (Transmitter, Receiver)   composition, Spec, FairSpec
ReliableTransfer                the abstract specification
ArqProperties (ArqSystem)       the properties, the refinement mapping
ArqInvariant (ArqProperties)    the inductive invariant, for the UDP protocols
NumberLemmas                    remainders and least elements
BufferProofs (ArqInvariant, NumberLemmas)   lemmas on runs and on each buffer
InvariantProofs  (BufferProofs)             the invariant is inductive
TransferTheorems (InvariantProofs)          the safety theorems, the refinement

ArqStartup   (ArqProperties)    the constructors, with threads that run already
Endpoint     (ArqCommon)        sockets, descriptors, connection set-up
ArqLauncher  (ArqProperties, Endpoint)   the two processes over SCTP
LauncherProofs                           theorems on their descriptors and their transfer

AtomicQueue                     the abstract queue
SafeQueue                       lock, wait, notify
SafeQueueProperties (SafeQueue) the invariant, the refinement mapping
SafeQueueProofs                 its theorems

DataPacket  ConversationIDAllocator   pure operators
TimedTransmitter (Transmitter, DataPacket, ConversationIDAllocator)
PacketProofs TimedProofs        their theorems
```

**Packets.** A packet is its position in the transmission, 0, 1, ...,
`NumPackets`; the last is the EoT. Its 16-bit sequence number is
`SeqNum(p) = p % SeqNumModulus`, and that is all the operations of the buffers
look at. Keeping the position lets a property tell a packet from a later one
with the same number. Payload, conversation ID and times are added by
`TimedTransmitter`.

**RT buffers.** A buffer is a record of the class's members; an operation is an
operator on it. `do_addPacket`, `do_acknowledgePacket`, `do_readyForNewPacket`
and `do_tryGetPacketSpan` are the functions of those names. The loops over the
window become sets of offsets: `AckedOffsets` are the iterations of
`do_acknowledgePacket` whose condition holds (`packetsInBuffer_` loses one for
each), `EmptyOffsets` the slots `do_addPacket` looks for (`HasSpace` false is
its `throw ArqProtocolException`). `do_tryGetPacketSpan` takes the set of packets
whose timeout has elapsed as an input, and any set of held packets may have.

**RS buffers.** `do_addPacket` returns the new buffer and the acknowledgement,
`None` for `std::nullopt`; `do_getNextPacket` the new buffer and the packet.
`Waiting(rs)` is what has been accepted and not yet delivered. In
`SelectiveRepeatRS`, `updateBuffer` is the function of that name, including the
start index that stays where it was when no missing packet is found.

**Channel.** Over UDP each direction is the set of datagrams that may still
arrive: sending may lose one, receiving may leave it there (a repetition), and
any may arrive next (a reordering). Over SCTP each is a FIFO, but a send may fail,
and `transmitPacketData` and the receiver's `ackThread` do no more about it than
write it to the log, if that. What an association still carries when it is lost
never arrives; to the receiver, and to every property stated here, that is a
sequence of sends that failed. `RecvFails` says when a receive returns without
data: at any time over UDP (`SO_RCVTIMEO`), over SCTP only when there is nobody
left to receive from: the peer has closed its socket, the association has been
lost, or there never was a connection.

**Transmitter and Receiver.** One action per stretch of code between two
accesses to something another thread or the network can see:

| action | code |
|---|---|
| `sendPacket` | `Transmitter::sendPacket`, `InputBuffer::addPacket` |
| `attemptPacketRetransmission`, `attemptNewPacketTransmission`, `nothingToTransmit` | one pass of `transmitThread` up to `processAckQueue` |
| `processAckQueue`, `ackQueueProcessed` | one round of `processAckQueue`'s loop; its end and, through the loop condition, that of the thread |
| `ackThreadLoop`, `receiveAck`, `receiveNoAck` | the test of `endOfTxAcked_`; the receive and the push; the failed receive |
| `resequencingLoop`, `receivePacket`, `receiveNoPacket` | the test of `ackedEndOfTx_`; `receivePacket` and the store to `endOfTxSn_`; the failed receive |
| `resequencePacket` | the RS buffer's `addPacket` and the push of its acknowledgement |
| `deliverPacket`, `nothingToDeliver` | one round of the delivery loop with `OutputBuffer::addPacket`; its end |
| `sendAck`, `checkEndOfTx` | the pop and `txFn`; the comparison with `endOfTxSn_` and the store to `ackedEndOfTx_` |
| `tryGetPacket` | `Receiver::tryGetPacket` |

The queue operations are atomic, as `SafeQueue`'s mutex makes them. A queue that
is polled while empty changes nothing and has no action. An exception that
leaves `transmitThread` ends the program: `txPc = "terminated"`.

**ReliableTransfer** is the promise: packets are submitted, accepted, delivered
in order, and the transmission is completed only when all has been accepted.
`ArqProperties` maps the system to it: `accepted` is the number of packets the
receiver has in sequence, `delivered` what the application has taken.

**ArqStartup** adds to each end how many of the three members that follow the
threads in the class are initialised (`TxMembers`, `RxMembers`). Before that a
flag has any value (`StartInit`), the record of the EoT compares as it likes
(`endOfTxRead`), an operation on a queue either ends the program (`crash...`) or
is lost when the queue is initialised, and the initialisation overwrites what a
thread has stored (`construct...`). The actions of `Transmitter` and `Receiver`
are reused; only where they end a thread at the store to a flag is the loop's
own test (`endTransmitThread`, `endRxAckThread`) separate here, because the
constructor may clear the flag in between. `Misfired` is the end of every
promise: a thread has ended on a flag nobody has set, or the program has
crashed; it can be reached, since nothing in the code prevents it. That an
operation on a queue whose mutex is not initialised either crashes or works is
an assumption: a thread that hangs on whatever the mutex held is not modelled.

**SafeQueue** has one action per access to the queue, the mutex or the
condition variable; `front` and `pop` are two, so that it is the mutex that
makes them one. A wait may end without a notification. `AtomicQueue` is the
queue whose operations take effect in one step, and that `pop_wait` takes only
from a queue that is not empty; `seen` maps the places in the code to it.
Everywhere else the operations of a queue are single steps, which is what
`ImplementsAtomicQueue` justifies.

**TimedTransmitter** is `Transmitter` with a clock, the two times in
`PacketInfo`, and the bytes of each packet. A retransmission takes two steps, as
in the code: `tryGetPacketSpan` chooses a packet whose timeout has elapsed and
sets its `lastTxTime_`; `retransmit` sends it, when `sendTo` has looked up the
peer's name. The clock may advance in between, and `asked` and `span` say that
`transmitThread` is there and with what. `tryGetPacketSpan` itself reads the
clock once, where the code reads it for each packet it looks at and again for
the update: a later reading only puts the next transmission off. `objects` holds the
`TransmitBufferObject` of each packet; `wire` describes the transmission the
last step made, so that a state property can speak of it. `DataPacket` has the
operations of that class as operators, down to the two bytes of a number in
network order; `content` stands for the random payload, one byte value for all
its bytes. The receiver here is any process that acknowledges packets in order.
Before the transmission the allocator of identifiers is used in any way
(`allocate`), so that its counter wraps and its set fills.

**Endpoint** and **ArqLauncher**: a process has a set of open descriptors and
two `Socket` objects, the local one (of the constructor of `Endpoint`, of
`accept`) and `socket_`. `opensSocket`, `moveAssign`, `destroySock` are the
constructor, the move assignment and the destructor; the steps of `Endpoint`'s
constructor, `listen`, `accept` and `connectRetry` are actions that may fail
where the system call may. `ArqLauncher` runs the threads of the transmission
between the set-up and the shutdown of each end. With an exception the process
ends, and the operating system closes what is open. `sendFailed`, which no code
reads, records the ends where a send has failed (`packetDropped`, `ackDropped`),
and `receiverGone` and `transmitterGone` say whether a receive may return without
data. A send after the peer has closed may also end the process with `SIGPIPE`
(`Socket::send` passes no flags); to the other end that is a process whose sends
fail and which closes its socket, and no property of a process that has been
killed is stated.

Operators whose comment calls them *a variant with a bug* are not part of any
specification: each is a plausible mistake in the operation after it, kept to
show that a property notices.

## 3. The runs

| run | specification | what it shows |
|---|---|---|
| `snw` | stop-and-wait, 2 packets and the EoT, 3 sequence numbers | safe over UDP, also where the counters roll over; the inductive invariant |
| `gbn` | go-back-n, window 2, 2 packets and the EoT | reliable transfer; the inductive invariant |
| `sr` | selective repeat, both windows 2 | the same with equal windows, the launcher's default (100 and 100); the receiver may accept a packet twice, the output buffer rejects it; the two windows fit each other; the inductive invariant |
| `sr_live` | selective repeat, windows 2 and 3, fair, 1 packet and the EoT | everything is delivered and the receiver ends; its window follows |
| `startup` | go-back-n, window 1, fair, 1 packet and the EoT, during construction | what goes wrong goes wrong at once: otherwise everything is delivered and the receiver ends |
| `sctp` | two processes over SCTP, 2 packets and the EoT, 2 addresses, 2 attempts, any send may fail | what is delivered is in order, and complete when the transmitter says so; everything is delivered unless the set-up or the sending of a packet fails; one owner for each descriptor; the inductive invariants of both |
| `safe_queue` | four threads, two values | linearisable, no lost wake-up, every waiter is served |
| `timing` | go-back-n, window 2, 1 packet and the EoT, timeout 1, 6 instants, any time between choosing a packet and sending it | spacing of retransmissions, what the receiver reads, fresh identifiers |
| `last_ack`, `sctp_shutdown`, `sr_full_window`, `spurious_retransmission` | | violations, see 4 |

**Bounds.** `NumPackets` is 2 (three packets with the EoT) for safety: with a
window of 2 the circular buffer wraps, a cumulative acknowledgement can cover
two packets, one packet can be ahead of a missing one, and an acknowledgement
can be two windows late. It is 1 in the liveness runs, where the EoT is the
second packet: one packet can be lost while the next, or its acknowledgement,
gets through, and the window is full. `AckQueueBound` is 1: a queue of
acknowledgements has one entry, unless the thread that empties it has ended.
Longer queues only delay acknowledgements, which the network does anyway, since
an acknowledgement may stay there while others pass it. In `startup`, where a
thread may end too early and leave its queue to grow, the bound is
`AckQueueBound + 1`.

`SeqNumModulus` stands for 2^16. In `snw` it is `NumPackets + 1`, the most the
launcher can send (its count of packets is a `uint16_t`): the EoT has the last
sequence number, and once it is accepted the receiver's counters are back at 0
while copies of packet 0 may still arrive. Elsewhere it exceeds the number of
packets; a comment in `go_back_n_rt.cpp:86` says that the protocol assumes that
numbers do not wrap. `SizeModulus` stands for 2^64.

`startup` has a window of one packet: what it asks is about the members that
are initialised late, none of which is the window.

`QueueBound` limits only the calls of `push` of `safe_queue`; two waiters, a
push and a `try_pop` that comes in between need four threads. `Descriptors` of
`Endpoint` are four, more than a process ever has open. `MaxAttempts` is 2 for
20: the last attempt differs from those before. `MaxTime` is 5 with a timeout
of 1: a packet becomes due at 2 and again at 4, so that a third transmission may
follow a wait in the input buffer or one between the choice of the second and
its sending. One packet and the EoT are two packets in the window, of which the
earlier one is asked about first. `MaxCopies` is 3: the properties do not tell a fourth transmission from
a third. A byte has two values and a packet at most 8 bytes in `timing`, so that
a number needs both its bytes and the receiver's buffer is longer than the
packet; identifiers are five, enough to wrap and to run out.

Deadlock is checked in the UDP runs (a finished transmission stutters in
`Terminated`) and in `safe_queue`. It is not in the SCTP runs, because over SCTP
the system really may stop (section 4), nor in `startup`, which stops at a
misfire, nor in `timing`, where the clock ends.

**Fairness.** `ThreadsFair`: each thread and each application keeps running (weak
fairness), which the operating system's scheduler gives; every wait of the code
is a poll or a receive. `NetworkFair`: of a datagram that is sent for ever a
copy gets through and arrives (strong fairness), the usual assumption on a
lossy link and the one without which no ARQ scheme works. It is asked for only
of the packet the transmitter has held longest, which `tryGetPacketSpan` looks
at first and which is due again one timeout after each transmission, and of the
acknowledgements that release it. What arrives is also, every now and then, a
last copy: a network that repeats one datagram for ever is excluded. Nothing is
assumed of new packets, of other packets of the window or of the EoT's
acknowledgement. `FairStartSpec` asks the same of threads and network, and that
the two constructors return. `LauncherSpec` asks that the set-up of each end,
its threads and its shutdown go on (weak fairness); nothing is asked of sends,
each of which may fail. `FairSpec` of `SafeQueue` asks that a
thread that is inside goes on (weak fairness) and that one that wants the mutex
gets it in the end (strong fairness); no thread need call anything, and no wait
need end without a notification.

Liveness of selective repeat is checked with a receiver window larger than the
transmitter's: with equal windows it does not hold (section 4, `sr_full_window`).
Liveness of go-back-n is what `startup` checks, with the start-up in front of it.

## 4. What the runs found

* `last_ack`: the acknowledgement of the EoT is sent once, and then the
  receiver ends. If it is lost, the transmitter retransmits the EoT for ever.
  The receive timeout added for this case (`launcher.cpp:369`) lets `ackThread`
  test `endOfTxAcked_` again, which nobody will set.
* `sctp_shutdown`: over SCTP there is no receive timeout. `ackThread` may have
  tested `endOfTxAcked_` before `transmitThread` sets it, and
  `resequencingThread` `ackedEndOfTx_` likewise: everything has been delivered,
  and each side waits for the other to close.
* `sr_full_window`: if a whole receiver window has arrived before its first
  packet, `updateBuffer` forwards it and leaves `earliestExpected_` where it was.
  The packets are then neither acknowledged nor refused when they come again.
  With windows of one packet this happens at once, and packet 1 is never
  accepted, although the README calls selective repeat with `M=1` equivalent to
  go-back-n.
* `spurious_retransmission`: `lastTxTime_` is not set by the first transmission.
  A packet that has waited for the window longer than a timeout interval is sent
  twice in a row. It costs bandwidth, not correctness: any packet held may be due
  at any time in the other modules. What does hold is `RetransmissionsSpaced`: no
  packet is sent again within a timeout interval of its submission, nor three times
  within one.

Seen while modelling, and part of the models, without a run of its own:

* SCTP is not as reliable as the code takes it to be. A packet whose send fails is
  logged and dropped (`transmitter.hpp:58`), and the dummy RT buffer keeps nothing
  to send it again from. The dummy RS buffer then refuses every later packet, none
  of which has the number it waits for, and never acknowledges the EoT. The
  repository's README introduces SCTP as a reliable connection (line 10), and a
  comment takes its data as guaranteed to arrive (`dummy_sctp_rs.cpp:25`); the same
  README reports (line 83) that SCTP lost packets when the network lost them in
  bursts. In `sctp` any send may fail: everything is delivered unless the sending
  of a packet does (`DeliversUnlessFails`, which is false without that exception),
  and whatever fails, nothing is delivered out of order or reported as complete
  too early (`ReliablyTransfers`).
* `lastTxTime_` is set when a packet is chosen (`go_back_n_rt.cpp:45`), before it
  is sent (`transmitter.hpp:72`). If the sending takes a while, the next copy may
  follow it at once, against the same comments as `spurious_retransmission`; this
  is why `RetransmissionsSpaced` counts three copies from the last but one.
* The start-up can misfire: with `endOfTxAcked_` read before it is initialised a
  thread may end at once, against `transmitter.hpp:116`; with `ackQueue_` used
  before it is, the program may crash. `startup` shows that nothing else goes
  wrong later: an acknowledgement or a record of the EoT that is overwritten is
  made good by the next copy.
* If the first packet to arrive is not packet 0 but in the window, the selective
  repeat receiver acknowledges 2^16 - 1 (`selective_repeat_rs.cpp:88`), against
  the comment in `selective_repeat_rt.cpp:68`. `AcksAreTrueOrVoid` shows that it
  acknowledges nothing else untruly; the transmitter ignores the number, which
  lies outside any window unless sequence numbers come near 2^16.
* Move assignment of `Socket` does not close what the target owned: when a
  connection is accepted, the descriptor listened on stays open until the process
  ends (`OnlyListenerLeaks` names it as the only one).
* `accept` does not test the result of the system call, and leaves the new
  descriptor open when the host does not match; the launcher always expects a
  host, and ends with an exception.
* The launcher's receiver does not look at `connectRetry`'s result: it then runs
  on a socket that is not connected.
* Packets that are still in the output buffer when the `Receiver` is destroyed
  are lost to the application; the launcher takes none.

## 5. The proofs

TLAPS proves, for stop-and-wait, go-back-n and selective repeat over UDP, every
pair of windows, every `AckQueueBound` and every number of packets up to the
roll-over:

| theorem | states | further hypotheses |
|---|---|---|
| `SystemInvariant` | `Spec => []IInv` | |
| `TransferTypes` | `Spec => []TypeOK` | |
| `WholeTransferInOrder` | `Spec => []WholeTransmissionInOrder` | |
| `TransferInOrder` | `Spec => []InOrderExactlyOnce` | `NumPackets + 1 < SeqNumModulus` |
| `TransferCompletion` | `Spec => []CompletionSound` | |
| `TransferNothingForgotten` | `Spec => []NothingForgotten` | |
| `TransferAcksAreTrue` | `Spec => []AcksAreTrue` | not selective repeat |
| `TransferAcksAreTrueOrVoid` | `Spec => []AcksAreTrueOrVoid` | |
| `TransferWindow` | `Spec => []WindowConsistent` | not stop-and-wait |
| `TransferArrivals` | `Spec => []ArrivalsFitWindow` | selective repeat |
| `TransferWindowFollows` | `Spec => []WindowFollowsDelivery` | selective repeat, `WindowSize < RSWindowSize` |
| `TransferReceiverStops` | `Spec => []ReceiverStopsComplete` | |
| `TransferNoException` | `Spec => []NoProtocolException` | |
| `TransfersReliably` | `Spec => ReliablyTransfers`, the refinement | `NumPackets + 1 < SeqNumModulus` |

The hypotheses are needed: at the roll-over the application may get the
transmission a second time (`InOrderExactlyOnce`, `ReliablyTransfers`);
selective repeat acknowledges 2^16 - 1 when it has nothing to acknowledge
(`AcksAreTrue`); with equal windows its receiver may stay behind
(`WindowFollowsDelivery`, run `sr_full_window`); and the other two are about
fields that only the buffers of those protocols have.

For the two processes over SCTP, any number of addresses and attempts, any
`AckQueueBound` and any number of packets up to the roll-over:

| theorem | states |
|---|---|
| `LauncherDescriptors` | `LauncherSpec => []DescriptorsKept` |
| `LauncherSocketUsable` | `LauncherSpec => []SocketUsable` |
| `LauncherLeaksListenerOnly` | `LauncherSpec => []OnlyListenerLeaks` |
| `LauncherTransfer` | `LauncherSpec => []TransferKept` |
| `LauncherAcksAreTrue` | `LauncherSpec => []AcksAreTrue` |
| `LauncherTransfersReliably` | `LauncherSpec => ReliablyTransfers`, the refinement |

for `SafeQueue`, any finite set of threads and any values:

| theorem | states |
|---|---|
| `SafeQueueInvariant` | `Spec => []IInv` |
| `SafeQueueWakes` | `Spec => []NoLostWakeup` |
| `SafeQueueIsAtomic` | `Spec => ImplementsAtomicQueue`, the refinement |

for the operators of `DataPacket` and `ConversationIDAllocator`, any base and
unit: `SequenceNumberUpdateAgrees`, `ConversationIDUpdateAgrees`,
`DataLengthUpdateAgrees`, `WritePayloadAgrees` (header, bytes and size stay
together: `CopiesAgree`), `ReceivedIsSent` and `NewIDIsFresh`; and for
`TimedTransmitter`, with stop-and-wait, go-back-n or selective repeat, any
window, timeout, payload and any time:

| theorem | states |
|---|---|
| `TimedInvariant` | `TimedSpec => []TimedIInv` |
| `RetransmissionsAreSpaced` | `TimedSpec => []RetransmissionsSpaced` |
| `EveryTransmissionIsRead` | `TimedSpec => []ReceiverReads` |
| `IDsAreFresh` | `TimedSpec => []NewIDsAreFresh` |

### The transmission over UDP

**Assumptions.** The named `ASSUME`s of `ArqCommon` (the constants are numbers,
`None` is not), `WindowSizeAssumption` and `RSWindowSizeAssumption`,
`UDPAssumption` (the protocol is one of the three) and `RolloverAssumption`:
there are at most as many packets, with the EoT, as sequence numbers, which the
type of the launcher's count guarantees, and for selective repeat so few that
2^16 - 1 is never in the transmitter's window. The second part is needed: the
receiver may acknowledge 2^16 - 1 before it has packet 0, and a transmitter that
holds the packet of that number would take all its window to be acknowledged.

**The argument.** None of the properties is inductive. `IInv` (module
`ArqInvariant`) is one invariant for the three protocols. It ties five counts
together (`Counts`),

    released <= acknowledged <= accepted <= transmitted <= submitted
                delivered    <= accepted

and says of every queue that it holds exactly the packets from one count to the
next (`Queues`), of the RT buffer that it holds those from `released` to
`transmitted` and of the RS buffer those from `delivered` to `accepted`
(`BuffersHold`, with one predicate for each buffer), of whatever is under way
that it is a packet transmitted or an acknowledgement of one accepted
(`InFlight`), and what each thread knows of the EoT at each place (`EndOfTx`).

* `InFlight` is needed because an acknowledgement may be read long after it was
  sent, `WindowHolds` because `acknowledgePacket` clears slots and decrements a
  counter independently, `EndOfTx` because the threads end on flags that other
  threads set.
* For stop-and-wait and go-back-n `acknowledged` and `accepted` are the same. For
  selective repeat they are not: when a full window has been forwarded the
  receiver's window stays where it was, and packets before `accepted` are
  accepted again. The run that the shadow buffer holds may then begin before
  `delivered` (`SelectiveRepeatHolds`); the output buffer rejects its start.
* At the roll-over the receiver takes copies of packet 0 for the packet after
  the EoT. The counts go on, and position `k` holds `PacketAt(k)`; `accepted` is
  bounded by `transmitted` only until everything has been transmitted. Nothing
  is wrong for the transmitter then, because `released` cannot pass what was
  transmitted.

`BufferProofs` says what each operation of each buffer does to a buffer that
holds a run: `AddToWindow` (a packet added when `readyForNewPacket` holds finds
a slot, at the end of the window), `ReleaseFromWindow` (an acknowledgement
releases a prefix, across the wrap of the circular index), `SelectiveRepeatAdds`
(`updateBuffer` forwards the run at the start of the window, wherever that run
ends), and for each kind of buffer one lemma that holds for the three protocols
(`RTAdd`, `RTAcknowledge`, `RSAdd`, `RSNext`). `InvariantProofs` has one lemma for
each action, with one step for each conjunct of `IInv`. `TransferTheorems`
derives the properties and maps each step to a step of `ReliableTransfer` or a
stutter; for this the steps of the receiver also keep `accepted` from falling.

### Descriptors

`DescriptorsKept` gives, for each place in the life of a process, exactly what it
has open and which object owns it. `SocketUsable` and `OnlyListenerLeaks` are not
inductive: whether the descriptor of a connection is a new one depends on what
was open when it was accepted. The proof is about the operations of `Socket`
first (`HoldsAfter`, `Binds`, `Accepts`, `ClosesEndpoint`), then about the places
(`TransmitterHoldsNext`, `ReceiverHoldsNext`), then about the steps; the threads
of the transmission do not touch the descriptors.

### The transfer over SCTP

`AcksAreTrue` and `ReliablyTransfers` are not inductive: what the receiver
accepts next depends on what is on its way, and that on what the transmitter
has taken from its input buffer. `TransferKept` follows the packets through the
chain of queues: the input buffer holds those from `t` on; the channel holds, in
order, some of those from `c` to `t` (`Ascending`), all but the ones whose send
has failed; `resequencingThread` has one from `a` to `c` in its hands or none, the
RS buffer holds those from `d` to `a` and the output buffer and the application
the ones before `d` (`InTransit`, `AtReceiver`); acknowledgements are of packets
before `a` (`AcksBefore`). `do_addPacket` accepts a packet that is `a` and, once
one has been lost, rejects all that follow (`AcceptKeeps`, `RejectKeeps`); what it
accepts the output buffer takes. The theorems hold whichever sends fail. Assumed
is `TransmissionAssumption`, at most 65535 data packets: beyond that the
acknowledgement of an earlier packet is taken for that of the EoT. Over a FIFO nothing is accepted twice at the roll-over, so the refinement needs no
stronger hypothesis. The proof does not use how the processes are set up and
end: a receive that fails moves no packet.

### SafeQueue

`NoLostWakeup` (while anybody waits, each element has a thread of its own that
is about to take it or to notify one that will) is not inductive without
`MutexHeld`, `Places` and `FrontKept`: a thread that has been notified loses its
claim when another takes the element before it has the mutex, and the count of
elements then falls with it. The proof counts the threads that are `Active` with
the theorems on cardinalities. Each step maps to the step of `AtomicQueue` that
takes effect, `push`, `pop` or finding the queue empty, or to a stutter; the
mapping of `pop` needs `FrontKept`.

### Packets and times

`CopiesAgree` says that the bytes of a packet start with its serialised header
and that there are as many after it as the header says. It holds of a new packet
and is kept by each update, so what is sent is what is read, whatever the rest
of the receiver's buffer holds. `TimedIInv` adds what the times need: the input buffer
holds the packets from `firstUnsent` on, the RT buffer only packets before it
(`HeldAreSent`; for this the lemmas `AddHolds`, `AcknowledgeReleases` and
`DueIsTimedOut` hold of every RT buffer that retransmits), the last transmission
but one of a packet was no later than its `lastTxTime_`, though the last one may
have been (`PacketTimes`), and the packet that has been chosen and not yet sent was
found due: more than a timeout interval after its submission and, if it has been
sent twice, after its last transmission but one (`SpanIsDue`).
Assumed are `TimedAssumption` (16 bits are two bytes, the payload fits), the
assumptions on numbers of `ArqCommon`, `UnitAssumption` and
`IDModulusAssumption`.

### Model-checked only

Liveness (outside the prover's reach, as is ENABLED): `EventuallyDelivered`,
`ReceiverStops`, `DeliversUnlessFails`, `DeliversUnlessMisfired`,
`StopsAfterEndOfTx`, `WaitersServed`. The start-up (`OnlyStartUpMisfires`): its
invariant is not written yet.

## 6. What is not modelled, and the plan

Done, in this order: the buffers, the two ends, their composition, the abstract
specification, the properties; then roll-over, start-up, `SafeQueue` and its
proof, timing, packets, identifiers and their proofs, sockets and the launcher;
then the inductive invariant of the three UDP protocols, its proof and the
theorems that follow, those on descriptors and those on the transfer over SCTP.
What is left:

1. *Proofs*: the inductive invariant of the start-up, an extension of `IInv` by
   what is not initialised yet.
2. *Liveness of stop-and-wait*: not in a run of its own.
3. *UDP sockets*: the receive timeout whose failure ends the process. Of the
   resolution of the peer's name in each `sendTo`, its duration (`TimedTransmitter`)
   and its failure (a lost datagram) are modelled, the sockets it uses are not.
4. *Start-up*: a thread that hangs on the mutex of a queue that is not initialised.

Left out for good: logging and option parsing (no behaviour of the protocol
depends on them); `getPacket` of both buffers (nothing calls it; it is
`pop_wait`); two threads that submit to one `InputBuffer` (the launcher has one,
and the class numbers and queues a packet in two steps); the conversation ID
exchange, which the source stubs out and with it TCP; buffers too short for a
header (every caller passes `MAX_TRANSMISSION_UNIT` bytes); the test scripts.
