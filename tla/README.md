# Verification of tipy

TLA+ models of tipy, a userspace TCP/IP stack in Python: what each part keeps, what its
threads do to it in which order, what TLC checks on small instances, and what TLAPS proves
for all of them. Paths are relative to the repository (`tipy/...`).

## 1. Inventory

### Threads

| thread | started by | runs |
|---|---|---|
| RX | `components/rx_ring.py` | reads frames; Ethernet, ARP, IP, ICMP, UDP receive paths; queues TCP segments |
| TCP events | `components/tcp_events.py` | all handlers of `protocols/tcp/tcp_fsm.py`, one event at a time |
| timer | `components/timer.py` | callbacks of expired timers |
| TX | `components/tx_ring.py` | builds queued frames and writes them to the device |
| application | user code | the socket calls |

An exception that is not caught ends its thread; no thread is restarted.

### Components

| component | state | operations | correct when |
|---|---|---|---|
| TCP state machine, TCPCB (`tcp_fsm.py`, `tcpcb.py`) | state, send and receive sequence variables, windows, flags, timers, buffers | one RX and one TX handler per state, connect, rtx | sequence numbers match the buffers; data in flight has a timer; a graceful close loses nothing; a closed connection is silent; states follow the two half-connections |
| TCP user requests (`tcp_usrreq.py`) | request flags, condition variables | connect, send, recv, shutdown, close | every byte accepted is sent once, in order; a blocked call returns |
| TCP timers (`tcp_timer.py`) | RTO estimate, two timers | start, restart, stop, back-off | a stopped timer does not act; RTO stays in its bounds |
| event queue (`tcp_events.py`) | FIFO | schedule, loop | no event lost or run twice |
| ring buffers (`lib/buffer.py`) | ring, offsets | enqueue, dequeue, free, roll back | FIFO; unacknowledged bytes kept |
| TX/RX rings | queue of frames | enqueue, loop | frames leave as they were meant |
| timer (`components/timer.py`) | heap of tasks | schedule, remove, loop | each task runs once, not early, not after removal |
| ARP (`arp_cache.py`, `arp/rx.py`, `arp/tx.py`) | cache, wait list, probe list | request, reply, learn, time-outs, probe | entries expire; replies release the waiting datagrams |
| pending datagrams (`ip_cache.py`) | queue per address | enqueue, dequeue | each datagram leaves at most once |
| IP transmit (`ip/tx.py`) | none | route, resolve, fragment | every datagram is sent or queued |
| IP reassembly (`ip/rx.py`) | fragments per datagram, timer | fragment, time-out | delivered once, and only when complete |
| UDP, raw sockets | queue per socket, tables | bind, connect, send, recv, close | queued datagrams are delivered |
| socket tables | sockets, TCPCBs, ports | register, remove | an entry belongs to a live connection |
| core | addresses, conflict list | start with ARP probe, stop | an address in use is not taken |
| ICMP (`icmp/rx.py`) | none | echo, unreachable | a message does not end the RX thread |
| Ethernet, headers, checksum | none | parse, build | pure functions |

### How they interact

Socket calls and timers put CONNECT, SEND and RTX events into the queue of the TCP event
loop, the RX thread puts segments there, and only the loop runs the state machine. The
send buffer is shared by the application (writes), the loop (reads, frees, rolls back)
and the TX thread (reads the bytes of a queued frame, late). The receive buffer is shared
by the loop and the application. `tx_ip` runs in the loop, in application threads and in
the RX thread and meets the RX and timer threads in the ARP cache, whose tests and updates
are not covered by one lock.

### What is hard

Events that were queued before the state changed; RTX events against ACKs and timer
restarts; sequence-number wrap; a FIN that takes a sequence number and no byte; unlocked
ring buffers and views read late; test-then-act on the ARP dictionaries; notifications
without a predicate; duplicated fragments. `PROJECT.json` lists each with its line.

## 2. Modules

| module | models | remarks |
|---|---|---|
| `TcpSeq` | `tcp_seq.py` | arithmetic modulo `2 * Half`, in the place of 2^32 |
| `TcpFsm` | `tcp_fsm.py`, `tcpcb.py`, the non-blocking part of `tcp_usrreq.py`, the timers | extends `TcpSeq` |
| `TcpConn` | what the states promise: two half-connections | abstract specification, implemented by `TcpFsm` |
| `MCTcpFsm` | a small peer for `TcpFsm` | gives `Segments` for TLC |
| `TcpFsmProofs` | theorems of `TcpFsm`: types, how a connection opens | |
| `TcpConnProofs` | theorems of `TcpSeq` and `TcpFsm`: silence after a teardown, `TcpFsm` implements `TcpConn`, sequence-number order, the receive window and buffer | extends `TcpFsmProofs` |
| `TcpStreamProofs` | theorems of `TcpFsm`: the send buffer beside the sequence variables, retransmission | extends `TcpConnProofs` |
| `Ring` | `free_space` and `ready`, the same in both ring buffers | |
| `RingBuffer` | the receive buffer | extends `Ring` |
| `ByteFifo` | a bounded FIFO of bytes | abstract specification, implemented by `RingBuffer` |
| `RRingBuffer` | the send buffer with its three threads | extends `Ring` |
| `SendStream` | `RRingBuffer` composed with acknowledgements, a network and a peer | extends `RRingBuffer` |
| `ByteStream` | a reliable stream of bytes | abstract specification, implemented by `SendStream` |
| `TcpBuffers` | the two buffers of a TCPCB, one direction per behaviour | `RingBuffer` and `SendStream` for TLC |
| `ArpResolve` | `tx_ip`, the ARP cache and the pending queue for one next hop | |
| `TcpUsrReq` | the blocking `connect`, `send` and `recv` (`tcp_usrreq.py`) and what wakes them (`tcp_fsm.py`) | |
| `SocketTables` | `sockets_table.py` with `tcp_bind`, `tcp_connect`, `tcp_close`, `remove_tcpcb` and the look-up of `rx_tcp` | |
| `MCSocketTables` | two sockets, two remote ends, two control blocks | model values and their symmetry for TLC |
| `IpReass` | `_ip_reass` and its timer (`ip/rx.py`) | |
| `MCIpReass` | a datagram cut at given offsets | gives `Fragments` for TLC |
| `IpInput` | `rx_ip`, `rx_icmp`, `rx_udp`, raw sockets, `recv()` of datagram sockets | |
| `TimerLoop` | `components/timer.py` | |
| `WorkLoops` | `tx_ring.py`, `rx_ring.py`, `tcp_events.py` | |
| `TimerLoopProofs` | theorems of `TimerLoop` | |
| `ReassLoopsProofs` | theorems of `IpReass` and of `WorkLoops` | extends both |
| `SocketProofs` | theorems of `SocketTables` and of the blocking calls of `TcpUsrReq` | extends both |
| `BufferProofs` | theorems of `RingBuffer`, `RRingBuffer` and `SendStream` | extends all three |
| `DatagramProofs` | theorems of `ArpResolve` and of the datagram sockets of `IpInput` | extends both |

Modules whose theorems share a module have names of their own for the specification
(`SndSpec`, `StreamSpec`, `UsrSpec`, `InputSpec`, `LoopsSpec`); in the others it is `Spec`.

### TcpFsm

Variables carry the names of the TCPCB's fields. `r`, `vr`, `vw` are the offsets of the
send buffer and `rcv_rd`, `rcv_wr` those of the receive buffer, as positions in the
stream. One action models one handler: `Rx(s)` is `rx()` with the handler of the current
state (`RxEstab`, `RxFinWait1`, ...), `EvSend`, `EvRtx` and `EvConnect` take the head of
the event queue. `RxDrop`, `RxBuffer`, `RxReset`, `RxSyn` and `RxCloseAbort` are the
branches that several receive handlers share. `Tx` is `_tx_map`: what the transmit
handlers share is written once, and the definitions `FinRequested`, `FinDue`, `NextOnFin`,
`RefreshRcvWnd` say how they differ. `out` holds the segments of the last step.

- The loop runs one handler at a time, so a handler is one step. Socket calls and timers
  interleave with it.
- Segments are not kept in the queue. Any segment of `Segments` may be handled at any
  time, which covers every order, loss and duplication, and segments that are handled
  after the TCPCB was removed from the tables.
- Timers expire at any time after their start; hence the RTO is left out. A timer whose
  field was cleared while it was running is counted in `orphans`. The test of `_deleted`
  and the call are one step.
- The limit on challenge ACKs may be exhausted at any time: `SendChallengeAck` sends or
  does not.
- A batch that `_tx_loop` cuts into segments is one segment. With MSS 0 the loop never
  ends (`loop = "spinning"`); an exception ends it (`loop = "dead"`).
- One application thread, one connection. `connect()` is called once, `send()` with room
  in the buffer, calls that fail before they change anything (EPIPE, ENOTCONN) are left
  out. The peer's MSS option is not zero.

### RingBuffer, RRingBuffer and SendStream

The snapshot of the offsets, each copy and the update of the offset are steps of their
own, since the lock is held for the first and the last only. Bytes are numbered by their
place in the stream. In `RRingBuffer` a dequeued view goes to the TX ring and is read by
`Transmit`. In `RingBuffer` `recv()` copies the views after `dequeue` has moved `_r`
(`ReadViews`; `tcp/socket.py:103`), when an enqueue may already count their place as free:
`ViewsIntact` says that a view holds its bytes until an enqueue has claimed that place
(`Claimed`), and `RecvReturnsTaken` (section 4) that `recv()` returns them, which the code
does not ensure.

`RRingBuffer` takes whatever `free_space()` allows. That is too much, since it counts bytes
as free that were sent and not acknowledged (`UnackedIntact`, section 4). `SendStream` is
therefore about an application that waits for acknowledgements: `PacedSend` keeps at most
`Pace` bytes unacknowledged. This is an assumption about the application; the stack has no
such limit.

`SendStream` keeps every pair of position and byte that was ever transmitted in `net`; the
peer takes any pair that has the next position, so frames are lost, repeated and reordered
at will. An acknowledgement, new or old, frees what the peer has taken (`Acknowledge`); in
`RRingBuffer` alone bytes are freed that the peer may not have. The peer is external: it
takes the stream in order and acknowledges nothing else.

### ArpResolve

A sender goes through the steps of `tx_ip`, `_h_unresolved_mac_datagrams`, `arp_wait_add`
and `IPCache.enqueue`; every test of a dictionary and every update is a step, also the
addition to the wait list (`ArpWaitAdd`) and the timer scheduled after it (`ArpWaitTimer`). The lists
in the pending dictionary are objects (`lists`), `cur` is the one the dictionary holds:
the RX thread iterates over an object while senders append to it or replace it. Replies
may come at any time after a request. The log statements run under `__debug__`, as they
do unless Python is started with `-O`, and the one in `enqueue` looks the key up again.
Fragments, broadcast and the probe are left out.

### TcpUsrReq

Every access to shared state is a step: the test of `tcpcb.state`, of the buffer and of
`so.error`, taking a condition variable, waiting. A handler of the event loop that
changes state first and notifies later is split the same way (`loop` holds what is left
of it). A notification wakes a thread that waits and nobody else. Bytes are counted, but
`stream` records which positions of the caller's buffer `send()` has queued. The rest of
a connection is reduced to what the calls can see of it: `TcpFsm` has the sequence
numbers, the ring modules have the bytes. No segment is lost here, and `SndSize` limits
the bytes not yet sent.

### SocketTables

The dictionaries are functions on ids, a local port and a remote end. Each socket is used
by one thread. `Bind` tests the address, `BindSocket` and `BindBound` enter it, and no
lock covers two of them; the same holds for `ConnectBound` or `ConnectEphemeral` and
`RegisterTcpcb`, and for `RxFind` and `RxGet`. A `connect()` that finds no ephemeral port
raises after it has set the remote end (`ConnectNoPort`), and a later `bind()` registers the
socket under that end. `named` records which sockets were ever registered under an id: it is
a history variable, which only `DemuxOwn` reads. A control block lives until the event loop
or the TIME_WAIT timer removes it (`RemoveSocket`, `RemoveTcpcb`), which may be never.

### IpReass and IpInput

`IpReass` is about one buffer id. Data is kept as the set of 8-byte blocks that hold what
was sent. Creating the entry (`AllocIpReassMem`), handling the fragment (`ReassLast`,
`ReassAfterLast`, `ReassBeforeLast`) and the callback take the lock one by one and are
separate steps. `stale` is a callback that runs although its timer was removed, `orphans`
are timers that no entry points to. The network loses and reorders fragments and delivers
up to `Copies` of each. Link padding is modelled for the last fragment (`PaddedLast`); that
of a short fragment before it, which `IPParser.data` keeps too (`ip/parser.py:92`), is not.

`IpInput` is about everything above that is not TCP. A frame is what the handlers tell
apart: its kind, and whether it came whole or out of reassembly. The look-up of a socket
and its use are two steps where no lock covers both. Readers go through `recv()`: wait,
wake up or time out, pop. `udp_close` does not find the key it removes, so `Close` leaves
a UDP socket registered.

### TimerLoop and WorkLoops

The heap is a set of which a task with the least time is popped. A notification reaches a
loop only while it waits. `WorkLoops` is one module for three threads, which differ in
what they take at a time (one frame, the whole queue, at most `MAX_EVENTS`) and in what
they hold meanwhile; `kind` says which one a behaviour is about. Items are numbered in
the order they are queued. The handlers are assumed to return: one that raises ends its
thread (`tcp_events.py:96`, `rx_ring.py:89`) and one that spins keeps it, and `TcpFsm` and
`IpInput` have handlers that do. `EveryItemHandled` is about the loop around them. `shutdown()`
may come between any two steps, also between the test of the flag and the wait, where its
notification is lost (section 4).

## 3. Runs

| run | result | states | what it asks |
|---|---|---|---|
| `tcp_fsm` | passes | 165,000 | a whole connection with every handler |
| `tcp_zero_window` | violated | | a FIN in a closed window has no timer |
| `tcp_close` | violated | | bytes queued at `close()` are lost |
| `tcp_overlap` | violated | | bytes acknowledged and not buffered |
| `buffers` | passes | 719,000 | the receive buffer is a FIFO; the peer reads what a paced application wrote |
| `arp` | passes | 312,000 | two senders resolve one address |
| `usrreq` | passes | 106,000 | blocking calls against the event loop, resets and time-outs |
| `tables` | passes | 409,000 | two sockets bind, connect, close and are looked up |
| `reass` | passes | 160,000 | fragments lost, reordered and duplicated, against the timer |
| `ip_input` | passes | 929,000 | datagram sockets with two readers |
| `timer` | passes | 431,000 | three tasks with any delays, removed at any time |
| `loops` | passes | 790 | order, wake-ups and batches of the three loops |

| module | property | says |
|---|---|---|
| `TcpFsm` | `RetransmitGuard` | what was sent and is not acknowledged, up to `snd_max`, has a running timer, a queued RTX or a queued SEND |
| | `StreamAligned` | sequence numbers and buffer offsets denote the same byte |
| | `CloseLosesNothing` | a step that takes our FIN for acknowledged leaves no byte unacknowledged (violated: `tcp_close`) |
| | `NothingBeyondMax` | `snd_una <= snd_nxt <= snd_max`, modulo the sequence space |
| | `RcvRoom` | the advertised edge stays ahead of `rcv_nxt`, within the window |
| | `ClosedIsSilent` | after a teardown nothing is sent and nothing reopens |
| | `ImplementsConn` | the states refine two half-connections |
| `RingBuffer` | `ViewsIntact`, `ImplementsFifo` | views hold the bytes taken until an enqueue claims their place; the ring refines a FIFO |
| `RRingBuffer` | `WireIntact` | a frame carries the bytes it was made for, unless they were acknowledged before |
| `SendStream` | `ImplementsStream` | sender, network and peer refine a reliable stream |
| `ArpResolve` | `AtMostOnce` | no datagram leaves twice |
| | `ReplyEntryHasTimer` | an entry learnt from a reply has a timer scheduled that removes it |
| `TcpUsrReq` | `ConnectReturns` | an accepted or refused `connect()` returns or raises |
| | `DataWakesReader` | data that comes while `recv()` waits wakes it |
| | `ResetEndsSend` | a `send()` that waits when a reset is signalled raises |
| `SocketTables` | `DemuxOwn` | segments of a live connection are resolved to it while no other socket or connection was given its id |
| | `NoGhost` | a removed control block is not resolved again |
| `IpReass` | `DataPlaced` | the buffers hold the blocks of the fragments received, and nothing else |
| | `DeliveredComplete` | until a fragment comes twice, a datagram is passed on only with all its blocks |
| | `EntryHasTimer`, `EntryReleased` | every entry has a timer, and ends |
| | `OneVerdict` | until a fragment comes twice, nothing is both delivered and reported as timed out |
| `IpInput` | `RecvFindsDatagram` | a woken reader never pops from an empty queue |
| | `QueueIsFifo` | no datagram is lost, doubled or overtaken between the threads |
| `TimerLoop` | `NeverOversleeps` | the wait ends when the first task is due |
| | `NeverEarly`, `AtMostOnce`, `EveryTaskRuns` | a task is called once, in time, unless removed |
| `WorkLoops` | `HandledInOrder`, `PopFindsItem` | work is handled once, in order; no pop fails |
| | `EveryItemHandled` | no wake-up is lost: what is queued is handled, unless the loop was stopped |

`ReplyEntryHasTimer` says that a timer is scheduled. Whether it still runs is another matter:
two senders that add the address at once make the second time-out raise KeyError in the timer
thread (`WaitTimeout`; `WaitExpires`, section 4).

Bounds. `Half = 8` gives 16 sequence numbers, and ISS = 14, IRS = 13 make both directions
wrap. Two bytes out and one in are enough for partial ACKs, rollbacks, a FIN alone and a FIN
with data. In `tcp_fsm` the peer's window is 2 and a batch takes 2 bytes, so that writes are
sent whole: with a window of 0 besides, or a batch of 1, the code breaks `RetransmitGuard` and
`CloseLosesNothing`, which is what `tcp_zero_window` and `tcp_close` show. The peer
acknowledges our SYN, the first byte, or two bytes and the FIN, which is also beyond what was
sent when less was written. `MaxEvents = 2` lets SEND and RTX cross; `MaxOrphans = 1` allows
one timer that nobody points to. Rings of 4 bytes wrap within `MaxBytes`, `Pace = 3` fills them, and two
frames in the TX ring let a retransmission overtake a view that is read late. Two
senders and three datagrams cover a queue that is created, appended to and replaced
during a release; `MaxFlush = 2` covers an old timer that fires for a new entry.
`SendLen = 3` with room for 2 bytes makes
`send()` take a second round. Two sockets, two remote ends, two control blocks, and two
ports, one of which can be both bound and picked, make ids collide in every way two
connections can and let the ephemeral ports run out; sockets, remote ends and control blocks
are interchangeable, so `MCSymmetry` permutes each of the three. Four fragments of
different lengths in six blocks, each delivered up to twice, cover a first, a last and
middle ones in every order, and a duplicate that meets its entry, or one made anew. Two
frames and two readers suffice for a notification that meets a time-out. Three tasks
cover one that is earlier than the one the loop sleeps for, scheduled while another runs.
`MaxItems = 5` with `MaxEvents = 2` gives full, partial and repeated batches.

Fairness. `TcpUsrReq`: a call that was made goes on and the event loop runs; nothing is
assumed of the peer or of when calls are made. `IpReass`: the RX thread and the timer
thread run, and timers expire. `TimerLoop`: the clock advances, the loop runs, and
`schedule_timer` gets its lock. `WorkLoops`: the thread runs and `shutdown()` returns.
All are weak fairness of threads that the operating system schedules. The other
specifications assume none and have safety properties only.

Deadlock is not checked: applications may stop calling, bounds are reached, and a
connection ends in CLOSED.

## 4. What the code does not keep

Three runs show such things, with the quotations in `PROJECT.json`. `tcp_overlap`:
`data[start : dlen]` drops new bytes of an overlapping segment that are acknowledged all the
same. `tcp_zero_window`: `rtx` forgets the timer and rolls back, and with the peer's window
closed `_tx_fin_wait_1` (1273) neither sends the FIN again nor starts a timer, so a lost FIN
is never repeated. `tcp_close`: `_tx_loop` puts the FIN on the end of the batch it was given,
not on the end of the data, and the ACK of that FIN moves the connection on with bytes still
in `snd_buf`.

The modules state further sentences of comments and documents that the code does not
keep. Each is a definition that can be checked in the place of a run's properties, with
the configuration of that run and the constants given here; TLC then shows the trace.

| property | configuration | says, and what happens |
|---|---|---|
| `NoTxInTimeWait` | `MCTcpFsm_zero_window` | `tcp_fsm.py:1639` "no tx for time_wait": a SEND event queued before calls `None` (1655) |
| `MssKnown` | `MCTcpFsm_zero_window`, `PeerSynFlags = {TRUE, FALSE}` | `tcp_fsm.py:892` "if no MSS options exists use the default MSS": a simultaneous open leaves it 0, `_tx_loop` does not end (718) |
| `FinAfterData` | `MCTcpFsm_close` | `tcp_fsm.py:703`: a FIN leaves before the rest of the data (721) |
| `UnackedIntact` | `TcpBuffers`, `Pace = 6` | `tcpcb.py:167` "must preserve unacknowledged data": `enqueue` overwrites it (`buffer.py:291`) |
| `RecvReturnsTaken` | `TcpBuffers` | `buffer.py:124` "Dequeue up to n bytes": `recv()` copies the views after `_r` moved (`tcp/socket.py:103`), when an enqueue may have overwritten them |
| `WaitExpires` | `ArpResolve` | `arp_cache.py:153` "schedule a timer to expire", "the entry is removed from the list": the timer is scheduled later (171), and its thread may have ended on a KeyError |
| `ReplyHandled` | `ArpResolve` | `arp/rx.py:40`: a reply before the datagram is queued, or a second one, ends the RX thread (`ip_cache.py:73`) |
| `ReaderHearsOfData` | `TcpUsrReq` | `tcp_fsm.py:776` "Notifies the application": not between `is_empty()` and `wait()` (`tcp_usrreq.py:162`) |
| `EmptyMeansEnd` | `TcpUsrReq` | `tcp_fsm.py:1111`: a late notification makes `recv()` return nothing on an open connection |
| `EndAfterData` | `TcpUsrReq` | `tcp_fsm.py:1112` "the end of the remote's data": reported with bytes still buffered (`tcp_usrreq.py:158`) |
| `ReaderHearsOfEnd` | `TcpUsrReq` | `tcp_fsm.py:1111`: a FIN in FIN_WAIT_2 (1319), or before the wait, wakes nobody |
| `ResetIsRaised` | `TcpUsrReq` | `tcp_fsm.py:70`: a woken reader does not look at `so.error` (`tcp_usrreq.py:179`) |
| `RemainingDataQueued` | `TcpUsrReq` | `tcp_fsm.py:1100` "enqueue remaining data": every round starts at the first byte (`tcp_usrreq.py:129`) |
| `WriterHearsOfSpace` | `TcpUsrReq` | `tcp_fsm.py:1099`: not in CLOSE_WAIT, and not before the wait (`tcp_usrreq.py:140`) |
| `RemovesOwn` | `MCSocketTables`, without the symmetry | `tcpcb.py:30` "delete the tcpcb": a newer one with the same id is removed (`sockets_table.py:91`) |
| `EventHasTcpcb` | `MCSocketTables`, without the symmetry | `tcp/rx.py:24`: an event without a control block is scheduled (76) |
| `BoundOnce` | `MCSocketTables`, without the symmetry | `errno.py:46` "Address already in use": two threads bind one port (`tcp_usrreq.py:35`) |
| `DefragmentationDone` | `MCIpReass`, `NBlocks = 4`, `Cuts = {0, 1, 2}` | `ip/rx.py:236` "Defragmentation Done!": a duplicate makes up for a hole (319) |
| `DeliveredWhole` | `MCIpReass` | `ip/rx.py:267` "Update the total len field": written at offset 4 (271) |
| `BufferThere` | `MCIpReass` | `ip/rx.py:177`: the timer removes the entry before it is used (187) |
| `LastFragmentStored` | `MCIpReass`, `PaddedLast = TRUE` | `ip/rx.py:203`: padding makes it longer than the buffer (204) |
| `UdpDelivered` | `IpInput` | `udp/rx.py:22`: the pseudo-header has the wrong length, data is dropped (55) |
| `DeliveredAndReturned` | `IpInput` | `ip/rx.py:341`: no return after `get_data` (428) |
| `UnreachableHandled` | `IpInput` | `icmp/rx.py:32`: NameError ends the RX thread (36) |
| `RemovedNotCalled` | `TimerLoop` | `timer.py:19`: a task removed between the test and the call is called (44) |
| `ShutdownStopsLoop` | `WorkLoops` | `tcp_events.py:67` "TCP Events shutdown": a `shutdown()` between the test of the flag (83) and the wait (91) notifies nobody, and the loop sleeps on |

A second way to `AckedBytesBuffered` came out of its proof. `tcp_fsm.py:413` says "In-order
data is trimmed to the rcv_wnd", but it is trimmed to `rcv_adv`, and `_append_rcv_data`
computes `rcv_adv` from the free space after `rcv_nxt` moved over the data and before the
data is enqueued (778), so that the edge is too far by the length of the segment. The
initial window, moreover, is one more than the bytes a ring can hold. A peer that fills the
initial window in two segments, in order, has its last byte acknowledged and not buffered:
TLC shows it with the configuration of `tcp_overlap`, `RcvSpace = 3`, and segments that
start at `rcv_nxt`.

`FinAfterData`, `ReaderHearsOfEnd`, `ResetIsRaised`, `WriterHearsOfSpace`, `RemovesOwn`,
`UdpDelivered`, `RemovedNotCalled` and `ShutdownStopsLoop` are checked as PROPERTY, the others as INVARIANT.

## 5. Proofs

For every value of the constants that the assumptions allow:

| theorem | statement | module |
|---|---|---|
| `TypeCorrect` | `Spec => []TypeOK` | `TcpFsmProofs` |
| `OpeningInvariant` | `Spec => []Opening` | `TcpFsmProofs` |
| `ClosedStaysSilent` | `Spec => ClosedIsSilent` | `TcpConnProofs` |
| `FsmImplementsConn` | `Spec => ImplementsConn` | `TcpConnProofs` |
| `ReceiveWindowHasRoom` | `Spec => []RcvRoom` | `TcpConnProofs` |
| `SequenceOrder` | `seq_lt`, `seq_leq`, `seq_gt`, `seq_geq`, `seq_diff` agree with the integers on numbers less than `Half` apart | `TcpConnProofs` |
| `AcknowledgedIsBuffered` | `Spec /\ PeerFits => []AckedBytesBuffered` | `TcpConnProofs` |
| `AlignedUntilFin` | `SndLimit < Half - 1` implies `Spec => [](state \in {ESTAB, CLOSE_WAIT} => StreamAligned /\ NothingBeyondMax /\ RetransmitGuard)` | `TcpStreamProofs` |
| `WholeWritesStayAligned` | `WholeWrites` implies `Spec => [](StreamAligned /\ NothingBeyondMax) /\ CloseLosesNothing`, and every FIN follows the last byte | `TcpStreamProofs` |
| `RetransmissionNeverForgotten` | `WholeWrites` and `OpenWindows` imply `Spec => []RetransmitGuard` | `TcpStreamProofs` |
| `ViewsStayIntact` | `Spec => []ViewsIntact` | `BufferProofs` |
| `ReceiveBufferIsFifo` | `Spec => ImplementsFifo` | `BufferProofs` |
| `WireCarriesTheStream` | `Pace < Size` implies `StreamSpec => []WireIntact` | `BufferProofs` |
| `SendingIsReliable` | `Pace < Size` implies `StreamSpec => ImplementsStream` | `BufferProofs` |
| `NoDatagramTwice` | `Spec => []AtMostOnce` | `DatagramProofs` |
| `LearntExpires` | `Spec => []ReplyEntryHasTimer` | `DatagramProofs` |
| `WokenFindDatagrams` | `InputSpec => []RecvFindsDatagram` | `DatagramProofs` |
| `DatagramsStayInOrder` | `InputSpec => []QueueIsFifo` | `DatagramProofs` |
| `ReassemblyPlacesData` | `Spec => []DataPlaced` | `ReassLoopsProofs` |
| `EntriesExpire` | `Spec => []EntryHasTimer` | `ReassLoopsProofs` |
| `ReassemblyComplete` | `Spec => []DeliveredComplete` | `ReassLoopsProofs` |
| `ReassemblyOneVerdict` | `Spec => []OneVerdict` | `ReassLoopsProofs` |
| `TimerNeverOversleeps` | `Spec => []NeverOversleeps` | `TimerLoopProofs` |
| `TimerNeverEarly` | `Spec => []NeverEarly` | `TimerLoopProofs` |
| `TimerAtMostOnce` | `Spec => []AtMostOnce` | `TimerLoopProofs` |
| `SegmentsReachTheirConnection` | `Spec => []DemuxOwn` | `SocketProofs` |
| `RemovedStaysRemoved` | `Spec => []NoGhost` | `SocketProofs` |
| `ConnectHearsVerdict` | `UsrSpec =>` always, once the peer accepted or refused, a `connect()` that waits is woken or about to be | `SocketProofs` |
| `ResetEndsWaiting` | `UsrSpec =>` no step but raising ends the wait of a `send()` after a reset | `SocketProofs` |
| `WorkHandledInOrder` | `LoopsSpec => []HandledInOrder` | `ReassLoopsProofs` |
| `PopsFindItems` | `LoopsSpec => []PopFindsItem` | `ReassLoopsProofs` |

Assumptions: `FsmAssumption` (segments are segments; the initial window is below half the
sequence space) and `HalfAssumption` of `TcpSeq`; `ReassAssumption` (fragments of one
datagram do not overlap); `TimerAssumption`, `LoopsAssumption` (bounds are numbers);
`TablesAssumption` (what stands for "none" is not a port, socket or control block);
`RingAssumption`, `RRingAssumption`, `PaceAssumption`, `UsrReqAssumption`, `ArpAssumption`
(sizes and bounds are numbers).

`TypeOK` is inductive; the point is that `free(n=seq_acked-1)` never gets a negative
argument and that the bytes copied never exceed the room in the receive buffer.
`ClosedIsSilent` needs `Opening`: no CONNECT
event is left once `connect()` has returned. For the refinement, every step is shown to be
a `Transition` of the state field, and every transition a step of `TcpConn` or a stutter.

`RcvRoom` needs `RcvFresh` (before `connect()` the window is the initial one) and
arithmetic modulo the sequence space: a segment is trimmed to the window before `rcv_nxt`
moves, so it moves by less than `rcv_adv - rcv_nxt`, and `_compute_rcv_wnd` opens the
window by no more than the buffer has room for.

`AcknowledgedIsBuffered` is the half of `AckedBytesBuffered` that the code keeps. `PeerFits`
names the segments: in ESTAB, data in order starts at `rcv_nxt` and is no longer than the
free space, and what comes in SYN_RECV carries none. Both parts are needed, section 4 says
why. The invariant is `RcvExact`, `rcv_nxt = irs + 1 + rcv_wr` modulo the sequence space:
then what is trimmed to the window is copied whole (`FitsLen`, `FitsAppend`).

The send side has three theorems, because the code keeps its promises in three degrees.

`AlignedUntilFin` is about every peer, every window and every write. Its only hypothesis is
that the connection writes less than half the sequence space, without which comparison
modulo 2^32 means nothing. `StreamAligned` alone is not inductive: a rollback and an old ACK
move `snd_nxt` and `snd_una` about, and whether an ACK is taken depends on both. `OpenInv`
gives the place of `snd_una`, `snd_nxt` and `snd_max` in the stream of bytes written: nothing
but the SYN before `connect()` returns (`Unopened`); in order, with `snd_max` at a position
between `vr` and `vw`, in ESTAB and CLOSE_WAIT (`OpenStream`); and where it stopped when
`_tx_loop` spins (`OpenSpin`). The timer is an invariant of two parts. `RtxArmed` (in
`TcpConnProofs`) follows `snd_nxt`: what lies below it has the timer's field set, and a field
that says "fired" has its RTX event in the queue. It needs `Opening`: one sequence number is
outstanding before `connect()` returns, so the handshake's ACK, which stops the timer, leaves
nothing unacknowledged. `OpenArmed` goes on to `snd_max`: after a rollback, when the part sent
again is acknowledged, the timer is stopped although bytes up to `snd_max` are not
acknowledged, but the same handler has scheduled the SEND that goes on with them.

`WholeWritesStayAligned` goes on to the end of the connection, for connections that send
their writes whole: `WholeWrites` says that everything the application writes fits one batch
and every window that is not closed, and that nothing is written after `shutdown()` or
`close()`. These are hypotheses about the constants, that is, about application and peer, and
not about the steps of the code. They are needed: without them the FIN overtakes data
(`tcp_close`), and then `r` runs past `vw` and nothing is promised. Under them each
FIN is proved to follow the last byte (`FinLast`, from `WndWhole`: the window is closed or
takes everything), and `CloseInv` says where the sequence variables are afterwards: `snd_max`
just past the FIN, `snd_nxt` there or back at `snd_una`, and all equal once the FIN is
acknowledged.

`RetransmissionNeverForgotten` needs one condition more. After the FIN no receive handler
schedules a SEND, so the timer is all there is (`ClosingArmed`), and an RTX event that finds
the window closed lets go of it (`tcp_zero_window`). `OpenWindows` excludes that: every
segment whose window is read has one that is not zero. The run `tcp_fsm` is such a connection.

The receive ring: `RingInv` says that for some number `g` of bytes taken, `_r` and `_w` are
`g` and `put` modulo `Size`, the unread bytes are in their places, an enqueue in progress
writes free space only, also when it computed that space from an older `_r`, and a dequeue
in progress takes unread bytes only. A view whose `_r` has moved on is intact as long as
no enqueue has claimed its place; for `ViewsIntact` the invariant says how far an enqueue can
have got since. For `ImplementsFifo`, every step is shown to append
what an enqueue commits, to drop what a dequeue commits, or to leave `Contents` alone. The
send ring: `SndInv` says the same of its three offsets and adds the frames queued for the
TX thread, whose views lie below the end of the stream; a view whose bytes were freed may
be overwritten, but `WireIntact` speaks of bytes the peer may still need.
The theorems are about `StreamSpec`, where the application writes at most `Pace` bytes beyond
what is acknowledged, and need `Pace < Size`: `free_space()` is computed from `_vr` where it
should be from `_r`, and an application that writes on has its unacknowledged bytes
overwritten (`UnackedIntact`, section 4).

`SendingIsReliable` adds `PeerInv`: what the network holds beyond the peer's position is
what was written there, and no acknowledgement is ahead of the peer. It is the reason why
the late views are harmless: a frame can carry a later byte under an old position, but only
if that position was freed before, hence acknowledged, hence taken, and the peer takes no
position twice. `WireIntact` alone does not give that, since the frame stays in the network
while `acked` moves on.

`ArpInv`: a datagram is in the hand of one sender, or in one place of one list, or gone
(`InHand`, `Queued`), and what a release may still reach has not been transmitted
(`Unreleased`); the list that a release walks may grow meanwhile, and one that a second
sender creates replaces the first, so lists are followed by their identity.
`RecvFindsDatagram` is inductive only with `Promised`: the queue of a socket holds a
datagram for every reader that was notified and has not taken the lock again, and one more
between `append` and `notify`. A reader that times out, or takes a datagram without having
waited, must not break that; the proof counts the readers.

`DataPlaced` and `EntryHasTimer` are inductive together with types and `EntryOK`, which
says which of the two buffers is in use and that the total is right once the last
fragment came. For `DeliveredComplete`, `CountOK` says that `block_count` is the number of
blocks covered by the fragments received; fragments are disjoint, so a count equal to the
total means that all blocks are covered. A duplicate breaks it, hence the condition
`NoDuplicates`, which once false stays false. `OneVerdict` needs `VerdictOK`: after a
time-out some fragment is lost for good (`Lost`), so no later entry can be completed, and
after a delivery every fragment has come, so none is there to open an entry.

`NeverOversleeps` is inductive with the types. `NeverEarly` needs `ReadyDue` (all ready
tasks are due, and time does not go back), `AtMostOnce` needs `OnePlace`: a task is in the
hands of its scheduler, in the heap, among the ready ones or being called, never in two of
these places, and has not been called before.

The invariant of `SocketProofs` ties the places together in which an id is kept: a socket
with a remote end was registered under its address (`Named`, by the history `named`), the
entry of a socket about to register its control block is there unless the address was given
to another connection or another socket (`Opening`), control blocks have a remote end and
stand in the table under their own id (`CbRemote`, `Registered`). So what `bind()`, `close()`
or a failed call removes is never the entry of a live connection whose id is its own.

The invariant of the work loops numbers all work consecutively
(`Numbered`: handled, taken, queued) and bounds the pops still to do by the length of the
queue (`Pops`), which nobody else shortens.

The blocking calls: `ConnectInv` says that `connect()` holds its lock from scheduling CONNECT until it waits, so that the verdict
cannot be signalled in between; until it is woken, nothing is decided or the notification is
the next step of the event loop. `ErrorFirst`: a handler that resets sets `so.error` before
the state and before it notifies, so a `send()` that wakes up finds the error.

Every safety invariant, action property and refinement of the passing runs has a theorem;
those of the send side carry the conditions above, which the instance of `tcp_fsm` meets.
The inductive invariants were checked with TLC on the instances of the runs before they
were proved. Only model-checked, because liveness under fairness is outside the prover's
reach: `EntryReleased`, `EveryTaskRuns`, `EveryItemHandled`,
`ConnectReturns`, `DataWakesReader` and `ResetEndsSend`. What is safety in `ConnectReturns`
and `ResetEndsSend` is proved by `ConnectHearsVerdict` and `ResetEndsWaiting`; that the
event loop and the caller then run is the fairness. The findings of section 4 are
counterexamples that TLC finds; the theorems next to them say under which condition the
code does what is claimed.

## 6. Not modelled

- Start-up with the ARP probe (`core.py`, the probe list of `arp_cache.py`). It compares a
  string with address objects (`core.py:182`); a model is still to be written.
- The RTO estimator and RTT probes (`tcp_timer.py`, `tcp_fsm.py:99`): floating point;
  timers of `TcpFsm` expire at any time, which covers every value.
- `inet_csum`, TCP and IP options, header layouts: pure functions, whose verdict is part
  of a frame in `TcpFsm` and `IpInput`. `tx_ip`'s routing and socket options likewise.
- Sending fragments: `IPFragBuilder` reads an attribute that nothing assigns
  (`ip/builder.py:210`), so nothing after it runs.
- `udp_bind`, `raw_bind`, `udp_send`, `raw_send`: the first two repeat `tcp_bind`, the
  others build a datagram and keep nothing.
- The RST for a segment of an unknown connection, ICMP answers, Ethernet, logging, the
  device: no state.

## 7. Plan

1. `SendStream` with the sequence numbers of `TcpFsm`, in the place of positions.
2. Liveness of `TcpFsm` with a peer that answers: zero window, FIN_WAIT_1, a closed
   receive window.
3. The address probe; `inet_csum` against RFC 1071; TCP options built and parsed.
