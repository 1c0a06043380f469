------------------------------ MODULE IpInput ------------------------------
(***************************************************************************)
(* The receive path above Ethernet for everything that is not TCP: rx_ip,  *)
(* rx_icmp, rx_udp and the raw sockets, the socket tables they look into,  *)
(* and the application threads that wait in recv() on a datagram socket.   *)
(*                                                                         *)
(* A frame is represented by what the handlers tell apart.  The RX thread  *)
(* takes one frame after the other; a lookup in a table and the use of     *)
(* what it found are separate steps where the code holds no lock.  "whole" *)
(* frames carry a complete datagram, the others were reassembled (see      *)
(* IpReass).  An exception that nobody catches ends the RX thread.         *)
(***************************************************************************)
EXTENDS Naturals, Sequences

CONSTANTS
    Readers,      \* application threads that call recv()
    MaxFrames     \* bound on the frames received

Sockets == {"udp", "ping", "raw"}   \* a UDP socket, a raw ICMP one, a raw one

UdpKinds  == {"udp_bad", "udp_empty", "udp_data", "udp_noport"}
IcmpKinds == {"icmp_bad", "echo_req", "echo_big", "echo_rep", "port_unreach", "proto_unreach"}
RawKinds  == {"raw_empty", "raw_short", "raw_long"}   \* no payload, one shorter than a header, a longer one
NextKinds == UdpKinds \cup IcmpKinds \cup RawKinds \cup {"tcp", "proto_255"}

\* echo_big: a request whose reply exceeds the MTU, so it was received in fragments
Frames ==
    [kind : NextKinds \ {"echo_big"}, whole : {TRUE}]
      \cup [kind : {"malformed", "ttl_0"}, whole : {TRUE}]
      \cup [kind : NextKinds \ {"raw_empty"}, whole : {FALSE}]

VARIABLES
    input,        \* RX thread: step, frame, socket it has in hand
    seen,         \* frames received so far
    fate,         \* what happened to the frame: sockets that got it, ICMP messages
    sockets,      \* registered in udp.sockets and rip.sockets
    queue,        \* queue of each socket, by the number of the frame
    accepted,     \* frames ever put into each queue (history)
    readers,      \* each reader: step, socket
    returned      \* frames returned by recv() (history)

appVars == <<readers, returned>>
inputVars == <<input, seen, fate, sockets, queue, accepted, appVars>>

InputInit ==
    /\ input = [pc |-> "idle", f |-> [kind |-> "malformed", whole |-> TRUE], so |-> "udp"]
    /\ seen = 0 /\ fate = <<>>
    /\ sockets = {}
    /\ queue = [s \in Sockets |-> <<>>] /\ accepted = [s \in Sockets |-> <<>>]
    /\ readers = [r \in Readers |-> [pc |-> "out", so |-> "udp"]]
    /\ returned = [s \in Sockets |-> <<>>]

RxTo(pc) == input' = [input EXCEPT !.pc = pc]
RxToSocket(pc, s) == input' = [input EXCEPT !.pc = pc, !.so = s]

-----------------------------------------------------------------------------
(* The RX thread *)

\* ip_protocol_map; a protocol that is not in it is for a raw socket
NextLayer(kind) ==
    CASE kind \in UdpKinds  -> "rx_udp"
      [] kind \in IcmpKinds -> "rx_icmp"
      [] kind \in RawKinds  -> "raw"
      [] kind \in {"tcp", "proto_255"} -> "idle"   \* TcpFsm; rx_raw only parses

\* rx_ip: a frame that fails a test is dropped, one without TTL is answered
RxIp(f) ==
    /\ input.pc = "idle" /\ seen < MaxFrames
    /\ seen' = seen + 1
    /\ fate' = IF f.kind = "ttl_0" THEN <<"ttl_exceeded">> ELSE <<>>
    /\ input' = [input EXCEPT !.f = f,
                        !.pc = IF f.kind \in NextKinds THEN NextLayer(f.kind) ELSE "idle"]
    /\ UNCHANGED <<sockets, queue, accepted, appVars>>

Answer(msg) ==
    /\ fate' = Append(fate, msg)
    /\ RxTo("idle")

\* rx_udp.  The pseudo-header takes len(packet_rx.udp), the header's 8 bytes, for the
\* length of the datagram, so the checksum of one with data is never right.
RxUdp ==
    /\ input.pc = "rx_udp"
    /\ CASE input.f.kind \in {"udp_bad", "udp_data"} -> RxTo("idle") /\ UNCHANGED fate
         [] input.f.kind = "udp_empty" /\ "udp" \in sockets ->
                RxToSocket("get_data", "udp") /\ UNCHANGED fate
         [] OTHER -> Answer("port_unreach")
    /\ UNCHANGED <<seen, sockets, queue, accepted, appVars>>

\* rx_icmp and its handlers.  IPAddress is not imported at run time: an unreachable
\* message raises NameError.  A reply above the MTU raises AttributeError in tx_ip.
RxIcmp ==
    /\ input.pc = "rx_icmp"
    /\ CASE input.f.kind \in {"port_unreach", "proto_unreach", "echo_big"} ->
                RxTo("dead") /\ UNCHANGED fate
         [] input.f.kind = "echo_req" -> Answer("echo_reply")
         [] input.f.kind = "echo_rep" /\ "ping" \in sockets ->
                RxToSocket("use", "ping") /\ UNCHANGED fate
         [] OTHER -> RxTo("idle") /\ UNCHANGED fate
    /\ UNCHANGED <<seen, sockets, queue, accepted, appVars>>

\* _h_icmp_echo_rep looks the socket up again: KeyError if it was closed meanwhile
UseSocket ==
    /\ input.pc = "use"
    /\ RxTo(IF input.so \in sockets THEN "get_data" ELSE "dead")
    /\ UNCHANGED <<seen, fate, sockets, queue, accepted, appVars>>

\* rx_ip, no handler for the protocol: a raw socket or an ICMP message
RxRaw ==
    /\ input.pc = "raw"
    /\ IF "raw" \in sockets THEN RxToSocket("get_data", "raw") /\ UNCHANGED fate
                            ELSE Answer("proto_unreach")
    /\ UNCHANGED <<seen, sockets, queue, accepted, appVars>>

Waiting(s) == {r \in Readers : readers[r] = [pc |-> "wait", so |-> s]}

\* cond.notify() wakes one thread that waits, if there is one
Notify(s) ==
    IF Waiting(s) = {} THEN UNCHANGED readers
    ELSE \E r \in Waiting(s) : readers' = [readers EXCEPT ![r].pc = "woken"]

\* Mutant: nothing is put into the queue
GetDataLost ==
    /\ input.pc = "get_data"
    /\ fate' = Append(fate, input.so)
    /\ RxTo("notify")
    /\ UNCHANGED <<seen, sockets, queue, accepted, appVars>>

\* get_data: the queue is changed without the lock ...
GetData ==
    /\ input.pc = "get_data"
    /\ queue' = [queue EXCEPT ![input.so] = Append(@, seen)]
    /\ accepted' = [accepted EXCEPT ![input.so] = Append(@, seen)]
    /\ fate' = Append(fate, input.so)
    /\ RxTo("notify")
    /\ UNCHANGED <<seen, sockets, appVars>>

\* ... and a reader is notified with it.  After rx_ip's own get_data nothing returns:
\* a complete datagram goes on to _ip_reass.
GetDataNotify ==
    /\ input.pc = "notify"
    /\ Notify(input.so)
    /\ RxTo(IF input.so = "raw" /\ input.f.whole THEN "reass" ELSE "idle")
    /\ UNCHANGED <<seen, fate, sockets, queue, accepted, returned>>

\* _ip_reass finds the complete datagram complete but has no header for it, so the
\* payload is parsed as a datagram: too short for one (IndexError), or whatever it holds
RawFallThrough ==
    /\ input.pc = "reass"
    /\ CASE input.f.kind = "raw_empty" -> RxTo("idle")
         [] input.f.kind = "raw_short" -> RxTo("dead")
         [] input.f.kind = "raw_long"  ->
                \E g \in {f \in Frames : ~ f.whole} :
                    input' = [input EXCEPT !.f = g, !.pc = NextLayer(g.kind)]
    /\ UNCHANGED <<seen, fate, sockets, queue, accepted, appVars>>

RxThread ==
    \/ RxUdp \/ RxIcmp \/ UseSocket \/ RxRaw \/ GetData \/ GetDataNotify \/ RawFallThrough

-----------------------------------------------------------------------------
(* The application *)

\* udp_connect, raw_connect: the socket is registered under its full id
Connect(s) ==
    /\ s \notin sockets
    /\ sockets' = sockets \cup {s}
    /\ UNCHANGED <<input, seen, fate, queue, accepted, appVars>>

\* raw_close; udp_close removes a key made of IPAddress objects, which no entry has
Close(s) ==
    /\ s \in sockets
    /\ sockets' = IF s = "udp" THEN sockets ELSE sockets \ {s}
    /\ UNCHANGED <<input, seen, fate, queue, accepted, appVars>>

\* udp_recv, raw_recv: wait, without a look at the queue
Recv(r, s) ==
    /\ readers[r].pc = "out"
    /\ readers' = [readers EXCEPT ![r] = [pc |-> "wait", so |-> s]]
    /\ UNCHANGED <<input, seen, fate, sockets, queue, accepted, returned>>

\* Mutant: the newest datagram first
RecvPopRight(r) ==
    LET s == readers[r].so
        n == Len(queue[s]) IN
    /\ readers[r].pc = "woken"
    /\ readers' = [readers EXCEPT ![r].pc = IF n = 0 THEN "raised" ELSE "out"]
    /\ IF n = 0 THEN UNCHANGED <<queue, returned>>
       ELSE /\ returned' = [returned EXCEPT ![s] = Append(@, queue[s][n])]
            /\ queue' = [queue EXCEPT ![s] = SubSeq(@, 1, n - 1)]
    /\ UNCHANGED <<input, seen, fate, sockets, accepted>>

\* queue.popleft(), with the lock; an empty queue raises IndexError
RecvPop(r) ==
    LET s == readers[r].so IN
    /\ readers[r].pc = "woken"
    /\ readers' = [readers EXCEPT ![r].pc = IF queue[s] = <<>> THEN "raised" ELSE "out"]
    /\ IF queue[s] = <<>> THEN UNCHANGED <<queue, returned>>
       ELSE /\ returned' = [returned EXCEPT ![s] = Append(@, Head(queue[s]))]
            /\ queue' = [queue EXCEPT ![s] = Tail(@)]
    /\ UNCHANGED <<input, seen, fate, sockets, accepted>>

\* The timeout of wait(); a notification that comes while it expires is used up
RecvTimeout(r) ==
    /\ readers[r].pc \in {"wait", "woken"}
    /\ readers' = [readers EXCEPT ![r].pc = "out"]
    /\ UNCHANGED <<input, seen, fate, sockets, queue, accepted, returned>>

App ==
    \/ \E s \in Sockets : Connect(s) \/ Close(s)
    \/ \E r \in Readers : (\E s \in Sockets : Recv(r, s)) \/ RecvPop(r) \/ RecvTimeout(r)

InputNext == (\E f \in Frames : RxIp(f)) \/ RxThread \/ App

InputSpec == InputInit /\ [][InputNext]_inputVars

-----------------------------------------------------------------------------
(* Properties *)

\* A reader that was woken finds a datagram: popleft() never raises IndexError although
\* get_data appends without the lock, several threads read and any of them may time out.
RecvFindsDatagram == \A r \in Readers : readers[r].pc # "raised"

\* Between RX thread and readers no datagram is lost, duplicated or overtaken: what was
\* returned and what is queued are, in order, what was put into the queue.
QueueIsFifo == \A s \in Sockets : returned[s] \o queue[s] = accepted[s]

-----------------------------------------------------------------------------
(* Statements of comments that the code does not keep *)

\* "pass data the socket": a correct datagram for a registered socket is not dropped.
UdpDelivered ==
    [][input.pc = "rx_udp" /\ input.f.kind = "udp_data" /\ "udp" \in sockets
        => input'.pc # "idle"]_inputVars

\* "pass it to the next layer, and return": a complete datagram has one fate.
DeliveredAndReturned == Len(fate) <= 1

\* "handle : ICMP Type 3 (Destination Unreachable), Code 3": it does not end the thread.
UnreachableHandled == input.pc = "dead" => input.f.kind # "port_unreach"
=============================================================================
