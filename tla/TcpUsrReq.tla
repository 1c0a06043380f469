----------------------------- MODULE TcpUsrReq ------------------------------
(***************************************************************************)
(* The blocking calls of a TCP socket (protocols/tcp/tcp_usrreq.py) and    *)
(* the places of the event loop that wake them (protocols/tcp/tcp_fsm.py). *)
(*                                                                         *)
(* One thread connects; then a reader calls recv() again and again and a   *)
(* writer sends one buffer.  Every access to shared state is a step of its *)
(* own.  A condition variable wakes a thread that waits and nobody else.   *)
(* The event loop is reduced to what the calls can see of a connection:    *)
(* TcpFsm has its sequence numbers, RingBuffer and RRingBuffer the bytes.  *)
(***************************************************************************)
EXTENDS Naturals, Sequences

CONSTANTS
    RcvSize,      \* capacity of rcv_buf
    SndSize,      \* bytes snd_buf takes before any is sent
    SendLen,      \* length of the buffer given to send()
    MaxIn         \* bound on the bytes the peer sends

ASSUME UsrReqAssumption == {RcvSize, SndSize, SendLen, MaxIn} \subseteq Nat

VARIABLES
    state,        \* tcpcb.state; "RESET" is CLOSED, with the TCPCB removed
    event,        \* a CONNECT event is queued
    so_error,     \* so.error
    lock,         \* connect_events is held by the connecting thread
    woken,        \* threads whose wait has been notified
    loop,         \* steps the handler in progress has still to make
    conn, rd, wr, \* steps of the three threads
    rcv,          \* bytes in rcv_buf
    rcvd,         \* bytes received so far
    eof,          \* the peer's FIN was received (history)
    result,       \* what the last recv() returned
    unsent,       \* bytes in snd_buf between its write and its read offset
    unacked,      \* bytes sent and not acknowledged
    dlen,         \* bytes send() has still to queue
    stream        \* positions of the given buffer, in the order they were queued (history)

tcpVars == <<state, event>>
rcvVars == <<rcv, rcvd, eof>>
sndVars == <<unsent, unacked, dlen, stream>>
usrVars == <<tcpVars, so_error, lock, woken, loop, conn, rd, wr, rcvVars, result, sndVars>>

UsrInit ==
    /\ state = "CLOSED" /\ event = FALSE
    /\ so_error = "none" /\ lock = FALSE /\ woken = {} /\ loop = <<>>
    /\ conn = "start" /\ rd = "out" /\ wr = "out"
    /\ rcv = 0 /\ rcvd = 0 /\ eof = FALSE /\ result = "none"
    /\ unsent = 0 /\ unacked = 0 /\ dlen = SendLen /\ stream = <<>>

Min(a, b) == IF a < b THEN a ELSE b
Raise(pc) == IF so_error = "none" THEN pc ELSE "raised"

-----------------------------------------------------------------------------
(* tcp_connect *)

\* Mutant: the event is scheduled before the lock is taken
ConnectScheduleUnlocked ==
    /\ conn = "start"
    /\ event' = TRUE /\ conn' = "scheduled"
    /\ UNCHANGED <<state, so_error, lock, woken, loop, rd, wr, rcvVars, result, sndVars>>

ConnectSchedule ==
    /\ conn = "start"
    /\ lock' = TRUE /\ event' = TRUE /\ conn' = "scheduled"
    /\ UNCHANGED <<state, so_error, woken, loop, rd, wr, rcvVars, result, sndVars>>

ConnectWait ==
    /\ conn = "scheduled"
    /\ lock' = FALSE /\ conn' = "wait"
    /\ UNCHANGED <<tcpVars, so_error, woken, loop, rd, wr, rcvVars, result, sndVars>>

ConnectReturn ==
    /\ conn = "wait" /\ "conn" \in woken
    /\ woken' = woken \ {"conn"} /\ conn' = Raise("done")
    /\ UNCHANGED <<tcpVars, so_error, lock, loop, rd, wr, rcvVars, result, sndVars>>

-----------------------------------------------------------------------------
(* tcp_recv *)

NonReceivable == {"CLOSE_WAIT", "TIME_WAIT", "CLOSED", "RESET"}

RecvCall ==
    /\ conn = "done" /\ rd = "out"
    /\ rd' = Raise("lookup")
    /\ UNCHANGED <<tcpVars, so_error, lock, woken, loop, conn, wr, rcvVars, result, sndVars>>

RecvLookup ==
    /\ rd = "lookup"
    /\ so_error' = IF state = "RESET" THEN "ENOTCONN" ELSE so_error
    /\ rd' = IF state = "RESET" THEN "raised" ELSE "state"
    /\ UNCHANGED <<tcpVars, lock, woken, loop, conn, wr, rcvVars, result, sndVars>>

\* In a state in which nothing more can arrive the result is empty
RecvState ==
    /\ rd = "state"
    /\ IF state \in NonReceivable
         THEN rd' = "out" /\ result' = "empty"
         ELSE rd' = "empty" /\ UNCHANGED result
    /\ UNCHANGED <<tcpVars, so_error, lock, woken, loop, conn, wr, rcvVars, sndVars>>

RecvIsEmpty ==
    /\ rd = "empty"
    /\ rd' = IF rcv = 0 THEN "towait" ELSE "dequeue"
    /\ UNCHANGED <<tcpVars, so_error, lock, woken, loop, conn, wr, rcvVars, result, sndVars>>

RecvWait ==
    /\ rd = "towait"
    /\ rd' = "wait"
    /\ UNCHANGED <<tcpVars, so_error, lock, woken, loop, conn, wr, rcvVars, result, sndVars>>

RecvWake ==
    /\ rd = "wait" /\ "rd" \in woken
    /\ woken' = woken \ {"rd"} /\ rd' = "dequeue"
    /\ UNCHANGED <<tcpVars, so_error, lock, loop, conn, wr, rcvVars, result, sndVars>>

\* settimeout() was called and the time is over
RecvTimeout ==
    /\ rd = "wait" /\ "rd" \notin woken
    /\ so_error' = "ETIMEDOUT" /\ rd' = "raised"
    /\ UNCHANGED <<tcpVars, lock, woken, loop, conn, wr, rcvVars, result, sndVars>>

\* Whatever the wake-up was for, the buffer is read; so.error is not looked at again
RecvDequeue ==
    /\ rd = "dequeue"
    /\ result' = IF rcv = 0 THEN "empty" ELSE "data"
    /\ rcv' \in IF rcv = 0 THEN {0} ELSE 0 .. rcv - 1
    /\ rd' = "out"
    /\ UNCHANGED <<tcpVars, so_error, lock, woken, loop, conn, wr, rcvd, eof, sndVars>>

-----------------------------------------------------------------------------
(* tcp_send, for a buffer of SendLen bytes, and tcp_shutdown *)

SendCall ==
    /\ conn = "done" /\ wr = "out"
    /\ wr' = Raise("lookup")
    /\ UNCHANGED <<tcpVars, so_error, lock, woken, loop, conn, rd, rcvVars, result, sndVars>>

SendLookup ==
    /\ wr = "lookup"
    /\ so_error' = IF state = "RESET" THEN "EPIPE" ELSE so_error
    /\ wr' = IF state = "RESET" THEN "raised" ELSE "enqueue"
    /\ UNCHANGED <<tcpVars, lock, woken, loop, conn, rd, rcvVars, result, sndVars>>

\* Every round passes the whole buffer to enqueue(), which takes what fits
SendEnqueue ==
    LET l == Min(SndSize - unsent, SendLen) IN
    /\ wr = "enqueue"
    /\ unsent' = unsent + l
    /\ dlen' = IF l < dlen THEN dlen - l ELSE 0
    /\ stream' = stream \o [i \in 1 .. l |-> i]
    /\ wr' = IF l < dlen THEN "towait" ELSE "done"
    /\ UNCHANGED <<unacked, tcpVars, so_error, lock, woken, loop, conn, rd, rcvVars, result>>

SendWait ==
    /\ wr = "towait"
    /\ wr' = "wait"
    /\ UNCHANGED <<tcpVars, so_error, lock, woken, loop, conn, rd, rcvVars, result, sndVars>>

SendWake ==
    /\ wr = "wait" /\ "wr" \in woken
    /\ woken' = woken \ {"wr"} /\ wr' = Raise("enqueue")
    /\ UNCHANGED <<tcpVars, so_error, lock, loop, conn, rd, rcvVars, result, sndVars>>

-----------------------------------------------------------------------------
(* The event loop *)

LoopIdle == loop = <<>>
CallsUnchanged == UNCHANGED <<lock, woken, conn, rd, wr, result, dlen, stream>>

Step(do, arg) == [do |-> do, arg |-> arg]
Notify(thread) == Step("notify", thread)
Waits(thread) == thread \in {t \in {"conn"} : conn = "wait"}
                    \cup {t \in {"rd"} : rd = "wait"} \cup {t \in {"wr"} : wr = "wait"}

\* with cond: cond.notify()
LoopNotify ==
    /\ loop # <<>> /\ Head(loop).do = "notify"
    /\ Head(loop).arg = "conn" => ~ lock
    /\ loop' = Tail(loop)
    /\ woken' = IF Waits(Head(loop).arg) THEN woken \cup {Head(loop).arg} ELSE woken
    /\ UNCHANGED <<tcpVars, so_error, lock, conn, rd, wr, rcvVars, result, sndVars>>

\* _change_state; "RESET" is remove_tcpcb
LoopState ==
    /\ loop # <<>> /\ Head(loop).do = "state"
    /\ loop' = Tail(loop) /\ state' = Head(loop).arg
    /\ eof' = (eof \/ state' \in {"CLOSE_WAIT", "TIME_WAIT"})
    /\ CallsUnchanged /\ UNCHANGED <<event, so_error, rcv, rcvd, unsent, unacked>>

\* rcv_buf.enqueue
LoopEnqueue ==
    /\ loop # <<>> /\ Head(loop).do = "enqueue"
    /\ loop' = Tail(loop) /\ rcv' = rcv + Head(loop).arg
    /\ CallsUnchanged /\ UNCHANGED <<tcpVars, so_error, rcvd, eof, unsent, unacked>>

\* connect(): the SYN is sent
LoopConnect ==
    /\ LoopIdle /\ event
    /\ event' = FALSE /\ state' = "SYN_SENT"
    /\ CallsUnchanged /\ UNCHANGED <<so_error, loop, rcvVars, unsent, unacked>>

\* A SEND event sends some of what is queued
LoopSend ==
    /\ LoopIdle /\ state \in {"ESTAB", "CLOSE_WAIT"}
    /\ \E n \in 1 .. unsent : unsent' = unsent - n /\ unacked' = unacked + n
    /\ CallsUnchanged /\ UNCHANGED <<tcpVars, so_error, loop, rcvVars>>

\* A SEND event after shutdown(), and the peer's ACK of the FIN
LoopShutdown ==
    /\ LoopIdle /\ wr = "done" /\ unsent + unacked = 0 /\ state = "ESTAB"
    /\ state' = "FIN_WAIT_2"
    /\ CallsUnchanged /\ UNCHANGED <<event, so_error, loop, rcvVars, unsent, unacked>>

\* _rx_syn_sent, RST: the state stays, the caller is told
RxRefused ==
    /\ LoopIdle /\ state = "SYN_SENT" /\ so_error = "none"
    /\ so_error' = "ECONNREFUSED" /\ loop' = <<Notify("conn")>>
    /\ CallsUnchanged /\ UNCHANGED <<tcpVars, rcvVars, unsent, unacked>>

\* _rx_syn_sent, SYN of a simultaneous open
RxSyn ==
    /\ LoopIdle /\ state = "SYN_SENT"
    /\ state' = "SYN_RECV"
    /\ CallsUnchanged /\ UNCHANGED <<event, so_error, loop, rcvVars, unsent, unacked>>

\* _rx_syn_sent and _rx_syn_recv, our SYN is acknowledged; the SYN-ACK may carry data
RxEstab(n) ==
    /\ LoopIdle /\ state \in {"SYN_SENT", "SYN_RECV"}
    /\ n > 0 => state = "SYN_SENT" /\ n <= RcvSize
    /\ rcvd' = rcvd + n /\ rcvd' <= MaxIn
    /\ rcv' = rcv + n
    /\ state' = "ESTAB"
    /\ loop' = <<Notify("conn")>> \o IF n > 0 THEN <<Notify("rd")>> ELSE <<>>
    /\ CallsUnchanged /\ UNCHANGED <<event, so_error, eof, unsent, unacked>>

\* An ACK empties part of what is outstanding; only _rx_estab tells the sender
RxAck ==
    /\ LoopIdle /\ state \in {"ESTAB", "CLOSE_WAIT"} /\ unacked > 0
    /\ unacked' \in 0 .. unacked - 1
    /\ loop' = IF state = "ESTAB" THEN <<Notify("wr")>> ELSE <<>>
    /\ CallsUnchanged /\ UNCHANGED <<tcpVars, so_error, rcvVars, unsent>>

\* Mutant: the data is appended and nobody is told
RxDataSilent(n, fin) ==
    LET append == IF n > 0 THEN <<Step("enqueue", n)>> ELSE <<>>
    IN
    /\ LoopIdle /\ state \in {"ESTAB", "FIN_WAIT_2"}
    /\ n > 0 \/ fin
    /\ rcv + n <= RcvSize
    /\ rcvd' = rcvd + n /\ rcvd' <= MaxIn
    /\ loop' = CASE ~ fin -> append
                 [] fin /\ state = "ESTAB" -> append \o <<Step("state", "CLOSE_WAIT"), Notify("rd")>>
                 [] fin /\ state = "FIN_WAIT_2" -> <<Step("state", "TIME_WAIT")>> \o append
    /\ CallsUnchanged /\ UNCHANGED <<tcpVars, so_error, rcv, eof, unsent, unacked>>

\* Data (_append_rcv_data) and FIN: _rx_estab tells the reader of both, _rx_fin_wait_2 of data
RxData(n, fin) ==
    LET append == IF n > 0 THEN <<Step("enqueue", n), Notify("rd")>> ELSE <<>>
    IN
    /\ LoopIdle /\ state \in {"ESTAB", "FIN_WAIT_2"}
    /\ n > 0 \/ fin
    /\ rcv + n <= RcvSize
    /\ rcvd' = rcvd + n /\ rcvd' <= MaxIn
    /\ loop' = CASE ~ fin -> append
                 [] fin /\ state = "ESTAB" -> append \o <<Step("state", "CLOSE_WAIT"), Notify("rd")>>
                 [] fin /\ state = "FIN_WAIT_2" -> <<Step("state", "TIME_WAIT")>> \o append
    /\ CallsUnchanged /\ UNCHANGED <<tcpVars, so_error, rcv, eof, unsent, unacked>>

\* Mutant: the error is left unset
RxRstNoError ==
    /\ LoopIdle /\ state \in {"ESTAB", "CLOSE_WAIT", "FIN_WAIT_2"}
    /\ loop' = <<Step("state", "CLOSED"), Step("state", "RESET"), Notify("rd"), Notify("wr")>>
    /\ CallsUnchanged /\ UNCHANGED <<tcpVars, so_error, rcvVars, unsent, unacked>>

\* _h_rx_rst, then _signal_rst
RxRst ==
    /\ LoopIdle /\ state \in {"ESTAB", "CLOSE_WAIT", "FIN_WAIT_2"}
    /\ so_error' = "ECONNRESET"
    /\ loop' = <<Step("state", "CLOSED"), Step("state", "RESET"), Notify("rd"), Notify("wr")>>
    /\ CallsUnchanged /\ UNCHANGED <<tcpVars, rcvVars, unsent, unacked>>

Connecting == ConnectSchedule \/ ConnectWait \/ ConnectReturn
Receiving == RecvLookup \/ RecvState \/ RecvIsEmpty \/ RecvWait \/ RecvWake \/ RecvDequeue
Sending == SendLookup \/ SendEnqueue \/ SendWait \/ SendWake
Loop == LoopNotify \/ LoopState \/ LoopEnqueue \/ LoopConnect \/ LoopSend

Peer ==
    \/ RxRefused \/ RxSyn \/ RxAck \/ RxRst
    \/ \E n \in 0 .. MaxIn : RxEstab(n)
    \/ \E n \in 0 .. MaxIn, fin \in BOOLEAN : RxData(n, fin)

UsrNext ==
    \/ Connecting \/ Receiving \/ Sending
    \/ RecvCall \/ RecvTimeout \/ SendCall
    \/ Loop \/ LoopShutdown \/ Peer

UsrSpec == UsrInit /\ [][UsrNext]_usrVars

\* A call that was made goes on and the event loop runs; calls and segments come as they like
FairSpec == /\ UsrSpec
            /\ WF_usrVars(Connecting) /\ WF_usrVars(Receiving) /\ WF_usrVars(Sending)
            /\ WF_usrVars(Loop)

-----------------------------------------------------------------------------
(* Properties *)

Pending(thread) == Notify(thread) \in {loop[i] : i \in DOMAIN loop}

\* Once the peer has accepted or refused, connect() returns or raises.
ConnectReturns ==
    (state = "ESTAB" \/ so_error = "ECONNREFUSED") ~> conn \in {"done", "raised"}

\* A recv() that already waits when data arrives wakes up, whatever came before it and
\* also when a FIN comes with the data (_append_rcv_data notifies after the enqueue).
DataWakesReader ==
    (rd = "wait" /\ loop # <<>> /\ Head(loop).do = "enqueue") ~> rd # "wait"

\* A send() that waits when the connection is reset raises (_signal_rst, after so.error).
ResetEndsSend == (state = "RESET" /\ wr = "wait" /\ Pending("wr")) ~> wr = "raised"

-----------------------------------------------------------------------------
(* Statements of comments that the code does not keep *)

\* "Notifies the application (socket.recv()) when data is ready."
ReaderHearsOfData == rd = "wait" /\ rcv > 0 => "rd" \in woken \/ loop # <<>>

\* recv() is empty only at "the end of the remote's data", or after a reset.
EmptyMeansEnd == result = "empty" => eof \/ so_error # "none"

\* "the end of the remote's data": recv() reports it once the data before it was read.
EndAfterData == result = "empty" /\ eof /\ so_error = "none" => rcv = 0

\* "notify him to indicates the end of the remote's data"
ReaderHearsOfEnd == (rd = "wait" /\ eof) ~> rd # "wait"

\* "Notify waiting threads on RST receipt to raise the corresponding exception."
ResetIsRaised == [][rd = "dequeue" /\ so_error = "ECONNRESET" => result' # "empty"]_usrVars

\* "tcp_send userreq may be waiting for a signal to enqueue remaining data"
RemainingDataQueued == \A i \in 1 .. Len(stream) : stream[i] = i

\* "moving offsets means some space is available to write": the sender hears of it.
WriterHearsOfSpace == (wr = "wait" /\ unsent + unacked = 0) ~> wr # "wait"
=============================================================================
