------------------------------- MODULE TcpFsm -------------------------------
(***************************************************************************)
(* One TCP control block (TCPCB), driven by the TCP event loop.            *)
(*                                                                         *)
(* The application thread and the timer thread queue CONNECT, SEND and RTX *)
(* events; the loop takes them in FIFO order and runs one handler at a     *)
(* time (tcp_events.py), so a handler is one atomic action here.  The peer *)
(* and the network are unconstrained: any segment of Segments may reach    *)
(* the loop at any time, which stands for every interleaving of received   *)
(* segments with the queued events, for loss, duplication and reordering.  *)
(* A segment queued before the TCPCB left the tables is still handled.     *)
(*                                                                         *)
(* Abstractions.  snd_buf and rcv_buf are kept as absolute stream          *)
(* positions (r, vr, vw and rcv_rd, rcv_wr).  A batch that _tx_loop cuts   *)
(* into MSS-sized segments is one segment.  Timers fire at any time, so    *)
(* the RTO estimate is not kept, and the challenge-ACK budget may be       *)
(* exhausted at any time.                                                  *)
(***************************************************************************)
EXTENDS TcpSeq, Sequences

CONSTANTS
    Segments,     \* the segments a peer may send
    ISS,          \* our initial sequence number
    SndLimit,     \* bytes the application sends over the connection
    RcvSpace,     \* usable bytes of rcv_buf; the initial window is one more
    MaxTx,        \* TCP_MAX_TX_BYTES
    MaxEvents,    \* bound on queued events
    MaxOrphans,   \* bound on live retransmission timers nobody points to
    SendAfterShutdown, \* may the application call send() after shutdown()/close()?
    LingerOptions      \* whether SO_LINGER may be set to (on, 0)

States == {"SYN_SENT", "SYN_RECV", "ESTAB", "FIN_WAIT_1", "FIN_WAIT_2",
           "CLOSE_WAIT", "CLOSING", "LAST_ACK", "TIME_WAIT", "CLOSED"}

Segment == [seq : SeqNum, ack_seq : SeqNum, dlen : Nat, wnd : Nat,
            syn : {0, 1}, fin : {0, 1}, rst : BOOLEAN, ack : BOOLEAN]

OutSegment == [flag : {"SYN", "SYN_ACK", "ACK", "FIN", "RST"}, seq : SeqNum, dlen : Nat]

ASSUME FsmAssumption ==
    /\ Segments \subseteq Segment
    /\ ISS \in SeqNum
    /\ SndLimit \in Nat
    /\ RcvSpace \in Nat \ {0}
    /\ RcvSpace + 1 < Half
    /\ MaxTx \in Nat \ {0}
    /\ MaxEvents \in Nat \ {0}
    /\ MaxOrphans \in Nat
    /\ SendAfterShutdown \in BOOLEAN
    /\ LingerOptions \subseteq BOOLEAN

VARIABLES
    state,                            \* tcpcb.state
    snd_una, snd_nxt, snd_max,        \* send sequence variables
    snd_wnd, snd_wl1, snd_wl2,        \* peer's window and its last update
    r, vr, vw,                        \* snd_buf: acked, sent and written bytes
    rcv_nxt, rcv_wnd, rcv_adv, irs,   \* receive sequence variables
    rcv_rd, rcv_wr,                   \* rcv_buf: read and written bytes
    ack_now, sent_fin,                \* helper flags
    close_requested, shutdown_requested,
    linger,                           \* SO_LINGER is set to (on, 0)
    remote_mss,                       \* 0, or 1 for any MSS learnt from the peer
    rtx_timer,                        \* "none", "pending" or "fired" (RTX queued)
    orphans,                          \* live rtx timers no field points to
    time_wait_timer,
    events,                           \* FIFO of the TCP event loop
    registered,                       \* entry in the tcp.sockets/tcp.tcpcbs tables
    so_error, app,                    \* socket error; progress of the application
    loop,                             \* event-loop thread: "running", "dead" or "spinning"
    out                               \* segments transmitted by the last step

seqVars == <<snd_una, snd_nxt, snd_max>>
wndVars == <<snd_wnd, snd_wl1, snd_wl2>>
bufVars == <<r, vr, vw>>
rcvVars == <<rcv_nxt, rcv_wnd, rcv_adv, irs, rcv_rd, rcv_wr>>
flagVars == <<ack_now, sent_fin>>
reqVars == <<close_requested, shutdown_requested, linger, remote_mss>>
timerVars == <<rtx_timer, orphans, time_wait_timer>>
sockVars == <<registered, so_error, app>>
vars == <<state, seqVars, wndVars, bufVars, rcvVars, flagVars, reqVars,
          timerVars, events, sockVars, loop, out>>

-----------------------------------------------------------------------------
(* Transmission helpers *)

Seg(flag, seq, dlen) == [flag |-> flag, seq |-> seq, dlen |-> dlen]

\* _send_ack, _send_rst: sequence number snd_nxt
AckSeg(nxt) == {Seg("ACK", nxt, 0)}
RstSeg(nxt) == {Seg("RST", nxt, 0)}

\* _drop_with_reset
DropWithReset(s) == {Seg("RST", IF s.ack THEN s.ack_seq ELSE snd_nxt, 0)}

\* _send_challenge_ack: sent unless the rate limit is exhausted
SendChallengeAck ==
    \/ out' = AckSeg(snd_nxt)
    \/ out' = {}

\* schedule_event, called by a handler, a timer or the application
Schedule(ev) ==
    /\ Len(events) < MaxEvents
    /\ events' = Append(events, ev)

\* rcv_buf.free_space()
RcvFree == RcvSpace - (rcv_wr - rcv_rd)

\* Mutant: the right edge compared as plain integers
NewRcvAdvUnwrapped(nxt) ==
    LET adv == Mask(RcvFree + nxt)
    IN  IF adv > rcv_adv THEN adv ELSE rcv_adv

\* _compute_rcv_wnd, with rcv_nxt already advanced to nxt
NewRcvAdv(nxt) ==
    LET adv == Mask(RcvFree + nxt)
    IN  IF seq_gt(adv, rcv_adv) THEN adv ELSE rcv_adv

ComputeRcvWnd ==
    /\ rcv_wnd' = RcvFree
    /\ rcv_adv' = NewRcvAdv(rcv_nxt)
    /\ UNCHANGED <<rcv_nxt, irs, rcv_rd, rcv_wr>>

\* stop_all_timers, state CLOSED, remove_tcpcb: common to every abort
Abort ==
    /\ state' = "CLOSED"
    /\ rtx_timer' = "none"
    /\ time_wait_timer' = "none"
    /\ registered' = FALSE

Least(a, b) == IF a <= b THEN a ELSE b

-----------------------------------------------------------------------------
(* Acceptance of an incoming segment *)

Todrop(s) == seq_diff(rcv_nxt, s.seq)

\* tcp_data_len: trimmed to one less than the room up to rcv_adv
DataLen(s) == Least(Mask(seq_diff(rcv_adv, rcv_nxt) - 1),
                    seq_diff(last_seq(s) + 1, rcv_nxt))

InOrder(s) == /\ seq_leq(s.seq, rcv_nxt)
              /\ seq_geq(last_seq(s), rcv_nxt)

OutOfOrder(s) == /\ seq_gt(s.seq, rcv_nxt)
                 /\ seq_lt(s.seq, rcv_adv)

\* _h_rx_seq: "HANDLE", "BUFFER" (out of order) or "DROP"
h_rx_seq(s) ==
    CASE SegLen(s) = 0 /\ rcv_wnd = 0 -> IF s.seq = rcv_nxt THEN "HANDLE" ELSE "DROP"
      [] SegLen(s) = 0 /\ rcv_wnd # 0 -> IF seq_leq(rcv_nxt, s.seq) /\ seq_lt(s.seq, rcv_adv)
                                         THEN "HANDLE" ELSE "DROP"
      [] SegLen(s) > 0 /\ rcv_wnd = 0 -> "DROP"
      [] OTHER -> IF InOrder(s) THEN "HANDLE"
                  ELSE IF OutOfOrder(s) THEN "BUFFER" ELSE "DROP"

\* _h_rx_seq_check, used by the states in which the peer has sent its FIN
h_rx_seq_check(s) ==
    IF seq_geq(s.seq, rcv_nxt) /\ seq_lt(s.seq, rcv_adv) THEN "HANDLE" ELSE "DROP"

\* What _h_rx_seq_normal makes of an in-order segment: dlen becomes the number of
\* sequence numbers left, the FIN among them; start and len delimit its new data.
Trim(s) ==
    IF SegLen(s) = 0
    THEN [seq |-> s.seq, dlen |-> 0, fin |-> 0, start |-> 0, len |-> 0]
    ELSE [seq   |-> Mask(s.seq + Todrop(s)),
          dlen  |-> s.dlen - (Todrop(s) - s.fin - s.syn),
          fin   |-> IF seq_geq(last_seq(s), rcv_adv) THEN 0 ELSE s.fin,
          start |-> Todrop(s),
          len   |-> DataLen(s)]

AdvancedRcvNxt(s) == Mask(rcv_nxt + Trim(s).len)

\* _h_rx_ack
AckAccepted(s) == ~ seq_leq(s.ack_seq, snd_una) /\ ~ seq_gt(s.ack_seq, snd_nxt)
SeqAcked(s) == IF AckAccepted(s) THEN seq_diff(s.ack_seq, snd_una) ELSE 0
HRxAck(s) == snd_una' = IF AckAccepted(s) THEN s.ack_seq ELSE snd_una

AllAcked(s) == AckAccepted(s) /\ s.ack_seq = snd_nxt

\* Mutant: a partial ACK stops the timer
RtxTimerOnAckStops(s) ==
    rtx_timer' = IF ~ AckAccepted(s) THEN rtx_timer ELSE "none"

\* restart_rtx_timer on a partial ACK, stop_rtx_timer once everything is acked
RtxTimerOnAck(s) ==
    rtx_timer' = IF ~ AckAccepted(s) THEN rtx_timer
                 ELSE IF AllAcked(s) THEN "none" ELSE "pending"

\* _h_rx_wnd, where seq is the segment's possibly trimmed sequence number
HRxWnd(s, seq) ==
    IF seq_lt(snd_wl1, seq) \/ (seq = snd_wl1 /\ seq_lt(snd_wl2, s.ack_seq))
    THEN snd_wl1' = seq /\ snd_wl2' = s.ack_seq /\ snd_wnd' = s.wnd
    ELSE UNCHANGED wndVars

\* Bytes of data[start : len], the slice _append_rcv_data copies
SliceLen(s, t) == LET n == Least(s.dlen, t.len) - t.start IN IF n > 0 THEN n ELSE 0

\* The advance of rcv_nxt by _h_rx_seq, then _append_rcv_data
AppendRcvData(s) ==
    LET t    == Trim(s)
        copy == s.dlen > 0 /\ RcvFree > 0
    IN  /\ rcv_nxt' = AdvancedRcvNxt(s)
        /\ rcv_adv' = NewRcvAdv(AdvancedRcvNxt(s))
        /\ rcv_wnd' = IF copy THEN RcvFree - t.len ELSE RcvFree
        /\ rcv_wr' = IF copy THEN rcv_wr + Least(SliceLen(s, t), RcvFree) ELSE rcv_wr
        /\ UNCHANGED <<irs, rcv_rd>>

-----------------------------------------------------------------------------
(* The application: tcp_usrreq.py *)

Init ==
    /\ state = "CLOSED"
    /\ snd_una = 0 /\ snd_nxt = 0 /\ snd_max = 0
    /\ snd_wnd = 0 /\ snd_wl1 = 0 /\ snd_wl2 = 0
    /\ r = 0 /\ vr = 0 /\ vw = 0
    /\ rcv_nxt = 0 /\ rcv_wnd = RcvSpace + 1 /\ rcv_adv = 0 /\ irs = 0
    /\ rcv_rd = 0 /\ rcv_wr = 0
    /\ ack_now = FALSE /\ sent_fin = FALSE
    /\ close_requested = FALSE /\ shutdown_requested = FALSE /\ linger \in LingerOptions
    /\ remote_mss = 0
    /\ rtx_timer = "none" /\ orphans = 0 /\ time_wait_timer = "none"
    /\ events = <<>>
    /\ registered = FALSE /\ so_error = "none" /\ app = "idle"
    /\ loop = "running"
    /\ out = {}

\* tcp_connect: register the TCPCB, schedule CONNECT, block until notified
AppConnect ==
    /\ app = "idle"
    /\ app' = "connecting"
    /\ registered' = TRUE
    /\ Schedule("CONNECT")
    /\ out' = {}
    /\ UNCHANGED <<state, seqVars, wndVars, bufVars, rcvVars, flagVars, reqVars,
                   timerVars, so_error, loop>>

\* tcp_send, when snd_buf has room for the n bytes
AppSend(n) ==
    /\ app = "connected"
    /\ so_error = "none"
    /\ registered
    /\ SendAfterShutdown \/ ~ (close_requested \/ shutdown_requested)
    /\ vw + n <= SndLimit
    /\ vw' = vw + n
    /\ Schedule("SEND")
    /\ out' = {}
    /\ UNCHANGED <<state, seqVars, wndVars, r, vr, rcvVars, flagVars, reqVars,
                   timerVars, sockVars, loop>>

\* tcp_recv of n bytes that are there, in a state that still delivers data
AppRecv(n) ==
    /\ app = "connected"
    /\ so_error = "none"
    /\ registered
    /\ state \notin {"CLOSE_WAIT", "LAST_ACK", "CLOSED", "CLOSING", "TIME_WAIT"}
    /\ n <= rcv_wr - rcv_rd
    /\ rcv_rd' = rcv_rd + n
    /\ out' = {}
    /\ UNCHANGED <<state, seqVars, wndVars, bufVars, rcv_nxt, rcv_wnd, rcv_adv, irs, rcv_wr,
                   flagVars, reqVars, timerVars, events, sockVars, loop>>

\* tcp_shutdown
AppShutdown ==
    /\ app = "connected"
    /\ registered
    /\ shutdown_requested' = TRUE
    /\ Schedule("SEND")
    /\ out' = {}
    /\ UNCHANGED <<state, seqVars, wndVars, bufVars, rcvVars, flagVars, close_requested,
                   linger, remote_mss, timerVars, sockVars, loop>>

\* tcp_close, also after a refused connect
AppClose ==
    /\ app \in {"connected", "refused"}
    /\ registered
    /\ close_requested' = TRUE
    /\ Schedule("SEND")
    /\ out' = {}
    /\ UNCHANGED <<state, seqVars, wndVars, bufVars, rcvVars, flagVars, shutdown_requested,
                   linger, remote_mss, timerVars, sockVars, loop>>

-----------------------------------------------------------------------------
(* Segments received before the connection is synchronized *)

\* connect_events.notify(): only a connect() still blocked takes notice
Connected == app' = IF app = "connecting" THEN "connected" ELSE app

\* _rx_syn_sent: a RST that acknowledges our SYN refuses the connection
RxSynSentRefused(s) ==
    /\ state = "SYN_SENT" /\ s.rst /\ AckAccepted(s)
    /\ snd_una' = s.ack_seq
    /\ rtx_timer' = "none"
    /\ so_error' = "ECONNREFUSED"
    /\ app' = "refused"
    /\ out' = {}
    /\ UNCHANGED <<state, snd_nxt, snd_max, wndVars, bufVars, rcvVars, flagVars, reqVars,
                   orphans, time_wait_timer, events, registered, loop>>

\* _rx_syn_sent: SYN+ACK of our SYN; its payload, if any, is buffered
RxSynSentEstab(s) ==
    LET l == Least(s.dlen, RcvFree) IN
    /\ state = "SYN_SENT" /\ s.fin = 0 /\ s.syn = 1 /\ s.ack /\ ~ s.rst /\ AckAccepted(s)
    /\ snd_una' = s.ack_seq
    /\ rtx_timer' = "none"
    /\ irs' = s.seq
    /\ rcv_wr' = rcv_wr + l
    /\ rcv_wnd' = rcv_wnd - l
    /\ rcv_nxt' = Mask(s.seq + 1 + l)
    /\ rcv_adv' = Mask(s.seq + 1 + rcv_wnd)
    /\ snd_wnd' = s.wnd /\ snd_wl1' = s.seq /\ snd_wl2' = s.ack_seq
    /\ remote_mss' = 1
    /\ state' = "ESTAB"
    /\ Connected
    /\ out' = AckSeg(snd_nxt)
    /\ UNCHANGED <<snd_nxt, snd_max, bufVars, rcv_rd, flagVars, close_requested,
                   shutdown_requested, linger, orphans, time_wait_timer, events,
                   registered, so_error, loop>>

\* _rx_syn_sent: SYN+ACK that does not acknowledge our SYN (half-open peer)
RxSynSentBadAck(s) ==
    /\ state = "SYN_SENT" /\ s.fin = 0 /\ s.syn = 1 /\ s.ack /\ ~ AckAccepted(s)
    /\ out' = DropWithReset(s)
    /\ UNCHANGED <<state, seqVars, wndVars, bufVars, rcvVars, flagVars, reqVars,
                   timerVars, events, sockVars, loop>>

\* _rx_syn_sent: simultaneous open, our SYN is sent again with an ACK
RxSynSentSyn(s) ==
    /\ state = "SYN_SENT" /\ s.fin = 0 /\ s.syn = 1 /\ ~ s.ack
    /\ ~ (s.rst /\ AckAccepted(s))
    /\ vr' = r
    /\ snd_nxt' = Mask(snd_una + 1)
    /\ rtx_timer' = "pending"
    /\ irs' = s.seq
    /\ rcv_nxt' = Mask(s.seq + 1)
    /\ rcv_adv' = Mask(s.seq + 1 + rcv_wnd)
    /\ snd_wnd' = s.wnd /\ snd_wl1' = s.seq /\ snd_wl2' = s.ack_seq
    /\ state' = "SYN_RECV"
    /\ out' = {Seg("SYN_ACK", snd_una, 0)}
    /\ UNCHANGED <<snd_una, snd_max, r, vw, rcv_wnd, rcv_rd, rcv_wr, flagVars, reqVars, orphans,
                   time_wait_timer, events, sockVars, loop>>

\* _rx_syn_recv strips the SYN it consumed before and ignores payload.  The
\* difference it tests is not masked.
SynRecvSeg(s) ==
    [s EXCEPT !.seq = IF rcv_nxt - s.seq > 0 THEN Mask(s.seq + 1) ELSE s.seq,
              !.syn = IF rcv_nxt - s.seq > 0 THEN 0 ELSE 1,
              !.dlen = 0]

RxSynRecvGuard(s) == state = "SYN_RECV" /\ s.ack /\ s.syn = 1

SynRecvInOrder(s) == h_rx_seq(SynRecvSeg(s)) = "HANDLE" /\ SegLen(SynRecvSeg(s)) > 0

\* _rx_syn_recv: SYN+ACK of our SYN completes a simultaneous open
RxSynRecvEstab(s) ==
    /\ RxSynRecvGuard(s)
    /\ ~ seq_lt(s.seq, irs)
    /\ h_rx_seq(SynRecvSeg(s)) # "DROP"
    /\ AckAccepted(s)
    /\ snd_una' = s.ack_seq
    /\ rtx_timer' = "none"
    /\ rcv_nxt' = IF SynRecvInOrder(s) THEN AdvancedRcvNxt(SynRecvSeg(s)) ELSE rcv_nxt
    /\ HRxWnd(s, IF SynRecvInOrder(s) THEN Trim(SynRecvSeg(s)).seq ELSE SynRecvSeg(s).seq)
    /\ state' = "ESTAB"
    /\ Connected
    /\ out' = AckSeg(snd_nxt)
    /\ UNCHANGED <<snd_nxt, snd_max, bufVars, rcv_wnd, rcv_adv, irs, rcv_rd, rcv_wr, flagVars,
                   reqVars, orphans, time_wait_timer, events, registered, so_error, loop>>

\* _rx_syn_recv: an old SYN, or an ACK that does not cover ours, is answered by RST
RxSynRecvReset(s) ==
    /\ RxSynRecvGuard(s)
    /\ \/ /\ seq_lt(s.seq, irs)
          /\ UNCHANGED rcv_nxt
       \/ /\ ~ seq_lt(s.seq, irs)
          /\ h_rx_seq(SynRecvSeg(s)) # "DROP"
          /\ ~ AckAccepted(s)
          /\ rcv_nxt' = IF SynRecvInOrder(s) THEN AdvancedRcvNxt(SynRecvSeg(s)) ELSE rcv_nxt
    /\ out' = DropWithReset(s)
    /\ UNCHANGED <<state, seqVars, wndVars, bufVars, rcv_wnd, rcv_adv, irs, rcv_rd, rcv_wr,
                   flagVars, reqVars, timerVars, events, sockVars, loop>>

\* _rx_syn_recv: a segment outside the window is answered by an ACK
RxSynRecvDrop(s) ==
    /\ RxSynRecvGuard(s)
    /\ ~ seq_lt(s.seq, irs)
    /\ h_rx_seq(SynRecvSeg(s)) = "DROP"
    /\ out' = AckSeg(snd_nxt)
    /\ UNCHANGED <<state, seqVars, wndVars, bufVars, rcvVars, flagVars, reqVars,
                   timerVars, events, sockVars, loop>>

-----------------------------------------------------------------------------
(* Segments received in the synchronized states *)

Trimming == {"ESTAB", "FIN_WAIT_1", "FIN_WAIT_2"}      \* they call _h_rx_seq
Checking == {"CLOSE_WAIT", "CLOSING", "LAST_ACK"}      \* they call _h_rx_seq_check

Accept(s) == IF state \in Trimming THEN h_rx_seq(s)
             ELSE IF state \in Checking THEN h_rx_seq_check(s) ELSE "IGNORE"

\* The segment's dlen once its sequence number has been handled
AcceptedDlen(s) == IF state \in Trimming THEN Trim(s).dlen ELSE s.dlen

\* What accepting a segment changes before its flags are looked at
AdvanceRcvNxt(s) ==
    /\ rcv_nxt' = IF state \in Trimming THEN AdvancedRcvNxt(s) ELSE rcv_nxt
    /\ UNCHANGED <<rcv_wnd, rcv_adv, irs, rcv_rd, rcv_wr>>

\* _h_active_close_rx: data after close() aborts the connection
CloseAborts(s) ==
    /\ state \in {"FIN_WAIT_1", "FIN_WAIT_2", "CLOSE_WAIT", "CLOSING"}
    /\ close_requested
    /\ AcceptedDlen(s) # 0

Ordinary(s) == Accept(s) = "HANDLE" /\ ~ s.rst /\ ~ CloseAborts(s) /\ s.syn = 0

\* _h_rx_rst
RxReset(s) ==
    /\ Accept(s) = "HANDLE" /\ s.rst
    /\ AdvanceRcvNxt(s)
    /\ so_error' = "ECONNRESET"
    /\ Abort
    /\ out' = {}
    /\ UNCHANGED <<seqVars, wndVars, bufVars, flagVars, reqVars, orphans, events, app, loop>>

\* _h_active_close_rx
RxCloseAbort(s) ==
    /\ Accept(s) = "HANDLE" /\ ~ s.rst /\ CloseAborts(s)
    /\ AdvanceRcvNxt(s)
    /\ Abort
    /\ out' = DropWithReset(s)
    /\ UNCHANGED <<seqVars, wndVars, bufVars, flagVars, reqVars, orphans, events,
                   so_error, app, loop>>

\* A SYN in the window is challenged
RxSyn(s) ==
    /\ Accept(s) = "HANDLE" /\ ~ s.rst /\ ~ CloseAborts(s) /\ s.syn = 1
    /\ AdvanceRcvNxt(s)
    /\ SendChallengeAck
    /\ UNCHANGED <<state, seqVars, wndVars, bufVars, flagVars, reqVars, timerVars,
                   events, sockVars, loop>>

\* An unacceptable segment
RxDrop(s) ==
    /\ Accept(s) = "DROP"
    /\ CASE state \in Trimming    -> SendChallengeAck /\ UNCHANGED events
         [] state = "CLOSING"     -> out' = AckSeg(snd_nxt) /\ UNCHANGED events
         [] state = "CLOSE_WAIT"  -> out' = {} /\ Schedule("SEND")
         [] OTHER                 -> out' = {} /\ UNCHANGED events
    /\ UNCHANGED <<state, seqVars, wndVars, bufVars, rcvVars, flagVars, reqVars,
                   timerVars, sockVars, loop>>

\* An out-of-order segment: acknowledged, not kept
RxBuffer(s) ==
    /\ Accept(s) = "BUFFER"
    /\ IF state = "ESTAB"
       THEN ack_now' = TRUE /\ out' = {} /\ Schedule("SEND")
       ELSE out' = AckSeg(snd_nxt) /\ UNCHANGED <<ack_now, events>>
    /\ UNCHANGED <<state, seqVars, wndVars, bufVars, rcvVars, sent_fin, reqVars,
                   timerVars, sockVars, loop>>

AckNow(s) == ack_now' = (ack_now \/ Trim(s).dlen > 0 \/ Trim(s).fin = 1)

\* Mutant: free(n=seq_acked-1) on every segment
FreeAckedAlways(s) == r' = r + SeqAcked(s) - 1

\* snd_buf.free: bytes acknowledged, less the FIN once it is acknowledged too
FreeAcked(s) == r' = r + SeqAcked(s) - (IF AllAcked(s) THEN 1 ELSE 0)

EnterTimeWait == state' = "TIME_WAIT" /\ time_wait_timer' = "pending"

\* _rx_estab
RxEstab(s) ==
    /\ state = "ESTAB" /\ Ordinary(s)
    /\ AckNow(s)
    /\ HRxAck(s)
    /\ RtxTimerOnAck(s)
    /\ r' = r + SeqAcked(s)
    /\ HRxWnd(s, Trim(s).seq)
    /\ AppendRcvData(s)
    /\ state' = IF Trim(s).fin = 1 THEN "CLOSE_WAIT" ELSE state
    /\ Schedule("SEND")
    /\ out' = {}
    /\ UNCHANGED <<snd_nxt, snd_max, vr, vw, sent_fin, reqVars, orphans,
                   time_wait_timer, sockVars, loop>>

\* _rx_fin_wait_1.  A FIN that acknowledges nothing new leaves the state alone.
RxFinWait1(s) ==
    /\ state = "FIN_WAIT_1" /\ Ordinary(s)
    /\ AckNow(s)
    /\ HRxAck(s)
    /\ RtxTimerOnAck(s)
    /\ FreeAcked(s)
    /\ IF AllAcked(s)
       THEN IF Trim(s).fin = 1
            THEN EnterTimeWait
            ELSE state' = "FIN_WAIT_2" /\ UNCHANGED time_wait_timer
       ELSE /\ state' = IF AckAccepted(s) /\ Trim(s).fin = 1 THEN "CLOSING" ELSE state
            /\ UNCHANGED time_wait_timer
    /\ HRxWnd(s, Trim(s).seq)
    /\ AppendRcvData(s)
    /\ out' = IF ack_now' THEN AckSeg(snd_nxt) ELSE {}
    /\ UNCHANGED <<snd_nxt, snd_max, vr, vw, sent_fin, reqVars, orphans, events,
                   sockVars, loop>>

\* _rx_fin_wait_2
RxFinWait2(s) ==
    /\ state = "FIN_WAIT_2" /\ Ordinary(s)
    /\ AckNow(s)
    /\ HRxAck(s)
    /\ HRxWnd(s, Trim(s).seq)
    /\ IF Trim(s).fin = 1 THEN EnterTimeWait ELSE UNCHANGED <<state, time_wait_timer>>
    /\ AppendRcvData(s)
    /\ out' = AckSeg(snd_nxt)
    /\ UNCHANGED <<snd_nxt, snd_max, bufVars, sent_fin, reqVars, rtx_timer, orphans,
                   events, sockVars, loop>>

\* _rx_close_wait
RxCloseWait(s) ==
    /\ state = "CLOSE_WAIT" /\ Ordinary(s)
    /\ HRxAck(s)
    /\ RtxTimerOnAck(s)
    /\ r' = r + SeqAcked(s)
    /\ HRxWnd(s, s.seq)
    /\ Schedule("SEND")
    /\ out' = {}
    /\ UNCHANGED <<state, snd_nxt, snd_max, vr, vw, rcvVars, flagVars, reqVars, orphans,
                   time_wait_timer, sockVars, loop>>

\* _rx_closing
RxClosing(s) ==
    /\ state = "CLOSING" /\ Ordinary(s)
    /\ HRxAck(s)
    /\ RtxTimerOnAck(s)
    /\ FreeAcked(s)
    /\ IF AllAcked(s) THEN EnterTimeWait ELSE UNCHANGED <<state, time_wait_timer>>
    /\ HRxWnd(s, s.seq)
    /\ out' = {}
    /\ UNCHANGED <<snd_nxt, snd_max, vr, vw, rcvVars, flagVars, reqVars, orphans,
                   events, sockVars, loop>>

\* _rx_last_ack.  The TCPCB stays registered when it reaches CLOSED.
RxLastAck(s) ==
    /\ state = "LAST_ACK" /\ Ordinary(s)
    /\ HRxAck(s)
    /\ RtxTimerOnAck(s)
    /\ FreeAcked(s)
    /\ state' = IF AllAcked(s) THEN "CLOSED" ELSE state
    /\ HRxWnd(s, s.seq)
    /\ out' = {}
    /\ UNCHANGED <<snd_nxt, snd_max, vr, vw, rcvVars, flagVars, reqVars, orphans,
                   time_wait_timer, events, sockVars, loop>>

\* _rx_time_wait
RxTimeWait(s) ==
    /\ state = "TIME_WAIT" /\ s.fin = 1
    /\ time_wait_timer' = "pending"
    /\ out' = AckSeg(snd_nxt)
    /\ UNCHANGED <<state, seqVars, wndVars, bufVars, rcvVars, flagVars, reqVars,
                   rtx_timer, orphans, events, sockVars, loop>>

-----------------------------------------------------------------------------
(* Transmission: the tx handlers run for SEND events with the current snd_nxt, vr and *)
(* rtx_timer, and for RTX events after the rollback to snd_una, r and no timer.       *)

Sending == {"ESTAB", "CLOSE_WAIT", "FIN_WAIT_1", "CLOSING", "LAST_ACK"}

StartRtxTimer(tm) == IF tm = "none" THEN "pending" ELSE tm

\* _drain_snd_buf: bytes drained from position vr0
Drained(vr0) == Least(Least(MaxTx, snd_wnd), vw - vr0)

\* Mutant: a FIN always starts an active close
NextOnFinActive == IF state \in {"ESTAB", "CLOSE_WAIT"} THEN "FIN_WAIT_1" ELSE state

\* The state entered when the FIN is first sent
NextOnFin == CASE state = "ESTAB" -> "FIN_WAIT_1"
               [] state = "CLOSE_WAIT" -> "LAST_ACK"
               [] OTHER -> state

FinRequested == state \in {"ESTAB", "CLOSE_WAIT"} => close_requested \/ shutdown_requested

\* _h_active_close_tx, as each handler calls it
LingerAborts(vr0) ==
    /\ close_requested /\ linger
    /\ \/ state \in {"ESTAB", "CLOSE_WAIT", "FIN_WAIT_2"}
       \/ state \in {"FIN_WAIT_1", "CLOSING"} /\ vr0 = vw

\* The handlers of these states call _compute_rcv_wnd first
RefreshRcvWnd == IF state \in {"ESTAB", "FIN_WAIT_1", "CLOSE_WAIT"}
                 THEN ComputeRcvWnd ELSE UNCHANGED rcvVars

TxUnchanged == UNCHANGED <<snd_una, wndVars, r, vw, reqVars, so_error, app>>

TxAbort(nxt0, vr0) ==
    /\ LingerAborts(vr0)
    /\ Abort
    /\ snd_nxt' = nxt0
    /\ vr' = IF state = "FIN_WAIT_2" THEN vr0 ELSE vr0 + Drained(vr0)
    /\ RefreshRcvWnd
    /\ out' = RstSeg(nxt0)
    /\ UNCHANGED <<snd_max, flagVars, loop>>

\* Mutant: sequence numbers compared as plain integers
RaiseSndMaxUnwrapped(n) ==
    snd_max' = IF n > 0 /\ snd_nxt' > snd_max THEN snd_nxt' ELSE snd_max

\* _tx_loop: snd_max follows snd_nxt as segments are sent
RaiseSndMax(n) ==
    snd_max' = IF n > 0 /\ seq_gt(snd_nxt', snd_max) THEN snd_nxt' ELSE snd_max

\* _tx_loop
TxData(nxt0, vr0, tm0) ==
    LET n   == Drained(vr0)
        fin == IF FinRequested /\ n > 0 THEN 1 ELSE 0
    IN  /\ state \in Sending /\ vr0 < vw /\ ~ LingerAborts(vr0)
        /\ n = 0 \/ remote_mss # 0
        /\ vr' = vr0 + n
        /\ snd_nxt' = Mask(nxt0 + n + fin)
        /\ RaiseSndMax(n)
        /\ sent_fin' = (sent_fin \/ fin = 1)
        /\ state' = IF fin = 1 THEN NextOnFin ELSE state
        /\ rtx_timer' = StartRtxTimer(tm0)
        /\ RefreshRcvWnd
        /\ out' = IF n > 0 THEN {Seg(IF fin = 1 THEN "FIN" ELSE "ACK", nxt0, n)} ELSE {}
        /\ UNCHANGED <<ack_now, time_wait_timer, registered, loop>>

\* _tx_loop with no MSS to cut segments by: it transmits empty segments for ever
TxSpin(nxt0, vr0, tm0) ==
    /\ state \in Sending /\ vr0 < vw /\ ~ LingerAborts(vr0)
    /\ Drained(vr0) > 0 /\ remote_mss = 0
    /\ loop' = "spinning"
    /\ vr' = vr0 + Drained(vr0)
    /\ snd_nxt' = nxt0
    /\ rtx_timer' = tm0
    /\ RefreshRcvWnd
    /\ out' = AckSeg(nxt0)
    /\ UNCHANGED <<state, snd_max, flagVars, time_wait_timer, registered>>

FinDue(vr0) == /\ state \in Sending /\ vr0 = vw /\ ~ LingerAborts(vr0)
               /\ FinRequested
               /\ snd_wnd > 0

\* _send_fin
TxFin(nxt0, vr0, tm0) ==
    /\ FinDue(vr0)
    /\ IF sent_fin
       THEN /\ IF seq_gt(snd_max, nxt0)
               THEN /\ snd_nxt' = Mask(nxt0 + 1)
                    /\ rtx_timer' = StartRtxTimer(tm0)
                    /\ out' = {Seg("FIN", nxt0, 0)}
               ELSE snd_nxt' = nxt0 /\ rtx_timer' = tm0 /\ out' = {}
            /\ UNCHANGED <<state, snd_max, sent_fin>>
       ELSE /\ snd_nxt' = Mask(nxt0 + 1)
            /\ snd_max' = snd_nxt'
            /\ sent_fin' = TRUE
            /\ rtx_timer' = StartRtxTimer(tm0)
            /\ state' = NextOnFin
            /\ out' = {Seg("FIN", nxt0, 0)}
    /\ ack_now' = (ack_now /\ state # "ESTAB")
    /\ vr' = vr0
    /\ RefreshRcvWnd
    /\ UNCHANGED <<time_wait_timer, registered, loop>>

\* No data and no FIN to send: an ACK if one is due
TxAckOrNothing(nxt0, vr0, tm0) ==
    /\ \/ state \in Sending /\ vr0 = vw /\ ~ FinDue(vr0)
       \/ state = "FIN_WAIT_2"
    /\ ~ LingerAborts(vr0)
    /\ IF state \in {"ESTAB", "CLOSE_WAIT"} /\ ack_now
       THEN ack_now' = FALSE /\ out' = AckSeg(nxt0)
       ELSE out' = {} /\ UNCHANGED ack_now
    /\ snd_nxt' = nxt0 /\ vr' = vr0 /\ rtx_timer' = tm0
    /\ RefreshRcvWnd
    /\ UNCHANGED <<state, snd_max, sent_fin, time_wait_timer, registered, loop>>

\* _tx_syn_sent, _tx_syn_recv
TxSyn(nxt0, vr0, tm0) ==
    /\ state \in {"SYN_SENT", "SYN_RECV"}
    /\ snd_nxt' = Mask(nxt0 + 1) /\ vr' = vr0
    /\ rtx_timer' = StartRtxTimer(tm0)
    /\ out' = {Seg(IF state = "SYN_SENT" THEN "SYN" ELSE "SYN_ACK", nxt0, 0)}
    /\ UNCHANGED <<state, snd_max, rcvVars, flagVars, time_wait_timer, registered, loop>>

\* Mutant: the CLOSED entry of _tx_map still sends a pending ACK
TxNoHandlerAcks(nxt0, vr0, tm0) ==
    /\ state \in {"TIME_WAIT", "CLOSED"}
    /\ loop' = IF state = "TIME_WAIT" THEN "dead" ELSE loop
    /\ snd_nxt' = nxt0 /\ vr' = vr0 /\ rtx_timer' = tm0
    /\ out' = IF state = "CLOSED" /\ ack_now THEN AckSeg(nxt0) ELSE {}
    /\ UNCHANGED <<state, snd_max, rcvVars, flagVars, time_wait_timer, registered>>

\* _tx_map: no handler for TIME_WAIT (calling None raises TypeError and ends
\* the event-loop thread), none needed for CLOSED
TxNoHandler(nxt0, vr0, tm0) ==
    /\ state \in {"TIME_WAIT", "CLOSED"}
    /\ loop' = IF state = "TIME_WAIT" THEN "dead" ELSE loop
    /\ snd_nxt' = nxt0 /\ vr' = vr0 /\ rtx_timer' = tm0
    /\ out' = {}
    /\ UNCHANGED <<state, snd_max, rcvVars, flagVars, time_wait_timer, registered>>

Tx(nxt0, vr0, tm0) ==
    /\ \/ TxAbort(nxt0, vr0)
       \/ TxData(nxt0, vr0, tm0)
       \/ TxSpin(nxt0, vr0, tm0)
       \/ TxFin(nxt0, vr0, tm0)
       \/ TxAckOrNothing(nxt0, vr0, tm0)
       \/ TxSyn(nxt0, vr0, tm0)
       \/ TxNoHandler(nxt0, vr0, tm0)
    /\ TxUnchanged

-----------------------------------------------------------------------------
(* The event loop (tcp_events.py) and the timer thread (timer.py) *)

Take(ev) ==
    /\ loop = "running"
    /\ events # <<>> /\ Head(events) = ev
    /\ events' = Tail(events)

\* CONNECT: _activ_open
EvConnect ==
    /\ Take("CONNECT")
    /\ snd_una' = ISS
    /\ snd_nxt' = Mask(ISS + 1) /\ snd_max' = snd_nxt'
    /\ state' = "SYN_SENT"
    /\ rtx_timer' = StartRtxTimer(rtx_timer)
    /\ out' = {Seg("SYN", ISS, 0)}
    /\ UNCHANGED <<wndVars, bufVars, rcvVars, flagVars, reqVars, orphans, time_wait_timer,
                   sockVars, loop>>

\* SEND: tx
EvSend ==
    /\ Take("SEND")
    /\ Tx(snd_nxt, vr, rtx_timer)
    /\ UNCHANGED orphans

\* Mutant: rtx rolls back snd_nxt but not snd_buf
EvRtxKeepsVr ==
    /\ Take("RTX")
    /\ IF rtx_timer = "pending"
       THEN orphans < MaxOrphans /\ orphans' = orphans + 1
       ELSE UNCHANGED orphans
    /\ Tx(snd_una, vr, "none")

\* RTX: rtx rolls back to snd_una and forgets the timer without removing it, so
\* a timer restarted since this event was queued stays live
EvRtx ==
    /\ Take("RTX")
    /\ IF rtx_timer = "pending"
       THEN orphans < MaxOrphans /\ orphans' = orphans + 1
       ELSE UNCHANGED orphans
    /\ Tx(snd_una, r, "none")

\* RX_SEGMENT: rx
Rx(s) ==
    /\ loop = "running"
    /\ \/ RxSynSentRefused(s) \/ RxSynSentEstab(s) \/ RxSynSentBadAck(s) \/ RxSynSentSyn(s)
       \/ RxSynRecvEstab(s) \/ RxSynRecvReset(s) \/ RxSynRecvDrop(s)
       \/ RxReset(s) \/ RxCloseAbort(s) \/ RxSyn(s) \/ RxDrop(s) \/ RxBuffer(s)
       \/ RxEstab(s) \/ RxFinWait1(s) \/ RxFinWait2(s)
       \/ RxCloseWait(s) \/ RxClosing(s) \/ RxLastAck(s) \/ RxTimeWait(s)

TimerUnchanged == UNCHANGED <<state, seqVars, wndVars, bufVars, rcvVars, flagVars, reqVars,
                              so_error, app, loop>>

RtxTimerFires ==
    /\ rtx_timer = "pending"
    /\ rtx_timer' = "fired"
    /\ Schedule("RTX")
    /\ out' = {}
    /\ TimerUnchanged
    /\ UNCHANGED <<orphans, time_wait_timer, registered>>

OrphanFires ==
    /\ orphans > 0
    /\ orphans' = orphans - 1
    /\ Schedule("RTX")
    /\ out' = {}
    /\ TimerUnchanged
    /\ UNCHANGED <<rtx_timer, time_wait_timer, registered>>

\* The time-wait timer calls remove_tcpcb and leaves the state alone
TimeWaitFires ==
    /\ time_wait_timer = "pending"
    /\ time_wait_timer' = "fired"
    /\ registered' = FALSE
    /\ out' = {}
    /\ TimerUnchanged
    /\ UNCHANGED <<rtx_timer, orphans, events>>

App == \/ AppConnect
       \/ \E n \in 1 .. SndLimit : AppSend(n)
       \/ \E n \in 1 .. RcvSpace : AppRecv(n)
       \/ AppShutdown
       \/ AppClose

Next == \/ App
        \/ EvConnect \/ EvSend \/ EvRtx
        \/ \E s \in Segments : Rx(s)
        \/ RtxTimerFires \/ OrphanFires \/ TimeWaitFires

Spec == Init /\ [][Next]_vars

-----------------------------------------------------------------------------
(* Properties *)

EventKinds == {"CONNECT", "SEND", "RTX"}

TimerStates == {"none", "pending", "fired"}

SndTypeOK ==
    /\ snd_una \in SeqNum /\ snd_nxt \in SeqNum /\ snd_max \in SeqNum
    /\ snd_wnd \in Nat /\ snd_wl1 \in SeqNum /\ snd_wl2 \in SeqNum
    /\ r \in Nat /\ vr \in Nat /\ vw \in Nat

RcvTypeOK ==
    /\ rcv_nxt \in SeqNum /\ rcv_wnd \in Int /\ rcv_adv \in SeqNum /\ irs \in SeqNum
    /\ rcv_rd \in Nat /\ rcv_wr \in Nat
    /\ rcv_rd <= rcv_wr /\ rcv_wr <= rcv_rd + RcvSpace

CtlTypeOK ==
    /\ state \in States
    /\ ack_now \in BOOLEAN /\ sent_fin \in BOOLEAN
    /\ close_requested \in BOOLEAN /\ shutdown_requested \in BOOLEAN
    /\ linger \in BOOLEAN /\ remote_mss \in {0, 1}
    /\ rtx_timer \in TimerStates /\ orphans \in Nat /\ time_wait_timer \in TimerStates
    /\ events \in Seq(EventKinds)
    /\ registered \in BOOLEAN
    /\ so_error \in {"none", "ECONNREFUSED", "ECONNRESET"}
    /\ app \in {"idle", "connecting", "connected", "refused"}
    /\ loop \in {"running", "dead", "spinning"}

\* Type invariant: sequence numbers stay in their 32-bit space, buffer offsets never
\* become negative (snd_buf.free(n=seq_acked-1)), and rcv_buf never overflows.
TypeOK == SndTypeOK /\ RcvTypeOK /\ CtlTypeOK /\ out \subseteq OutSegment

Queued(ev) == \E i \in 1 .. Len(events) : events[i] = ev

\* States in which an unacknowledged sequence number of ours may be outstanding
Outstanding == {"SYN_SENT", "SYN_RECV"} \cup Sending

\* Retransmission is never forgotten: while anything that was sent, the FIN included, is
\* unacknowledged, the retransmission timer runs, its RTX event is in the queue, or, after
\* a rollback whose first part was acknowledged, the SEND event that goes on and starts
\* the timer is; whatever ACKs, timer expiries and SEND events crossed each other
\* (start_rtx_timer skips a timer that has fired, rtx drops the timer it finds).  What was
\* sent ends at snd_max: _rollback_to_una takes snd_nxt back.  A refused connection is
\* excluded: it stays in SYN_SENT, where every close() sends one more SYN and an ACK of
\* only some of them stops the timer (_rx_syn_sent).
RetransmitGuard ==
    app # "refused" /\ state \in Outstanding /\ snd_una # snd_max
        => rtx_timer = "pending" \/ Queued("RTX") \/ Queued("SEND")

\* How a connection opens: until CONNECT is handled nothing else happens, and until
\* connect() returns the SYN is all that was sent and no SEND event is queued.
Opening ==
    /\ app = "idle" =>
           state = "CLOSED" /\ events = <<>> /\ rtx_timer = "none" /\ orphans = 0
    /\ app = "connecting" =>
           \/ /\ state = "CLOSED" /\ events = <<"CONNECT">>
              /\ rtx_timer = "none" /\ orphans = 0
           \/ /\ state \in {"SYN_SENT", "SYN_RECV"}
              /\ snd_nxt = Mask(snd_una + 1)
              /\ ~ Queued("SEND") /\ ~ Queued("CONNECT")
    /\ app \in {"connected", "refused"} => ~ Queued("CONNECT")
    /\ app = "connected" => state \notin {"SYN_SENT", "SYN_RECV"}

\* Sequence numbers and snd_buf never drift apart: the byte at offset r (vr) of the
\* stream has sequence number snd_una (snd_nxt), through ACKs, rollbacks, and the FIN
\* that takes a sequence number but no byte (snd_buf.free(n=seq_acked-1)).
StreamAligned ==
    app = "connected" /\ state \in Sending /\ loop # "spinning" =>
        /\ r <= vr /\ vr <= vw
        /\ snd_una = Mask(ISS + 1 + r)
        /\ \/ snd_nxt = Mask(ISS + 1 + vr)
           \/ sent_fin /\ vr = vw /\ snd_nxt = Mask(ISS + 2 + vw)

\* The step in which a handler concludes that our FIN is acknowledged; an abort, which
\* also leads to CLOSED, removes the TCPCB from the tables
FinAcked ==
    /\ state \in {"FIN_WAIT_1", "CLOSING", "LAST_ACK"}
    /\ \/ state' \in {"FIN_WAIT_2", "TIME_WAIT"}
       \/ state' = "CLOSED" /\ registered'

\* A graceful close loses nothing: when "all outstanding data, including the FIN, has been
\* acknowledged", this is every byte the application wrote, and the FIN after it
\* (_rx_fin_wait_1, _rx_closing, _rx_last_ack).
CloseLosesNothing ==
    [][app = "connected" /\ FinAcked => r' = vw /\ snd_una' = Mask(ISS + 2 + vw)]_vars

\* snd_nxt never passes snd_max, the highest sequence number sent: retransmissions
\* after a rollback never run ahead, and every ACK accepted was for something sent.
NothingBeyondMax ==
    app = "connected" /\ state \in Sending =>
        seq_leq(snd_una, snd_nxt) /\ seq_leq(snd_nxt, snd_max)

Synchronized == States \ {"CLOSED", "SYN_SENT"}

\* The receive window always leaves room: rcv_adv stays ahead of rcv_nxt by at least
\* one and at most the initial window, so `seq_diff(rcv_adv, rcv_nxt) - 1` in
\* _h_rx_seq_normal never wraps around to 0xFFFFFFFF.
RcvRoom ==
    state \in Synchronized => seq_diff(rcv_adv, rcv_nxt) \in 1 .. RcvSpace + 1

\* A connection that was torn down stays down and silent: events and timers that
\* were queued before an abort transmit nothing afterwards (_ignore_closed_tcp_event).
ClosedIsSilent ==
    [][state = "CLOSED" /\ app \notin {"idle", "connecting"}
          => state' = "CLOSED" /\ out' = {}]_vars

\* The half-close view of the connection that the state machine implements
LocalHalf ==
    CASE state = "CLOSED" -> IF app \in {"idle", "connecting"} THEN "closed" ELSE "gone"
      [] state \in {"SYN_SENT", "SYN_RECV"} -> "opening"
      [] state \in {"ESTAB", "CLOSE_WAIT"} -> "open"
      [] state \in {"FIN_WAIT_1", "CLOSING", "LAST_ACK"} -> "fin_sent"
      [] OTHER -> "fin_acked"

PeerHalf ==
    CASE state \in {"CLOSED", "SYN_SENT", "SYN_RECV"} -> "closed"
      [] state \in {"ESTAB", "FIN_WAIT_1", "FIN_WAIT_2"} -> "open"
      [] OTHER -> "fin_received"

Conn == INSTANCE TcpConn WITH local <- LocalHalf, peer <- PeerHalf

\* The state machine of tcp_fsm.py implements the two half-connections of TcpConn: no
\* interleaving of ACKs, FINs and retransmissions reopens a half or skips a step.
ImplementsConn == Conn!Spec

-----------------------------------------------------------------------------
(* Statements of comments and docstrings that the code does not keep *)

\* "padding (no tx for time_wait)": no SEND or RTX event reaches TIME_WAIT.
NoTxInTimeWait == loop # "dead"

\* "if no MSS options exists use the default MSS: 536": data is never cut with MSS 0.
MssKnown == loop # "spinning"

\* "a FIN is sent after the last data segment": a FIN's sequence number follows the
\* last byte the application wrote.
FinAfterData ==
    [][\A o \in out' : o.flag = "FIN" => Mask(o.seq + o.dlen) = Mask(ISS + 1 + vw)]_vars

\* tcp_data_start and tcp_data_len delimit the acceptable data of a segment that
\* overlaps rcv_nxt: every byte rcv_nxt moves over, but for the FIN, is in rcv_buf.
AckedBytesBuffered ==
    state = "ESTAB" => rcv_nxt = Mask(irs + 1 + rcv_wr)
=============================================================================
