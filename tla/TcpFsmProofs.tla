---------------------------- MODULE TcpFsmProofs ----------------------------
(***************************************************************************)
(* For every set of segments, sequence space, buffer size and queue bound: *)
(* the state machine keeps its types, and a connection opens in one way.   *)
(***************************************************************************)
EXTENDS TcpFsm, TLAPS

\* The provers, and their seconds, for a leaf that names none
USE SMTT(30), ZenonT(30)

-----------------------------------------------------------------------------
(* Masked arithmetic *)

\* `& 0xFFFFFFFF` always yields a sequence number.
LEMMA MaskType == \A n \in Int : Mask(n) \in SeqNum
  BY HalfAssumption DEF Mask, SeqNum, SeqSpace

\* Masking a sequence number leaves it alone.
LEMMA MaskSmall == \A n \in SeqNum : Mask(n) = n
  BY HalfAssumption DEF Mask, SeqNum, SeqSpace

\* Distinct sequence numbers differ by at least one in either direction.
LEMMA DiffPositive ==
  ASSUME NEW a \in SeqNum, NEW b \in SeqNum, a # b
  PROVE  seq_diff(a, b) \in Nat /\ seq_diff(a, b) >= 1
  BY HalfAssumption DEF Mask, SeqNum, SeqSpace, seq_diff

\* Sequence numbers are natural numbers.
LEMMA SeqNumNat == \A n \in SeqNum : n \in Nat
  BY HalfAssumption DEF SeqNum, SeqSpace

\* Least returns one of its arguments and is below both.
LEMMA LeastType ==
  ASSUME NEW a \in Int, NEW b \in Int
  PROVE  /\ Least(a, b) \in Int /\ Least(a, b) <= a /\ Least(a, b) <= b
         /\ Least(a, b) = a \/ Least(a, b) = b
  BY DEF Least

-----------------------------------------------------------------------------
(* Types of the acceptance helpers *)

\* The fields of a segment have the types _h_rx_seq and its callers rely on.
LEMMA SegmentType ==
  ASSUME NEW s \in Segments
  PROVE  /\ s.seq \in SeqNum /\ s.ack_seq \in SeqNum /\ s.dlen \in Nat /\ s.wnd \in Nat
         /\ s.syn \in {0, 1} /\ s.fin \in {0, 1} /\ s.rst \in BOOLEAN /\ s.ack \in BOOLEAN
         /\ s \in Segment
  BY FsmAssumption DEF Segment

\* The fields of a trimmed segment, one by one.
LEMMA TrimFields ==
  ASSUME NEW s
  PROVE  /\ Trim(s).start = IF SegLen(s) = 0 THEN 0 ELSE Todrop(s)
         /\ Trim(s).len = IF SegLen(s) = 0 THEN 0 ELSE DataLen(s)
         /\ Trim(s).fin = IF SegLen(s) = 0 \/ seq_geq(last_seq(s), rcv_adv) THEN 0 ELSE s.fin
  <1>1. CASE SegLen(s) = 0
    BY <1>1 DEF Trim
  <1>2. CASE SegLen(s) # 0
    BY <1>2 DEF Trim
  <1> QED BY <1>1, <1>2

\* Trimming yields a sequence number, a FIN flag and a nonnegative amount of data.
LEMMA TrimType ==
  ASSUME NEW s \in Segment, RcvTypeOK
  PROVE  /\ Trim(s).seq \in SeqNum /\ Trim(s).dlen \in Int /\ Trim(s).fin \in {0, 1}
         /\ Trim(s).start \in Nat /\ Trim(s).len \in Nat
  <1>1. SegLen(s) \in Nat /\ last_seq(s) \in Int
    BY SeqNumNat DEF Segment, SegLen, last_seq
  <1>2. Todrop(s) \in SeqNum
    BY MaskType, SeqNumNat DEF Todrop, seq_diff, Segment, RcvTypeOK
  <1>3. DataLen(s) \in Nat
    <2>1. seq_diff(rcv_adv, rcv_nxt) \in Int
      BY MaskType, SeqNumNat DEF seq_diff, RcvTypeOK
    <2>2. Mask(seq_diff(rcv_adv, rcv_nxt) - 1) \in Nat
      BY <2>1, MaskType, SeqNumNat
    <2>3. seq_diff(last_seq(s) + 1, rcv_nxt) \in Nat
      BY <1>1, MaskType, SeqNumNat DEF seq_diff, RcvTypeOK
    <2> QED BY <2>2, <2>3 DEF DataLen, Least
  <1>4. Mask(s.seq + Todrop(s)) \in SeqNum
    BY <1>2, MaskType, SeqNumNat DEF Segment
  <1>5. s.seq \in SeqNum /\ s.dlen \in Nat /\ s.fin \in {0, 1} /\ s.syn \in {0, 1}
    BY DEF Segment
  <1>6. CASE SegLen(s) = 0
    BY <1>5, <1>6 DEF Trim
  <1>7. CASE SegLen(s) # 0
    <2>1. s.dlen - (Todrop(s) - s.fin - s.syn) \in Int /\ Todrop(s) \in Nat
      BY <1>2, <1>5, SeqNumNat
    <2> QED BY <1>3, <1>4, <1>5, <1>7, <2>1 DEF Trim
  <1> QED BY <1>6, <1>7

\* Advancing rcv_nxt over a segment yields a sequence number.
LEMMA AdvancedType ==
  ASSUME NEW s \in Segment, RcvTypeOK
  PROVE  AdvancedRcvNxt(s) \in SeqNum
  BY TrimType, MaskType, SeqNumNat DEF AdvancedRcvNxt, RcvTypeOK

\* The free space of rcv_buf is between nothing and all of it.
LEMMA RcvFreeType ==
  ASSUME RcvTypeOK
  PROVE  RcvFree \in Nat /\ RcvFree <= RcvSpace
  BY FsmAssumption DEF RcvTypeOK, RcvFree

\* rcv_adv is always a sequence number.
LEMMA NewRcvAdvType ==
  ASSUME RcvTypeOK, NEW nxt \in SeqNum
  PROVE  NewRcvAdv(nxt) \in SeqNum
  BY RcvFreeType, MaskType, SeqNumNat DEF RcvTypeOK, NewRcvAdv

\* _compute_rcv_wnd keeps the receive variables in their types.
LEMMA ComputeRcvWndType ==
  ASSUME RcvTypeOK, ComputeRcvWnd
  PROVE  RcvTypeOK'
  BY RcvFreeType, NewRcvAdvType DEF ComputeRcvWnd, RcvTypeOK

\* _append_rcv_data never overflows rcv_buf.
LEMMA AppendType ==
  ASSUME NEW s \in Segment, RcvTypeOK, AppendRcvData(s)
  PROVE  RcvTypeOK'
  <1>1. Trim(s).len \in Nat /\ Trim(s).start \in Nat
    BY TrimType
  <1>2. SliceLen(s, Trim(s)) \in Nat
    BY <1>1 DEF SliceLen, Least, Segment
  <1>3. Least(SliceLen(s, Trim(s)), RcvFree) \in Nat /\ Least(SliceLen(s, Trim(s)), RcvFree) <= RcvFree
    BY <1>2, RcvFreeType DEF Least
  <1>4. rcv_wr' \in Nat /\ rcv_wr <= rcv_wr' /\ rcv_wr' <= rcv_wr + RcvFree
    BY <1>3, RcvFreeType DEF AppendRcvData, RcvTypeOK
  <1>5. rcv_wr' <= rcv_rd' + RcvSpace /\ rcv_rd' <= rcv_wr' /\ rcv_rd' \in Nat
    BY <1>4, FsmAssumption DEF AppendRcvData, RcvTypeOK, RcvFree
  <1>6. rcv_wnd' \in Int
    BY <1>1, RcvFreeType DEF AppendRcvData
  <1>7. rcv_nxt' \in SeqNum /\ rcv_adv' \in SeqNum /\ irs' \in SeqNum
    BY AdvancedType, NewRcvAdvType DEF AppendRcvData, RcvTypeOK
  <1> QED BY <1>4, <1>5, <1>6, <1>7 DEF RcvTypeOK

\* Accepting a segment without appending its data keeps the types.
LEMMA AdvanceType ==
  ASSUME NEW s \in Segment, RcvTypeOK, AdvanceRcvNxt(s)
  PROVE  RcvTypeOK'
  BY AdvancedType DEF AdvanceRcvNxt, RcvTypeOK

\* An accepted ACK covers at least one sequence number.
LEMMA AckedPositive ==
  ASSUME NEW s \in Segment, SndTypeOK
  PROVE  /\ SeqAcked(s) \in Nat
         /\ AckAccepted(s) => SeqAcked(s) >= 1
  <1>1. AckAccepted(s) => s.ack_seq # snd_una
    BY DEF AckAccepted, seq_leq
  <1> QED BY <1>1, DiffPositive DEF SeqAcked, SndTypeOK, Segment

\* _h_rx_ack, _h_rx_wnd and snd_buf.free keep the send variables in their types.
LEMMA RxSndType ==
  ASSUME NEW s \in Segment, NEW q \in SeqNum, SndTypeOK, HRxAck(s), HRxWnd(s, q),
         r' = r + SeqAcked(s) \/ FreeAcked(s) \/ r' = r,
         UNCHANGED <<snd_nxt, snd_max, vr, vw>>
  PROVE  SndTypeOK'
  <1>1. r' \in Nat
    BY AckedPositive DEF FreeAcked, AllAcked, SndTypeOK
  <1>2. snd_una' \in SeqNum
    BY DEF HRxAck, SndTypeOK, Segment
  <1>3. snd_wnd' \in Nat /\ snd_wl1' \in SeqNum /\ snd_wl2' \in SeqNum
    BY DEF HRxWnd, wndVars, SndTypeOK, Segment
  <1> QED BY <1>1, <1>2, <1>3 DEF SndTypeOK

-----------------------------------------------------------------------------
(* Type correctness *)

\* A transmitted segment carries a sequence number and a nonnegative length.
LEMMA OutType ==
  ASSUME NEW n \in SeqNum, NEW d \in Nat
  PROVE  /\ \A f \in {"SYN", "SYN_ACK", "ACK", "FIN", "RST"} : {Seg(f, n, d)} \subseteq OutSegment
         /\ AckSeg(n) \subseteq OutSegment /\ RstSeg(n) \subseteq OutSegment
         /\ {} \subseteq OutSegment
  BY DEF Seg, AckSeg, RstSeg, OutSegment

\* A RST that answers a segment carries a sequence number.
LEMMA DropWithResetType ==
  ASSUME NEW s \in Segment, SndTypeOK
  PROVE  DropWithReset(s) \subseteq OutSegment
  <1>1. (IF s.ack THEN s.ack_seq ELSE snd_nxt) \in SeqNum
    BY DEF Segment, SndTypeOK
  <1> QED BY <1>1 DEF DropWithReset, Seg, OutSegment

\* schedule_event keeps the queue a sequence of events.
LEMMA ScheduleType ==
  ASSUME CtlTypeOK, NEW ev \in EventKinds, Schedule(ev)
  PROVE  events' \in Seq(EventKinds)
  BY DEF CtlTypeOK, Schedule

\* Taking the first event keeps the queue a sequence of events.
LEMMA TakeType ==
  ASSUME CtlTypeOK, NEW ev, Take(ev)
  PROVE  events' \in Seq(EventKinds)
  BY DEF CtlTypeOK, Take

\* The initial state is well typed.
LEMMA InitType == Init => TypeOK
  <1> SUFFICES ASSUME Init PROVE TypeOK
    OBVIOUS
  <1>1. 0 \in SeqNum
    BY HalfAssumption DEF SeqNum, SeqSpace
  <1>2. SndTypeOK /\ RcvTypeOK
    BY <1>1, FsmAssumption DEF Init, SndTypeOK, RcvTypeOK
  <1>3. CtlTypeOK
    <2>1. /\ ack_now \in BOOLEAN /\ sent_fin \in BOOLEAN /\ close_requested \in BOOLEAN
          /\ shutdown_requested \in BOOLEAN /\ registered \in BOOLEAN
      BY Zenon DEF Init
    <2>2. linger \in BOOLEAN
      BY FsmAssumption DEF Init
    <2>3. events \in Seq(EventKinds)
      BY DEF Init
    <2>4. /\ state \in States /\ remote_mss \in {0, 1} /\ rtx_timer \in TimerStates
          /\ orphans \in Nat /\ time_wait_timer \in TimerStates
      BY DEF Init, States, TimerStates
    <2> QED BY <2>1, <2>2, <2>3, <2>4 DEF Init, CtlTypeOK
  <1> QED BY <1>2, <1>3 DEF Init, TypeOK

\* Application calls preserve the types.
LEMMA AppType == TypeOK /\ App => TypeOK'
  <1> SUFFICES ASSUME TypeOK, App PROVE TypeOK'
    OBVIOUS
  <1>1. CASE AppConnect
    <2>1. events' \in Seq(EventKinds)
      BY <1>1, ScheduleType DEF AppConnect, EventKinds, TypeOK
    <2> QED BY <1>1, <2>1 DEF AppConnect, SndTypeOK, RcvTypeOK, CtlTypeOK, TypeOK, seqVars,
               wndVars, bufVars, rcvVars, flagVars, reqVars, timerVars
  <1>2. ASSUME NEW n \in 1 .. SndLimit, AppSend(n) PROVE TypeOK'
    <2>1. events' \in Seq(EventKinds)
      BY <1>2, ScheduleType DEF AppSend, EventKinds, TypeOK
    <2>2. vw' \in Nat
      BY <1>2, FsmAssumption DEF AppSend, SndTypeOK, TypeOK
    <2> QED BY <1>2, <2>1, <2>2 DEF AppSend, SndTypeOK, RcvTypeOK, CtlTypeOK, TypeOK, seqVars,
               wndVars, rcvVars, flagVars, reqVars, timerVars, sockVars
  <1>3. ASSUME NEW n \in 1 .. RcvSpace, AppRecv(n) PROVE TypeOK'
    <2>1. RcvTypeOK'
      BY <1>3, FsmAssumption DEF AppRecv, RcvTypeOK, TypeOK
    <2> QED BY <1>3, <2>1 DEF AppRecv, SndTypeOK, CtlTypeOK, TypeOK, seqVars, wndVars, bufVars,
               flagVars, reqVars, timerVars, sockVars
  <1>4. CASE AppShutdown
    <2>1. events' \in Seq(EventKinds)
      BY <1>4, ScheduleType DEF AppShutdown, EventKinds, TypeOK
    <2> QED BY <1>4, <2>1 DEF AppShutdown, SndTypeOK, RcvTypeOK, CtlTypeOK, TypeOK, seqVars,
               wndVars, bufVars, rcvVars, flagVars, timerVars, sockVars
  <1>5. CASE AppClose
    <2>1. events' \in Seq(EventKinds)
      BY <1>5, ScheduleType DEF AppClose, EventKinds, TypeOK
    <2> QED BY <1>5, <2>1 DEF AppClose, SndTypeOK, RcvTypeOK, CtlTypeOK, TypeOK, seqVars, wndVars,
               bufVars, rcvVars, flagVars, timerVars, sockVars
  <1> QED BY <1>1, <1>2, <1>3, <1>4, <1>5 DEF App

\* Timers preserve the types.
LEMMA TimerType == TypeOK /\ (RtxTimerFires \/ OrphanFires \/ TimeWaitFires) => TypeOK'
  <1> SUFFICES ASSUME TypeOK, RtxTimerFires \/ OrphanFires \/ TimeWaitFires PROVE TypeOK'
    OBVIOUS
  <1>1. CASE RtxTimerFires
    <2>1. events' \in Seq(EventKinds)
      BY <1>1, ScheduleType DEF RtxTimerFires, EventKinds, TypeOK
    <2> QED BY <1>1, <2>1 DEF RtxTimerFires, SndTypeOK, RcvTypeOK, CtlTypeOK, TimerStates, TypeOK,
               TimerUnchanged, seqVars, wndVars, bufVars, rcvVars, flagVars, reqVars
  <1>2. CASE OrphanFires
    <2>1. events' \in Seq(EventKinds)
      BY <1>2, ScheduleType DEF OrphanFires, EventKinds, TypeOK
    <2>2. orphans' \in Nat
      BY <1>2 DEF OrphanFires, CtlTypeOK, TypeOK
    <2> QED BY <1>2, <2>1, <2>2 DEF OrphanFires, SndTypeOK, RcvTypeOK, CtlTypeOK, TypeOK,
               TimerUnchanged, seqVars, wndVars, bufVars, rcvVars, flagVars, reqVars
  <1>3. CASE TimeWaitFires
    <2>1. registered' \in BOOLEAN
      BY <1>3, Zenon DEF TimeWaitFires
    <2> QED BY <1>3, <2>1 DEF TimeWaitFires, SndTypeOK, RcvTypeOK, CtlTypeOK, TimerStates, TypeOK,
               TimerUnchanged, seqVars, wndVars, bufVars, rcvVars, flagVars, reqVars
  <1> QED BY <1>1, <1>2, <1>3

\* Draining snd_buf never moves past what was written, nor to a negative offset.
LEMMA DrainedType ==
  ASSUME SndTypeOK, NEW vr0 \in Nat
  PROVE  /\ vr0 + Drained(vr0) \in Nat
         /\ vr0 < vw => Drained(vr0) \in Nat
         /\ Drained(vr0) > 0 => Drained(vr0) \in Nat
  BY FsmAssumption DEF SndTypeOK, Drained, Least

\* The tx handlers keep the receive variables in their types.
LEMMA RefreshType ==
  ASSUME RcvTypeOK, RefreshRcvWnd
  PROVE  RcvTypeOK'
  <1>1. CASE ComputeRcvWnd
    BY <1>1, ComputeRcvWndType
  <1>2. CASE UNCHANGED rcvVars
    BY <1>2 DEF rcvVars, RcvTypeOK
  <1> QED BY <1>1, <1>2 DEF RefreshRcvWnd

\* Every tx handler preserves the types, from a SEND or from an RTX event.
LEMMA TxType ==
  ASSUME TypeOK, NEW nxt0 \in SeqNum, NEW vr0 \in Nat, NEW tm0 \in TimerStates,
         Tx(nxt0, vr0, tm0), events' \in Seq(EventKinds), orphans' \in Nat
  PROVE  TypeOK'
  <1>1. StartRtxTimer(tm0) \in TimerStates /\ NextOnFin \in States /\ "none" \in TimerStates
    BY DEF StartRtxTimer, TimerStates, NextOnFin, States, CtlTypeOK, TypeOK
  <1>2. Mask(nxt0 + 1) \in SeqNum
    BY MaskType, SeqNumNat
  <1>3. UNCHANGED <<snd_una, snd_wnd, snd_wl1, snd_wl2, r, vw, close_requested,
                    shutdown_requested, linger, remote_mss, so_error, app>>
    BY DEF Tx, TxUnchanged, wndVars, reqVars
  <1>4. CASE TxAbort(nxt0, vr0)
    <2>1. vr' \in Nat
      BY <1>4, DrainedType DEF TxAbort, TypeOK
    <2>2. SndTypeOK'
      BY <1>3, <1>4, <2>1 DEF TxAbort, SndTypeOK, TypeOK
    <2>3. RcvTypeOK'
      BY <1>4, RefreshType DEF TxAbort, TypeOK
    <2>4. registered' \in BOOLEAN
      BY <1>4, Zenon DEF TxAbort, Abort
    <2>5. CtlTypeOK'
      BY <1>1, <1>3, <1>4, <2>4 DEF TxAbort, Abort, CtlTypeOK, States, TypeOK, flagVars
    <2>6. out' \subseteq OutSegment
      BY <1>4, OutType DEF TxAbort
    <2> QED BY <2>2, <2>3, <2>5, <2>6 DEF TypeOK
  <1>5. CASE TxData(nxt0, vr0, tm0)
    <2> DEFINE n == Drained(vr0)
               fin == IF FinRequested /\ n > 0 THEN 1 ELSE 0
    <2>1. n \in Nat /\ vr0 + n \in Nat
      BY <1>5, DrainedType DEF TxData, TypeOK
    <2>2. Mask(nxt0 + n + fin) \in SeqNum
      <3>1. fin \in Nat
        OBVIOUS
      <3> HIDE DEF n, fin
      <3>2. nxt0 + n + fin \in Int
        BY <2>1, <3>1, SeqNumNat
      <3> QED BY <3>2, MaskType
    <2>3. SndTypeOK'
      BY <1>3, <1>5, <2>1, <2>2 DEF TxData, RaiseSndMax, SndTypeOK, TypeOK
    <2>4. RcvTypeOK'
      BY <1>5, RefreshType DEF TxData, TypeOK
    <2>5. sent_fin' \in BOOLEAN
      BY <1>5 DEF TxData
    <2>6. state' \in States
      BY <1>1, <1>5 DEF TxData, CtlTypeOK, TypeOK
    <2>7. CtlTypeOK'
      BY <1>1, <1>3, <1>5, <2>5, <2>6 DEF TxData, CtlTypeOK, TypeOK
    <2>8. out' \subseteq OutSegment
      BY <1>5, <2>1 DEF TxData, Seg, OutSegment
    <2> QED BY <2>3, <2>4, <2>7, <2>8 DEF TypeOK
  <1>6. CASE TxSpin(nxt0, vr0, tm0)
    <2>1. SndTypeOK'
      BY <1>3, <1>6, DrainedType DEF TxSpin, SndTypeOK, TypeOK
    <2>2. RcvTypeOK'
      BY <1>6, RefreshType DEF TxSpin, TypeOK
    <2>3. CtlTypeOK'
      BY <1>3, <1>6 DEF TxSpin, CtlTypeOK, TypeOK, flagVars
    <2>4. out' \subseteq OutSegment
      BY <1>6, OutType DEF TxSpin
    <2> QED BY <2>1, <2>2, <2>3, <2>4 DEF TypeOK
  <1>7. CASE TxFin(nxt0, vr0, tm0)
    <2>1. SndTypeOK'
      BY <1>2, <1>3, <1>7 DEF TxFin, SndTypeOK, TypeOK
    <2>2. RcvTypeOK'
      BY <1>7, RefreshType DEF TxFin, TypeOK
    <2>3. ack_now' \in BOOLEAN /\ sent_fin' \in BOOLEAN
      BY <1>7, Zenon DEF TxFin, CtlTypeOK
    <2>4. state' \in States /\ rtx_timer' \in TimerStates
      BY <1>1, <1>7 DEF TxFin, CtlTypeOK, TypeOK
    <2>5. CtlTypeOK'
      BY <1>3, <1>7, <2>3, <2>4 DEF TxFin, CtlTypeOK, TypeOK
    <2>6. out' \subseteq OutSegment
      BY <1>7, OutType DEF TxFin
    <2> QED BY <2>1, <2>2, <2>5, <2>6 DEF TypeOK
  <1>8. CASE TxAckOrNothing(nxt0, vr0, tm0)
    <2>1. SndTypeOK'
      BY <1>3, <1>8 DEF TxAckOrNothing, SndTypeOK, TypeOK
    <2>2. RcvTypeOK'
      BY <1>8, RefreshType DEF TxAckOrNothing, TypeOK
    <2>3. ack_now' \in BOOLEAN
      BY <1>8, Zenon DEF TxAckOrNothing, CtlTypeOK, TypeOK
    <2>4. CtlTypeOK'
      BY <1>3, <1>8, <2>3 DEF TxAckOrNothing, CtlTypeOK, TypeOK
    <2>5. out' \subseteq OutSegment
      BY <1>8, OutType DEF TxAckOrNothing
    <2> QED BY <2>1, <2>2, <2>4, <2>5 DEF TypeOK
  <1>9. CASE TxSyn(nxt0, vr0, tm0)
    <2>1. SndTypeOK' /\ RcvTypeOK'
      BY <1>2, <1>3, <1>9 DEF TxSyn, SndTypeOK, RcvTypeOK, rcvVars, TypeOK
    <2>2. CtlTypeOK'
      BY <1>1, <1>3, <1>9 DEF TxSyn, CtlTypeOK, TypeOK, flagVars
    <2>3. out' \subseteq OutSegment
      BY <1>9 DEF TxSyn, Seg, OutSegment
    <2> QED BY <2>1, <2>2, <2>3 DEF TypeOK
  <1>10. CASE TxNoHandler(nxt0, vr0, tm0)
    <2>1. SndTypeOK' /\ RcvTypeOK'
      BY <1>3, <1>10 DEF TxNoHandler, SndTypeOK, RcvTypeOK, rcvVars, TypeOK
    <2>2. CtlTypeOK'
      BY <1>3, <1>10 DEF TxNoHandler, CtlTypeOK, TypeOK, flagVars
    <2> QED BY <1>10, <2>1, <2>2 DEF TxNoHandler, TypeOK
  <1> QED BY <1>4, <1>5, <1>6, <1>7, <1>8, <1>9, <1>10 DEF Tx

-----------------------------------------------------------------------------
(* The receive handlers keep the types *)

\* The segment _rx_syn_recv strips of its SYN and payload is still a segment.
LEMMA SynRecvSegType ==
  ASSUME NEW s \in Segment
  PROVE  SynRecvSeg(s) \in Segment
  <1>1. s.seq \in SeqNum /\ Mask(s.seq + 1) \in SeqNum
    BY MaskType, SeqNumNat DEF Segment
  <1> QED BY <1>1, Zenon DEF SynRecvSeg, Segment

\* The handlers of the states before ESTAB preserve the types.
LEMMA RxOpeningType ==
  ASSUME TypeOK, NEW s \in Segment,
         \/ RxSynSentRefused(s) \/ RxSynSentEstab(s) \/ RxSynSentBadAck(s) \/ RxSynSentSyn(s)
         \/ RxSynRecvEstab(s) \/ RxSynRecvReset(s) \/ RxSynRecvDrop(s)
  PROVE  TypeOK'
  <1>1. /\ s.seq \in SeqNum /\ s.ack_seq \in SeqNum /\ s.dlen \in Nat /\ s.wnd \in Nat
    BY DEF Segment
  <1>2. {"ESTAB", "SYN_RECV"} \subseteq States /\ {"none", "pending"} \subseteq TimerStates
    BY DEF States, TimerStates
  <1>3. CASE RxSynSentRefused(s)
    <2>1. SndTypeOK' /\ RcvTypeOK'
      BY <1>1, <1>3, ZenonT(30) DEF RxSynSentRefused, SndTypeOK, RcvTypeOK, TypeOK, wndVars,
         bufVars, rcvVars
    <2>2. CtlTypeOK'
      BY <1>2, <1>3 DEF RxSynSentRefused, CtlTypeOK, TypeOK, flagVars, reqVars
    <2> QED BY <1>3, <2>1, <2>2 DEF RxSynSentRefused, TypeOK
  <1>4. CASE RxSynSentEstab(s)
    <2> DEFINE l == Least(s.dlen, RcvFree)
    <2>1. l \in Nat /\ l <= RcvFree
      BY <1>1, RcvFreeType DEF Least, TypeOK
    <2> HIDE DEF l
    <2>2. Mask(s.seq + 1 + l) \in SeqNum /\ Mask(s.seq + 1 + rcv_wnd) \in SeqNum
      <3>1. s.seq + 1 + l \in Int /\ s.seq + 1 + rcv_wnd \in Int
        BY <1>1, <2>1, SeqNumNat DEF RcvTypeOK, TypeOK
      <3> QED BY <3>1, MaskType
    <2>3. rcv_wr' \in Nat /\ rcv_wr' <= rcv_rd' + RcvSpace /\ rcv_rd' <= rcv_wr' /\ rcv_wnd' \in Int
      BY <1>4, <2>1, FsmAssumption DEF RxSynSentEstab, RcvTypeOK, RcvFree, l, TypeOK
    <2>4. RcvTypeOK'
      BY <1>1, <1>4, <2>2, <2>3, ZenonT(30) DEF RxSynSentEstab, RcvTypeOK, l, TypeOK
    <2>5. SndTypeOK'
      BY <1>1, <1>4, ZenonT(30) DEF RxSynSentEstab, SndTypeOK, TypeOK, bufVars
    <2>6. CtlTypeOK'
      BY <1>2, <1>4 DEF RxSynSentEstab, Connected, CtlTypeOK, TypeOK, flagVars
    <2>7. out' \subseteq OutSegment
      BY <1>4, OutType, ZenonT(30) DEF RxSynSentEstab, SndTypeOK, TypeOK
    <2> QED BY <2>4, <2>5, <2>6, <2>7 DEF TypeOK
  <1>5. CASE RxSynSentBadAck(s)
    <2>1. out' \subseteq OutSegment
      BY <1>5, DropWithResetType DEF RxSynSentBadAck, TypeOK
    <2> QED BY <1>5, <2>1 DEF RxSynSentBadAck, SndTypeOK, RcvTypeOK, CtlTypeOK, TypeOK, seqVars,
               wndVars, bufVars, rcvVars, flagVars, reqVars, timerVars, sockVars
  <1>6. CASE RxSynSentSyn(s)
    <2>1. /\ Mask(snd_una + 1) \in SeqNum /\ Mask(s.seq + 1) \in SeqNum
          /\ Mask(s.seq + 1 + rcv_wnd) \in SeqNum
      <3>1. snd_una + 1 \in Int /\ s.seq + 1 \in Int /\ s.seq + 1 + rcv_wnd \in Int
        BY <1>1, SeqNumNat DEF SndTypeOK, RcvTypeOK, TypeOK
      <3> QED BY <3>1, MaskType
    <2>2. SndTypeOK' /\ RcvTypeOK'
      BY <1>1, <1>6, <2>1 DEF RxSynSentSyn, SndTypeOK, RcvTypeOK, TypeOK
    <2>3. CtlTypeOK'
      BY <1>2, <1>6 DEF RxSynSentSyn, CtlTypeOK, TypeOK, flagVars, reqVars, sockVars
    <2>4. out' \subseteq OutSegment
      BY <1>6, OutType DEF RxSynSentSyn, SndTypeOK, TypeOK
    <2> QED BY <2>2, <2>3, <2>4 DEF TypeOK
  <1>7. SynRecvSeg(s) \in Segment
    BY SynRecvSegType
  <1>8. AdvancedRcvNxt(SynRecvSeg(s)) \in SeqNum /\ Trim(SynRecvSeg(s)).seq \in SeqNum
        /\ SynRecvSeg(s).seq \in SeqNum
    BY <1>7, AdvancedType, TrimType DEF Segment, TypeOK
  <1>9. CASE RxSynRecvEstab(s)
    <2> DEFINE q == IF SynRecvInOrder(s) THEN Trim(SynRecvSeg(s)).seq ELSE SynRecvSeg(s).seq
    <2>1. q \in SeqNum /\ HRxWnd(s, q)
      BY <1>8, <1>9, Zenon DEF RxSynRecvEstab
    <2> HIDE DEF q
    <2>2. snd_wnd' \in Nat /\ snd_wl1' \in SeqNum /\ snd_wl2' \in SeqNum
      BY <1>1, <2>1, Zenon DEF HRxWnd, SndTypeOK, TypeOK, wndVars
    <2>3. SndTypeOK'
      BY <1>1, <1>9, <2>2, Zenon DEF RxSynRecvEstab, SndTypeOK, TypeOK, bufVars
    <2>4. RcvTypeOK'
      BY <1>8, <1>9, ZenonT(30) DEF RxSynRecvEstab, RcvTypeOK, TypeOK
    <2>5. CtlTypeOK'
      BY <1>2, <1>9, ZenonT(30) DEF RxSynRecvEstab, Connected, CtlTypeOK, TypeOK, flagVars, reqVars
    <2>6. out' \subseteq OutSegment
      BY <1>9, OutType, Zenon DEF RxSynRecvEstab, SndTypeOK, TypeOK
    <2> QED BY <2>3, <2>4, <2>5, <2>6 DEF TypeOK
  <1>10. CASE RxSynRecvReset(s)
    <2>1. RcvTypeOK'
      BY <1>8, <1>10, Zenon DEF RxSynRecvReset, RcvTypeOK, TypeOK
    <2>2. SndTypeOK' /\ CtlTypeOK'
      BY <1>10 DEF RxSynRecvReset, SndTypeOK, CtlTypeOK, TypeOK, seqVars, wndVars, bufVars,
         flagVars, reqVars, timerVars, sockVars
    <2>3. out' \subseteq OutSegment
      BY <1>10, DropWithResetType, ZenonT(30) DEF RxSynRecvReset, TypeOK
    <2> QED BY <2>1, <2>2, <2>3 DEF TypeOK
  <1>11. CASE RxSynRecvDrop(s)
    <2>1. out' \subseteq OutSegment
      BY <1>11, OutType DEF RxSynRecvDrop, SndTypeOK, TypeOK
    <2> QED BY <1>11, <2>1 DEF RxSynRecvDrop, SndTypeOK, RcvTypeOK, CtlTypeOK, TypeOK, seqVars,
               wndVars, bufVars, rcvVars, flagVars, reqVars, timerVars, sockVars
  <1> QED BY <1>3, <1>4, <1>5, <1>6, <1>9, <1>10, <1>11

\* Resets, challenges and segments that are not accepted preserve the types.
LEMMA RxRefuseType ==
  ASSUME TypeOK, NEW s \in Segment,
         RxReset(s) \/ RxCloseAbort(s) \/ RxSyn(s) \/ RxDrop(s) \/ RxBuffer(s)
  PROVE  TypeOK'
  <1>1. "CLOSED" \in States /\ "none" \in TimerStates
    BY DEF States, TimerStates
  <1>2. AckSeg(snd_nxt) \subseteq OutSegment /\ {} \subseteq OutSegment
    BY OutType DEF SndTypeOK, TypeOK
  <1>3. CASE RxReset(s)
    <2>1. registered' \in BOOLEAN
      BY <1>3, Zenon DEF RxReset, Abort
    <2>2. SndTypeOK'
      BY <1>3 DEF RxReset, SndTypeOK, TypeOK, seqVars, wndVars, bufVars
    <2>3. RcvTypeOK'
      BY <1>3, AdvanceType, ZenonT(30) DEF RxReset, TypeOK
    <2>4. CtlTypeOK'
      BY <1>1, <1>3, <2>1 DEF RxReset, Abort, CtlTypeOK, TypeOK, flagVars, reqVars
    <2> QED BY <1>3, <2>2, <2>3, <2>4 DEF RxReset, TypeOK
  <1>4. CASE RxCloseAbort(s)
    <2>1. registered' \in BOOLEAN
      BY <1>4, ZenonT(30) DEF RxCloseAbort, Abort
    <2>2. SndTypeOK'
      BY <1>4 DEF RxCloseAbort, SndTypeOK, TypeOK, seqVars, wndVars, bufVars
    <2>3. RcvTypeOK'
      BY <1>4, AdvanceType, ZenonT(30) DEF RxCloseAbort, TypeOK
    <2>4. CtlTypeOK'
      BY <1>1, <1>4, <2>1 DEF RxCloseAbort, Abort, CtlTypeOK, TypeOK, flagVars, reqVars
    <2>5. out' \subseteq OutSegment
      BY <1>4, DropWithResetType DEF RxCloseAbort, TypeOK
    <2> QED BY <2>2, <2>3, <2>4, <2>5 DEF TypeOK
  <1>5. CASE RxSyn(s)
    <2>1. SndTypeOK' /\ CtlTypeOK'
      BY <1>5 DEF RxSyn, SndTypeOK, CtlTypeOK, TypeOK, seqVars, wndVars, bufVars, flagVars,
         reqVars, timerVars, sockVars
    <2>2. RcvTypeOK'
      BY <1>5, AdvanceType DEF RxSyn, TypeOK
    <2>3. out' \subseteq OutSegment
      BY <1>2, <1>5 DEF RxSyn, SendChallengeAck
    <2> QED BY <2>1, <2>2, <2>3, ZenonT(30) DEF TypeOK
  <1>6. CASE RxDrop(s)
    <2>1. events' \in Seq(EventKinds)
      BY <1>6, ScheduleType DEF RxDrop, CtlTypeOK, EventKinds, TypeOK
    <2>2. SndTypeOK' /\ RcvTypeOK'
      BY <1>6 DEF RxDrop, SndTypeOK, RcvTypeOK, TypeOK, seqVars, wndVars, bufVars, rcvVars
    <2>3. CtlTypeOK'
      BY <1>6, <2>1 DEF RxDrop, CtlTypeOK, TypeOK, flagVars, reqVars, timerVars, sockVars
    <2>4. out' \subseteq OutSegment
      BY <1>2, <1>6, Zenon DEF RxDrop, SendChallengeAck
    <2> QED BY <2>2, <2>3, <2>4 DEF TypeOK
  <1>7. CASE RxBuffer(s)
    <2>1. events' \in Seq(EventKinds)
      BY <1>7, ScheduleType, ZenonT(30) DEF RxBuffer, CtlTypeOK, EventKinds, TypeOK
    <2>2. SndTypeOK' /\ RcvTypeOK'
      BY <1>7 DEF RxBuffer, SndTypeOK, RcvTypeOK, TypeOK, seqVars, wndVars, bufVars, rcvVars
    <2>3. ack_now' \in BOOLEAN
      BY <1>7, ZenonT(30) DEF RxBuffer, CtlTypeOK, TypeOK
    <2>4. CtlTypeOK'
      BY <1>7, <2>1, <2>3 DEF RxBuffer, CtlTypeOK, TypeOK, reqVars, timerVars, sockVars
    <2>5. out' \subseteq OutSegment
      BY <1>2, <1>7, ZenonT(30) DEF RxBuffer
    <2> QED BY <2>2, <2>4, <2>5 DEF TypeOK
  <1> QED BY <1>3, <1>4, <1>5, <1>6, <1>7

\* The handlers of accepted segments preserve the types.
LEMMA RxAcceptType ==
  ASSUME TypeOK, NEW s \in Segment,
         \/ RxEstab(s) \/ RxFinWait1(s) \/ RxFinWait2(s)
         \/ RxCloseWait(s) \/ RxClosing(s) \/ RxLastAck(s) \/ RxTimeWait(s)
  PROVE  TypeOK'
  <1>1. /\ {"CLOSE_WAIT", "FIN_WAIT_2", "CLOSING", "TIME_WAIT", "CLOSED"} \subseteq States
        /\ {"none", "pending"} \subseteq TimerStates
    BY DEF States, TimerStates
  <1>2. s.seq \in SeqNum /\ Trim(s).seq \in SeqNum
    BY TrimType DEF Segment, TypeOK
  <1>3. AckSeg(snd_nxt) \subseteq OutSegment /\ {} \subseteq OutSegment
    BY OutType DEF SndTypeOK, TypeOK
  <1>4. RtxTimerOnAck(s) => rtx_timer' \in TimerStates
    BY <1>1 DEF RtxTimerOnAck, CtlTypeOK, TypeOK
  <1>5. AckNow(s) => ack_now' \in BOOLEAN
    BY DEF AckNow
  <1>6. CASE RxEstab(s)
    <2>1. SndTypeOK'
      BY <1>2, <1>6, RxSndType, Zenon DEF RxEstab, TypeOK
    <2>2. RcvTypeOK'
      BY <1>6, AppendType, Zenon DEF RxEstab, TypeOK
    <2>3. events' \in Seq(EventKinds)
      BY <1>6, ScheduleType, ZenonT(30) DEF RxEstab, EventKinds, TypeOK
    <2>4. CtlTypeOK'
      BY <1>1, <1>4, <1>5, <1>6, <2>3 DEF RxEstab, CtlTypeOK, TypeOK, reqVars, sockVars
    <2> QED BY <1>3, <1>6, <2>1, <2>2, <2>4, Zenon DEF RxEstab, TypeOK
  <1>7. CASE RxFinWait1(s)
    <2>1. SndTypeOK'
      BY <1>2, <1>7, RxSndType, Zenon DEF RxFinWait1, TypeOK
    <2>2. RcvTypeOK'
      BY <1>7, AppendType, Zenon DEF RxFinWait1, TypeOK
    <2>3. state' \in States /\ time_wait_timer' \in TimerStates
      BY <1>1, <1>7, ZenonT(30) DEF RxFinWait1, EnterTimeWait, CtlTypeOK, TypeOK
    <2>4. CtlTypeOK'
      BY <1>4, <1>5, <1>7, <2>3 DEF RxFinWait1, CtlTypeOK, TypeOK, reqVars, sockVars
    <2>5. out' \subseteq OutSegment
      BY <1>3, <1>7, ZenonT(30) DEF RxFinWait1
    <2> QED BY <2>1, <2>2, <2>4, <2>5 DEF TypeOK
  <1>8. CASE RxFinWait2(s)
    <2>1. SndTypeOK'
      BY <1>2, <1>8, RxSndType, ZenonT(30) DEF RxFinWait2, TypeOK, bufVars
    <2>2. RcvTypeOK'
      BY <1>8, AppendType, ZenonT(30) DEF RxFinWait2, TypeOK
    <2>3. CtlTypeOK'
      BY <1>1, <1>5, <1>8 DEF RxFinWait2, EnterTimeWait, CtlTypeOK, TypeOK, reqVars, sockVars
    <2> QED BY <1>3, <1>8, <2>1, <2>2, <2>3 DEF RxFinWait2, TypeOK
  <1>9. CASE RxCloseWait(s)
    <2>1. SndTypeOK'
      BY <1>2, <1>9, RxSndType, Zenon DEF RxCloseWait, TypeOK
    <2>2. events' \in Seq(EventKinds)
      BY <1>9, ScheduleType, ZenonT(30) DEF RxCloseWait, EventKinds, TypeOK
    <2>3. RcvTypeOK' /\ CtlTypeOK'
      <3>1. RcvTypeOK'
        BY <1>9 DEF RxCloseWait, RcvTypeOK, TypeOK, rcvVars
      <3>2. CtlTypeOK'
        BY <1>4, <1>9, <2>2 DEF RxCloseWait, CtlTypeOK, TypeOK, flagVars, reqVars, sockVars
      <3> QED BY <3>1, <3>2, ZenonT(30)
    <2> QED BY <1>3, <1>9, <2>1, <2>3 DEF RxCloseWait, TypeOK
  <1>10. CASE RxClosing(s)
    <2>1. SndTypeOK'
      BY <1>2, <1>10, RxSndType, ZenonT(30) DEF RxClosing, TypeOK
    <2>2. RcvTypeOK' /\ CtlTypeOK'
      <3>1. RcvTypeOK'
        BY <1>10 DEF RxClosing, RcvTypeOK, TypeOK, rcvVars
      <3>2. CtlTypeOK'
        BY <1>1, <1>4, <1>10 DEF RxClosing, EnterTimeWait, CtlTypeOK, TypeOK, flagVars, reqVars,
           sockVars
      <3> QED BY <3>1, <3>2, ZenonT(30)
    <2> QED BY <1>3, <1>10, <2>1, <2>2 DEF RxClosing, TypeOK
  <1>11. CASE RxLastAck(s)
    <2>1. SndTypeOK'
      BY <1>2, <1>11, RxSndType, ZenonT(30) DEF RxLastAck, TypeOK
    <2>2. RcvTypeOK' /\ CtlTypeOK'
      <3>1. RcvTypeOK'
        BY <1>11 DEF RxLastAck, RcvTypeOK, TypeOK, rcvVars
      <3>2. CtlTypeOK'
        BY <1>1, <1>4, <1>11 DEF RxLastAck, CtlTypeOK, TypeOK, flagVars, reqVars, sockVars
      <3> QED BY <3>1, <3>2, ZenonT(30)
    <2> QED BY <1>3, <1>11, <2>1, <2>2 DEF RxLastAck, TypeOK
  <1>12. CASE RxTimeWait(s)
    <2>1. SndTypeOK' /\ RcvTypeOK'
      BY <1>1, <1>12, ZenonT(30) DEF RxTimeWait, SndTypeOK, RcvTypeOK, TypeOK, seqVars, wndVars,
         bufVars, rcvVars
    <2>2. CtlTypeOK'
      BY <1>1, <1>12 DEF RxTimeWait, CtlTypeOK, TypeOK, flagVars, reqVars, sockVars
    <2> QED BY <1>3, <1>12, <2>1, <2>2, Zenon DEF RxTimeWait, TypeOK
  <1> QED BY <1>6, <1>7, <1>8, <1>9, <1>10, <1>11, <1>12

\* Every step of the control block preserves the types.
LEMMA NextType == TypeOK /\ [Next]_vars => TypeOK'
  <1> SUFFICES ASSUME TypeOK, [Next]_vars PROVE TypeOK'
    OBVIOUS
  <1>1. CASE EvConnect
    <2>1. events' \in Seq(EventKinds)
      BY <1>1, TakeType DEF EvConnect, TypeOK
    <2>2. Mask(ISS + 1) \in SeqNum /\ ISS \in SeqNum
      BY FsmAssumption, MaskType, SeqNumNat
    <2>3. SndTypeOK' /\ RcvTypeOK'
      BY <1>1, <2>2 DEF EvConnect, TypeOK, SndTypeOK, RcvTypeOK, wndVars, bufVars, rcvVars
    <2>4. CtlTypeOK'
      BY <1>1, <2>1 DEF EvConnect, TypeOK, CtlTypeOK, StartRtxTimer, TimerStates, States,
                        flagVars, reqVars, sockVars
    <2>5. out' \subseteq OutSegment
      BY <1>1, <2>2, OutType DEF EvConnect
    <2> QED BY <2>3, <2>4, <2>5 DEF TypeOK
  <1>2. CASE EvSend
    <2>1. events' \in Seq(EventKinds)
      BY <1>2, TakeType DEF EvSend, TypeOK
    <2>2. /\ orphans' \in Nat /\ snd_nxt \in SeqNum /\ vr \in Nat /\ rtx_timer \in TimerStates
          /\ Tx(snd_nxt, vr, rtx_timer)
      BY <1>2 DEF EvSend, TypeOK, SndTypeOK, CtlTypeOK
    <2> QED BY <2>1, <2>2, TxType
  <1>3. CASE EvRtx
    <2>1. events' \in Seq(EventKinds)
      BY <1>3, TakeType DEF EvRtx, TypeOK
    <2>2. orphans' \in Nat
      BY <1>3 DEF EvRtx, TypeOK, CtlTypeOK
    <2>3. snd_una \in SeqNum /\ r \in Nat /\ "none" \in TimerStates /\ Tx(snd_una, r, "none")
      BY <1>3 DEF EvRtx, TypeOK, SndTypeOK, TimerStates
    <2> QED BY <2>1, <2>2, <2>3, TxType
  <1>4. ASSUME NEW s \in Segments, Rx(s) PROVE TypeOK'
    <2>1. s \in Segment
      BY SegmentType, Zenon
    <2>2. CASE \/ RxSynSentRefused(s) \/ RxSynSentEstab(s) \/ RxSynSentBadAck(s)
               \/ RxSynSentSyn(s) \/ RxSynRecvEstab(s) \/ RxSynRecvReset(s) \/ RxSynRecvDrop(s)
      BY <2>1, <2>2, RxOpeningType, Zenon
    <2>3. CASE RxReset(s) \/ RxCloseAbort(s) \/ RxSyn(s) \/ RxDrop(s) \/ RxBuffer(s)
      BY <2>1, <2>3, RxRefuseType, Zenon
    <2>4. CASE \/ RxEstab(s) \/ RxFinWait1(s) \/ RxFinWait2(s)
               \/ RxCloseWait(s) \/ RxClosing(s) \/ RxLastAck(s) \/ RxTimeWait(s)
      BY <2>1, <2>4, RxAcceptType, ZenonT(30)
    <2> QED BY <1>4, <2>2, <2>3, <2>4, Zenon DEF Rx
  <1>5. CASE UNCHANGED vars
    <2>1. SndTypeOK'
      BY <1>5 DEF vars, TypeOK, SndTypeOK, seqVars, wndVars, bufVars
    <2>2. RcvTypeOK'
      BY <1>5 DEF vars, TypeOK, RcvTypeOK, rcvVars
    <2>3. CtlTypeOK'
      BY <1>5 DEF vars, TypeOK, CtlTypeOK, flagVars, reqVars, timerVars, sockVars
    <2>4. out' \subseteq OutSegment
      BY <1>5 DEF vars, TypeOK
    <2> QED BY <2>1, <2>2, <2>3, <2>4 DEF TypeOK
  <1> QED BY <1>1, <1>2, <1>3, <1>4, <1>5, AppType, TimerType DEF Next

\* Sequence numbers stay in their space, snd_buf and rcv_buf offsets stay within the
\* buffers, and the rest of the control block keeps its types, in every behaviour.
THEOREM TypeCorrect == Spec => []TypeOK
  BY InitType, NextType, PTL DEF Spec

-----------------------------------------------------------------------------
(* The event queue, and how a connection opens *)

\* schedule_event adds its event to the queue and removes none.
LEMMA QueuedSchedule ==
  ASSUME CtlTypeOK, NEW ev \in EventKinds, Schedule(ev), NEW e
  PROVE  Queued(e)' <=> Queued(e) \/ e = ev
  BY DEF CtlTypeOK, Schedule, Queued

\* The loop removes only the event it handles.
LEMMA QueuedTake ==
  ASSUME CtlTypeOK, NEW ev, Take(ev), NEW e
  PROVE  /\ Queued(ev)
         /\ Queued(e)' => Queued(e)
         /\ Queued(e) /\ e # ev => Queued(e)'
  <1>1. events \in Seq(EventKinds) /\ events # <<>> /\ events' = Tail(events) /\ Head(events) = ev
    BY DEF CtlTypeOK, Take
  <1>2. /\ Len(events) \in Nat /\ Len(events) >= 1 /\ Len(events') = Len(events) - 1
        /\ events[1] = ev
    BY <1>1
  <1>3. \A i \in 1 .. Len(events) - 1 : events'[i] = events[i + 1]
    BY <1>1, <1>2
  <1>4. Queued(e)' => Queued(e)
    BY <1>2, <1>3 DEF Queued
  <1>5. ASSUME Queued(e), e # ev PROVE Queued(e)'
    <2>1. PICK i \in 1 .. Len(events) : events[i] = e
      BY <1>5 DEF Queued
    <2>2. i - 1 \in 1 .. Len(events') /\ events'[i - 1] = e
      BY <1>2, <1>3, <1>5, <2>1
    <2> QED BY <2>2 DEF Queued
  <1>6. Queued(ev)
    BY <1>2 DEF Queued
  <1> QED BY <1>4, <1>5, <1>6, Zenon

\* A queue left alone holds the same events.
LEMMA QueuedSame ==
  ASSUME UNCHANGED events, NEW e
  PROVE  Queued(e)' <=> Queued(e)
  BY DEF Queued

\* The difference of two sequence numbers, with the wrap written out.
LEMMA DiffCases ==
  ASSUME NEW a \in SeqNum, NEW b \in SeqNum
  PROVE  seq_diff(a, b) = IF a >= b THEN a - b ELSE a - b + SeqSpace
  BY HalfAssumption DEF Mask, SeqNum, SeqSpace, seq_diff

\* The successor of a sequence number, with the wrap written out.
LEMMA MaskSucc ==
  ASSUME NEW a \in SeqNum
  PROVE  Mask(a + 1) = IF a = SeqSpace - 1 THEN 0 ELSE a + 1
  BY HalfAssumption DEF Mask, SeqNum, SeqSpace

\* With a single sequence number outstanding, _h_rx_ack accepts only snd_nxt.
LEMMA OneOutstanding ==
  ASSUME SndTypeOK, NEW s \in Segment, snd_nxt = Mask(snd_una + 1), AckAccepted(s)
  PROVE  s.ack_seq = snd_nxt
  <1> DEFINE a == s.ack_seq
  <1>1. a \in SeqNum /\ snd_una \in SeqNum /\ snd_nxt \in SeqNum
    BY DEF SndTypeOK, Segment
  <1>2. a # snd_una /\ ~ (seq_diff(a, snd_una) > Half - 1)
    BY DEF AckAccepted, seq_leq, seq_lt
  <1>3. a = snd_nxt \/ ~ (seq_diff(a, snd_nxt) < Half)
    BY DEF AckAccepted, seq_gt
  <1>4. snd_nxt = IF snd_una = SeqSpace - 1 THEN 0 ELSE snd_una + 1
    BY <1>1, MaskSucc
  <1>5. /\ seq_diff(a, snd_una) = IF a >= snd_una THEN a - snd_una ELSE a - snd_una + SeqSpace
        /\ seq_diff(a, snd_nxt) = IF a >= snd_nxt THEN a - snd_nxt ELSE a - snd_nxt + SeqSpace
    BY <1>1, DiffCases
  <1> HIDE DEF a
  <1>6. a = snd_nxt
    BY <1>1, <1>2, <1>3, <1>4, <1>5, HalfAssumption DEF SeqNum, SeqSpace
  <1> QED BY <1>6 DEF a

\* What the handlers of the synchronized states leave alone.
LEMMA RxSyncFrame ==
  ASSUME NEW s \in Segment,
         \/ RxReset(s) \/ RxCloseAbort(s) \/ RxSyn(s) \/ RxDrop(s) \/ RxBuffer(s)
         \/ RxEstab(s) \/ RxFinWait1(s) \/ RxFinWait2(s)
         \/ RxCloseWait(s) \/ RxClosing(s) \/ RxLastAck(s) \/ RxTimeWait(s)
  PROVE  /\ state \in Trimming \cup Checking \cup {"TIME_WAIT"}
         /\ state' = state \/ state' \notin {"SYN_SENT", "SYN_RECV"}
         /\ app' = app /\ orphans' = orphans
         /\ UNCHANGED events \/ Schedule("SEND")
  <1> USE DEF Trimming, Checking, timerVars, sockVars
  <1>1. CASE RxReset(s) \/ RxCloseAbort(s)
    BY <1>1 DEF RxReset, RxCloseAbort, Abort, Accept
  <1>2. CASE RxSyn(s) \/ RxDrop(s) \/ RxBuffer(s)
    BY <1>2 DEF RxSyn, RxDrop, RxBuffer, Accept
  <1>3. CASE RxEstab(s) \/ RxFinWait1(s) \/ RxFinWait2(s)
    <2>1. CASE RxEstab(s)
      BY <2>1, Zenon DEF RxEstab
    <2>2. CASE RxFinWait1(s)
      BY <2>2, ZenonT(30) DEF RxFinWait1, EnterTimeWait
    <2>3. CASE RxFinWait2(s)
      BY <2>3 DEF RxFinWait2, EnterTimeWait
    <2> QED BY <1>3, <2>1, <2>2, <2>3, Zenon
  <1>4. CASE RxCloseWait(s) \/ RxClosing(s) \/ RxLastAck(s) \/ RxTimeWait(s)
    BY <1>4, ZenonT(30) DEF RxCloseWait, RxClosing, RxLastAck, RxTimeWait, EnterTimeWait
  <1> QED BY <1>1, <1>2, <1>3, <1>4, ZenonT(30)

\* What the tx handlers leave alone.
LEMMA TxFrame ==
  ASSUME NEW nxt0, NEW vr0, NEW tm0, Tx(nxt0, vr0, tm0)
  PROVE  /\ app' = app /\ snd_una' = snd_una
         /\ state \in {"SYN_SENT", "SYN_RECV"} => state' = state /\ snd_nxt' = Mask(nxt0 + 1)
         /\ state \notin {"SYN_SENT", "SYN_RECV"} => state' \notin {"SYN_SENT", "SYN_RECV"}
         /\ state = "CLOSED" => state' = "CLOSED" /\ out' = {}
  <1> USE DEF TxUnchanged, Sending
  <1>1. app' = app /\ snd_una' = snd_una
    BY DEF Tx
  <1>2. CASE TxAbort(nxt0, vr0)
    BY <1>1, <1>2 DEF TxAbort, Abort, LingerAborts
  <1>3. CASE TxData(nxt0, vr0, tm0) \/ TxFin(nxt0, vr0, tm0)
    BY <1>1, <1>3 DEF TxData, TxFin, NextOnFin, FinDue
  <1>4. CASE TxSpin(nxt0, vr0, tm0) \/ TxAckOrNothing(nxt0, vr0, tm0)
    BY <1>1, <1>4 DEF TxSpin, TxAckOrNothing
  <1>5. CASE TxSyn(nxt0, vr0, tm0) \/ TxNoHandler(nxt0, vr0, tm0)
    BY <1>1, <1>5 DEF TxSyn, TxNoHandler
  <1> QED BY <1>2, <1>3, <1>4, <1>5 DEF Tx

\* Segments received in SYN_SENT and SYN_RECV keep Opening.
LEMMA RxOpeningOpening ==
  ASSUME TypeOK, Opening, NEW s \in Segment,
         \/ RxSynSentRefused(s) \/ RxSynSentEstab(s) \/ RxSynSentBadAck(s) \/ RxSynSentSyn(s)
         \/ RxSynRecvEstab(s) \/ RxSynRecvReset(s) \/ RxSynRecvDrop(s)
  PROVE  Opening'
  <1> USE DEF seqVars, timerVars, sockVars
  <1>1. events' = events
    BY Zenon DEF RxSynSentRefused, RxSynSentEstab, RxSynSentBadAck, RxSynSentSyn, RxSynRecvEstab,
           RxSynRecvReset, RxSynRecvDrop
  <1>2. \A e : Queued(e)' <=> Queued(e)
    BY <1>1, QueuedSame
  <1>3. state \in {"SYN_SENT", "SYN_RECV"}
    BY Zenon DEF RxSynSentRefused, RxSynSentEstab, RxSynSentBadAck, RxSynSentSyn, RxSynRecvEstab,
           RxSynRecvReset, RxSynRecvDrop, RxSynRecvGuard
  <1>4. app \in {"connecting", "refused"} /\ ~ Queued("CONNECT")
    BY <1>3, ZenonT(30) DEF Opening, TypeOK, CtlTypeOK
  <1>5. CASE RxSynSentRefused(s)
    BY <1>2, <1>4, <1>5 DEF RxSynSentRefused, Opening
  <1>6. CASE RxSynSentEstab(s) \/ RxSynRecvEstab(s)
    <2>1. state' = "ESTAB" /\ app' \in {"connected", "refused"}
      BY <1>4, <1>6, Zenon DEF RxSynSentEstab, RxSynRecvEstab, Connected
    <2> QED BY <1>2, <1>4, <2>1 DEF Opening
  <1>7. CASE RxSynSentSyn(s)
    <2>1. /\ state' = "SYN_RECV" /\ app' = app
          /\ snd_una' = snd_una /\ snd_nxt' = Mask(snd_una + 1)
      BY <1>7 DEF RxSynSentSyn
    <2> QED BY <1>2, <1>3, <1>4, <2>1, ZenonT(30) DEF Opening
  <1>8. CASE RxSynSentBadAck(s) \/ RxSynRecvReset(s) \/ RxSynRecvDrop(s)
    <2>1. UNCHANGED <<state, snd_una, snd_nxt, app>>
      BY <1>8, Zenon DEF RxSynSentBadAck, RxSynRecvReset, RxSynRecvDrop
    <2> QED BY <1>2, <1>3, <1>4, <2>1 DEF Opening
  <1> QED BY <1>5, <1>6, <1>7, <1>8

\* Opening is inductive.
LEMMA OpeningStep == TypeOK /\ Opening /\ [Next]_vars => Opening'
  <1> SUFFICES ASSUME TypeOK, Opening, [Next]_vars PROVE Opening'
    OBVIOUS
  <1> USE DEF seqVars, timerVars, sockVars
  <1>0. CtlTypeOK /\ {"CONNECT", "SEND", "RTX"} \subseteq EventKinds
    BY DEF TypeOK, EventKinds
  <1>1. CASE AppConnect
    <2>1. events' = <<"CONNECT">>
      BY <1>1 DEF AppConnect, Opening, Schedule
    <2> QED BY <1>1, <2>1 DEF AppConnect, Opening
  <1>2. ASSUME UNCHANGED <<state, snd_una, snd_nxt, rtx_timer, orphans, app>>,
               app \in {"connected", "refused"}, UNCHANGED events \/ Schedule("SEND")
        PROVE  Opening'
    <2>1. Queued("CONNECT")' <=> Queued("CONNECT")
      BY <1>0, <1>2, QueuedSame, QueuedSchedule, ZenonT(30)
    <2> QED BY <1>2, <2>1 DEF Opening
  <1>3. CASE App /\ ~ AppConnect
    BY <1>2, <1>3 DEF App, AppSend, AppRecv, AppShutdown, AppClose
  <1>4. CASE EvConnect
    <2>1. Queued("CONNECT")
      BY <1>0, <1>4, QueuedTake DEF EvConnect
    <2>2. app = "connecting" /\ events = <<"CONNECT">>
      <3>1. events # <<>>
        BY <1>4 DEF EvConnect, Take
      <3> QED BY <1>0, <2>1, <3>1 DEF Opening, CtlTypeOK
    <2>3. events' = <<>>
      BY <1>4, <2>2 DEF EvConnect, Take
    <2>4. ~ Queued("SEND")' /\ ~ Queued("CONNECT")'
      BY <2>3 DEF Queued
    <2> QED BY <1>4, <2>2, <2>4 DEF EvConnect, Opening
  <1>5. CASE EvSend
    <2>1. Queued("SEND") /\ events # <<>> /\ (Queued("CONNECT")' => Queued("CONNECT"))
      BY <1>0, <1>5, QueuedTake DEF EvSend, Take
    <2>2. app \in {"connected", "refused"}
      <3>1. CASE events = <<"CONNECT">>
        BY <2>1, <3>1 DEF Queued
      <3> QED BY <1>0, <2>1, <3>1 DEF Opening, CtlTypeOK
    <2>3. Tx(snd_nxt, vr, rtx_timer)
      BY <1>5, Zenon DEF EvSend
    <2> QED BY <2>1, <2>2, <2>3, TxFrame DEF Opening
  <1>6. CASE EvRtx
    <2>1. /\ Queued("RTX") /\ events # <<>>
          /\ (Queued("CONNECT")' => Queued("CONNECT")) /\ (Queued("SEND")' => Queued("SEND"))
      BY <1>0, <1>6, QueuedTake DEF EvRtx, Take
    <2>2. events # <<"CONNECT">>
      BY <2>1 DEF Queued
    <2>3. Tx(snd_una, r, "none")
      BY <1>6 DEF EvRtx
    <2> QED BY <1>0, <2>1, <2>2, <2>3, TxFrame, ZenonT(30) DEF Opening, CtlTypeOK
  <1>7. ASSUME NEW s \in Segments, Rx(s) PROVE Opening'
    <2>1. s \in Segment
      BY SegmentType
    <2>2. CASE \/ RxSynSentRefused(s) \/ RxSynSentEstab(s) \/ RxSynSentBadAck(s)
               \/ RxSynSentSyn(s) \/ RxSynRecvEstab(s) \/ RxSynRecvReset(s) \/ RxSynRecvDrop(s)
      BY <2>1, <2>2, RxOpeningOpening
    <2>3. CASE \/ RxReset(s) \/ RxCloseAbort(s) \/ RxSyn(s) \/ RxDrop(s) \/ RxBuffer(s)
               \/ RxEstab(s) \/ RxFinWait1(s) \/ RxFinWait2(s)
               \/ RxCloseWait(s) \/ RxClosing(s) \/ RxLastAck(s) \/ RxTimeWait(s)
      <3>1. /\ state \in Trimming \cup Checking \cup {"TIME_WAIT"}
            /\ state' = state \/ state' \notin {"SYN_SENT", "SYN_RECV"}
            /\ app' = app
            /\ UNCHANGED events \/ Schedule("SEND")
        BY <2>1, <2>3, RxSyncFrame
      <3>2. app \in {"connected", "refused"} /\ state \notin {"SYN_SENT", "SYN_RECV"}
        BY <1>0, <3>1 DEF Opening, Trimming, Checking, CtlTypeOK
      <3>3. Queued("CONNECT")' <=> Queued("CONNECT")
        BY <1>0, <3>1, QueuedSame, QueuedSchedule
      <3> QED BY <3>1, <3>2, <3>3, ZenonT(30) DEF Opening
    <2> QED BY <1>7, <2>2, <2>3, ZenonT(30) DEF Rx
  <1>8. CASE RtxTimerFires \/ OrphanFires
    <2>1. Schedule("RTX") /\ UNCHANGED <<state, snd_una, snd_nxt, app>>
      BY <1>8 DEF RtxTimerFires, OrphanFires, TimerUnchanged
    <2>2. rtx_timer = "pending" \/ orphans > 0
      BY <1>8 DEF RtxTimerFires, OrphanFires
    <2>3. /\ Queued("CONNECT")' <=> Queued("CONNECT")
          /\ Queued("SEND")' <=> Queued("SEND")
      BY <1>0, <2>1, QueuedSchedule
    <2> QED BY <2>1, <2>2, <2>3 DEF Opening
  <1>9. CASE TimeWaitFires \/ UNCHANGED vars
    <2>1. UNCHANGED <<state, events, rtx_timer, orphans, snd_una, snd_nxt, app>>
      BY <1>9 DEF TimeWaitFires, TimerUnchanged, vars
    <2> QED BY <2>1, QueuedSame, ZenonT(30) DEF Opening
  <1> QED BY <1>1, <1>3, <1>4, <1>5, <1>6, <1>7, <1>8, <1>9 DEF Next

\* Nothing but the handshake happens before connect() returns.
THEOREM OpeningInvariant == Spec => []Opening
  <1>1. Init => Opening
    BY DEF Init, Opening
  <1> QED BY <1>1, TypeCorrect, OpeningStep, PTL DEF Spec
=============================================================================
