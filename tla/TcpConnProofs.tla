--------------------------- MODULE TcpConnProofs ----------------------------
(***************************************************************************)
(* For every peer: the retransmission timer covers what lies between       *)
(* snd_una and snd_nxt, a closed connection is silent, the state machine   *)
(* implements the two half-connections of TcpConn, the receive window      *)
(* always leaves room, and what is acknowledged is in the receive buffer.  *)
(***************************************************************************)
EXTENDS TcpFsmProofs

\* The provers, and their seconds, for a leaf that names none
USE SMTT(30), ZenonT(30)

-----------------------------------------------------------------------------
(* The timer of what was sent since the last rollback *)

\* While a sequence number between snd_una and snd_nxt is unacknowledged, the timer field
\* is set, and when its timer has fired the RTX event is queued.
RtxArmed ==
    /\ app # "refused" /\ state \in Outstanding /\ snd_una # snd_nxt => rtx_timer # "none"
    /\ rtx_timer = "fired" => Queued("RTX")

\* A tx handler that leaves a sequence number outstanding leaves the timer armed.
LEMMA TxArmed ==
  ASSUME NEW nxt0, NEW vr0, NEW tm0 \in TimerStates, Tx(nxt0, vr0, tm0),
         app # "refused" /\ state \in Outstanding /\ snd_una # nxt0 => tm0 # "none"
  PROVE  /\ app' # "refused" /\ state' \in Outstanding /\ snd_una' # snd_nxt'
                => rtx_timer' # "none"
         /\ rtx_timer' = "fired" => tm0 = "fired"
  <1>1. app' = app /\ snd_una' = snd_una
    BY TxFrame
  <1>2. StartRtxTimer(tm0) # "none" /\ (StartRtxTimer(tm0) = "fired" => tm0 = "fired")
    BY DEF StartRtxTimer
  <1>3. CASE TxAbort(nxt0, vr0)
    BY <1>3, ZenonT(30) DEF TxAbort, Abort, Outstanding, Sending
  <1>4. CASE TxData(nxt0, vr0, tm0) \/ TxSyn(nxt0, vr0, tm0)
    BY <1>2, <1>4 DEF TxData, TxSyn
  <1>5. CASE TxSpin(nxt0, vr0, tm0) \/ TxAckOrNothing(nxt0, vr0, tm0)
    BY <1>1, <1>5, ZenonT(30) DEF TxSpin, TxAckOrNothing
  <1>6. CASE TxFin(nxt0, vr0, tm0)
    BY <1>1, <1>2, <1>6 DEF TxFin
  <1>7. CASE TxNoHandler(nxt0, vr0, tm0)
    BY <1>7 DEF TxNoHandler, Outstanding, Sending
  <1> QED BY <1>3, <1>4, <1>5, <1>6, <1>7 DEF Tx

\* An ACK stops the timer only when nothing is outstanding any more.
LEMMA AckArmed ==
  ASSUME NEW s \in Segment, HRxAck(s), RtxTimerOnAck(s), snd_nxt' = snd_nxt,
         snd_una # snd_nxt => rtx_timer # "none"
  PROVE  /\ snd_una' # snd_nxt' => rtx_timer' # "none"
         /\ rtx_timer' = "fired" => rtx_timer = "fired"
  BY ZenonT(30) DEF HRxAck, RtxTimerOnAck, AllAcked

\* Received segments keep the timer armed.
LEMMA RxArmed ==
  ASSUME TypeOK, Opening, RtxArmed, NEW s \in Segment, Rx(s)
  PROVE  /\ app' # "refused" /\ state' \in Outstanding /\ snd_una' # snd_nxt'
                => rtx_timer' # "none"
         /\ rtx_timer' = "fired" => rtx_timer = "fired"
  <1> USE DEF seqVars, timerVars, sockVars
  <1>1. CASE RxSynSentRefused(s)
    BY <1>1 DEF RxSynSentRefused
  <1>2. CASE RxSynSentEstab(s) \/ RxSynRecvEstab(s)
    <2>1. /\ state \in {"SYN_SENT", "SYN_RECV"} /\ AckAccepted(s)
          /\ snd_una' = s.ack_seq /\ snd_nxt' = snd_nxt /\ rtx_timer' = "none"
          /\ app = "refused" => app' = "refused"
      BY <1>2, Zenon DEF RxSynSentEstab, RxSynRecvEstab, RxSynRecvGuard, Connected
    <2>2. CASE app = "refused"
      BY <2>1, <2>2
    <2>3. CASE app # "refused"
      <3>1. snd_nxt = Mask(snd_una + 1)
        BY <2>1, <2>3, ZenonT(30) DEF Opening, TypeOK, CtlTypeOK
      <3> QED BY <2>1, <3>1, OneOutstanding DEF TypeOK
    <2> QED BY <2>2, <2>3
  <1>3. CASE RxSynSentSyn(s)
    BY <1>3 DEF RxSynSentSyn
  <1>4. CASE \/ RxSynSentBadAck(s) \/ RxSynRecvReset(s) \/ RxSynRecvDrop(s)
             \/ RxSyn(s) \/ RxDrop(s) \/ RxBuffer(s)
    <2>1. UNCHANGED <<state, snd_una, snd_nxt, rtx_timer, app>>
      BY <1>4, ZenonT(30) DEF RxSynSentBadAck, RxSynRecvReset, RxSynRecvDrop, RxSyn, RxDrop, RxBuffer
    <2> QED BY <2>1 DEF RtxArmed
  <1>5. CASE RxReset(s) \/ RxCloseAbort(s)
    BY <1>5 DEF RxReset, RxCloseAbort, Abort, Outstanding, Sending
  <1>6. CASE RxFinWait2(s) \/ RxTimeWait(s)
    BY <1>6 DEF RxFinWait2, RxTimeWait, EnterTimeWait, Outstanding, Sending
  <1>7. CASE \/ RxEstab(s) \/ RxFinWait1(s) \/ RxCloseWait(s) \/ RxClosing(s) \/ RxLastAck(s)
    <2>1. /\ state \in Outstanding /\ app' = app
          /\ HRxAck(s) /\ RtxTimerOnAck(s) /\ snd_nxt' = snd_nxt
      BY <1>7, Zenon DEF RxEstab, RxFinWait1, RxCloseWait, RxClosing, RxLastAck, Outstanding, Sending
    <2>2. rtx_timer' = "fired" => rtx_timer = "fired"
      BY <2>1 DEF RtxTimerOnAck
    <2>3. app # "refused" => (snd_una' # snd_nxt' => rtx_timer' # "none")
      BY <2>1, AckArmed DEF RtxArmed
    <2> QED BY <2>1, <2>2, <2>3
  <1> QED BY <1>1, <1>2, <1>3, <1>4, <1>5, <1>6, <1>7 DEF Rx

\* RtxArmed is inductive, given the types and Opening.
LEMMA RtxArmedStep == TypeOK /\ Opening /\ RtxArmed /\ [Next]_vars => RtxArmed'
  <1> SUFFICES ASSUME TypeOK, Opening, RtxArmed, [Next]_vars PROVE RtxArmed'
    OBVIOUS
  <1> USE DEF seqVars, timerVars, sockVars
  <1>0. CtlTypeOK /\ {"CONNECT", "SEND", "RTX"} \subseteq EventKinds
    BY DEF TypeOK, EventKinds
  <1>1. CASE App
    <2>1. UNCHANGED <<state, snd_una, snd_nxt, rtx_timer>> /\ (app = "refused" <=> app' = "refused")
      BY <1>1, Zenon DEF App, AppConnect, AppSend, AppRecv, AppShutdown, AppClose
    <2>2. UNCHANGED events \/ Schedule("CONNECT") \/ Schedule("SEND")
      BY <1>1, Zenon DEF App, AppConnect, AppSend, AppRecv, AppShutdown, AppClose
    <2>3. Queued("RTX") => Queued("RTX")'
      BY <1>0, <2>2, QueuedSame, QueuedSchedule
    <2> QED BY <2>1, <2>3 DEF RtxArmed
  <1>2. CASE EvConnect
    <2>1. Queued("RTX") => Queued("RTX")'
      BY <1>0, <1>2, QueuedTake DEF EvConnect
    <2> QED BY <1>2, <2>1 DEF EvConnect, RtxArmed, StartRtxTimer
  <1>3. CASE EvSend
    <2>1. Queued("RTX") => Queued("RTX")'
      BY <1>0, <1>3, QueuedTake DEF EvSend
    <2>2. Tx(snd_nxt, vr, rtx_timer) /\ rtx_timer \in TimerStates
      BY <1>0, <1>3 DEF EvSend, CtlTypeOK
    <2> QED BY <2>1, <2>2, TxArmed DEF RtxArmed
  <1>4. CASE EvRtx
    <2>1. Tx(snd_una, r, "none") /\ "none" \in TimerStates
      BY <1>4 DEF EvRtx, TimerStates
    <2> QED BY <2>1, TxArmed DEF RtxArmed
  <1>5. ASSUME NEW s \in Segments, Rx(s) PROVE RtxArmed'
    <2>1. s \in Segment
      BY SegmentType
    <2>2. UNCHANGED events \/ Schedule("SEND")
      BY <1>5, <2>1, RxSyncFrame, Zenon
         DEF Rx, RxSynSentRefused, RxSynSentEstab, RxSynSentBadAck, RxSynSentSyn,
             RxSynRecvEstab, RxSynRecvReset, RxSynRecvDrop
    <2>3. Queued("RTX") => Queued("RTX")'
      BY <1>0, <2>2, QueuedSame, QueuedSchedule
    <2> QED BY <1>5, <2>1, <2>3, RxArmed DEF RtxArmed
  <1>6. CASE RtxTimerFires \/ OrphanFires
    <2>1. /\ Schedule("RTX") /\ UNCHANGED <<state, snd_una, snd_nxt, app>>
          /\ rtx_timer' = rtx_timer \/ rtx_timer' = "fired"
      BY <1>6 DEF RtxTimerFires, OrphanFires, TimerUnchanged
    <2>2. Queued("RTX")'
      BY <1>0, <2>1, QueuedSchedule
    <2> QED BY <2>1, <2>2 DEF RtxArmed
  <1>7. CASE TimeWaitFires \/ UNCHANGED vars
    <2>1. UNCHANGED <<state, events, rtx_timer, snd_una, snd_nxt, app>>
      BY <1>7 DEF TimeWaitFires, TimerUnchanged, vars
    <2> QED BY <2>1, QueuedSame, ZenonT(30) DEF RtxArmed
  <1> QED BY <1>1, <1>2, <1>3, <1>4, <1>5, <1>6, <1>7 DEF Next

\* start_rtx_timer, stop_rtx_timer and rtx never lose that timer between them.
LEMMA RtxArmedAlways == Spec => []RtxArmed
  <1>1. Init => RtxArmed
    BY DEF Init, RtxArmed, Outstanding, Sending
  <1> QED BY <1>1, TypeCorrect, OpeningInvariant, RtxArmedStep, PTL DEF Spec

-----------------------------------------------------------------------------
(* A closed connection stays closed and silent *)

\* After a teardown no event, segment or timer reopens the connection or transmits.
LEMMA ClosedStep ==
  ASSUME TypeOK, Opening, Next, state = "CLOSED", app \notin {"idle", "connecting"}
  PROVE  state' = "CLOSED" /\ out' = {}
  <1>1. CASE App
    BY <1>1, ZenonT(30) DEF App, AppConnect, AppSend, AppRecv, AppShutdown, AppClose
  <1>2. ~ EvConnect
    BY QueuedTake DEF EvConnect, TypeOK, CtlTypeOK, Opening
  <1>3. CASE EvSend \/ EvRtx
    BY <1>3, TxFrame DEF EvSend, EvRtx
  <1>4. ASSUME NEW s \in Segments, Rx(s) PROVE FALSE
    <2>1. s \in Segment
      BY SegmentType, Zenon
    <2>2. CASE \/ RxReset(s) \/ RxCloseAbort(s) \/ RxSyn(s) \/ RxDrop(s) \/ RxBuffer(s)
               \/ RxEstab(s) \/ RxFinWait1(s) \/ RxFinWait2(s)
               \/ RxCloseWait(s) \/ RxClosing(s) \/ RxLastAck(s) \/ RxTimeWait(s)
      BY <2>1, <2>2, RxSyncFrame, ZenonT(30) DEF Trimming, Checking
    <2> QED BY <1>4, <2>2, ZenonT(30)
            DEF Rx, RxSynSentRefused, RxSynSentEstab, RxSynSentBadAck, RxSynSentSyn,
                RxSynRecvEstab, RxSynRecvReset, RxSynRecvDrop, RxSynRecvGuard
  <1>5. CASE RtxTimerFires \/ OrphanFires \/ TimeWaitFires
    BY <1>5 DEF RtxTimerFires, OrphanFires, TimeWaitFires, TimerUnchanged
  <1> QED BY <1>1, <1>2, <1>3, <1>4, <1>5, Zenon DEF Next

\* Events and timers left over from before a teardown transmit nothing
\* (_ignore_closed_tcp_event), and no segment brings the connection back.
THEOREM ClosedStaysSilent == Spec => ClosedIsSilent
  <1>1. TypeOK /\ Opening /\ [Next]_vars =>
            [state = "CLOSED" /\ app \notin {"idle", "connecting"}
                => state' = "CLOSED" /\ out' = {}]_vars
    BY ClosedStep
  <1> QED BY <1>1, TypeCorrect, OpeningInvariant, PTL DEF Spec, ClosedIsSilent

-----------------------------------------------------------------------------
(* The state machine implements the two half-connections of TcpConn *)

\* The transitions of _change_state, and what the application sees in each.
Transition ==
  \/ state' = state /\ (app' = app \/ state # "CLOSED")
  \/ state' = state /\ app = "idle" /\ app' = "connecting"
  \/ state = "CLOSED" /\ app = "connecting" /\ state' = "SYN_SENT"
  \/ state = "SYN_SENT" /\ state' = "SYN_RECV"
  \/ state \in {"SYN_SENT", "SYN_RECV"} /\ state' = "ESTAB"
  \/ state = "ESTAB" /\ state' \in {"CLOSE_WAIT", "FIN_WAIT_1"}
  \/ state = "CLOSE_WAIT" /\ state' = "LAST_ACK"
  \/ state = "FIN_WAIT_1" /\ state' \in {"FIN_WAIT_2", "CLOSING", "TIME_WAIT"}
  \/ state \in {"FIN_WAIT_2", "CLOSING"} /\ state' = "TIME_WAIT"
  \/ /\ state \in States \ {"CLOSED", "SYN_SENT", "SYN_RECV"} /\ state' = "CLOSED"
     /\ app' \notin {"idle", "connecting"}

\* Received segments make only these transitions.
LEMMA RxTransition ==
  ASSUME TypeOK, Opening, NEW s \in Segment, Rx(s)
  PROVE  Transition
  <1> USE DEF Transition, sockVars
  <1>1. CASE \/ RxSynSentRefused(s) \/ RxSynSentEstab(s) \/ RxSynSentBadAck(s)
             \/ RxSynSentSyn(s) \/ RxSynRecvEstab(s) \/ RxSynRecvReset(s) \/ RxSynRecvDrop(s)
    BY <1>1, Zenon DEF RxSynSentRefused, RxSynSentEstab, RxSynSentBadAck, RxSynSentSyn,
                RxSynRecvEstab, RxSynRecvReset, RxSynRecvDrop, RxSynRecvGuard
  <1>2. CASE RxSyn(s) \/ RxDrop(s) \/ RxBuffer(s)
    BY <1>2 DEF RxSyn, RxDrop, RxBuffer
  <1>3. CASE RxReset(s) \/ RxCloseAbort(s) \/ RxLastAck(s)
    <2>1. state \in Trimming \cup Checking \cup {"TIME_WAIT"} /\ app' = app
      BY <1>3, RxSyncFrame
    <2>2. app \notin {"idle", "connecting"}
      BY <2>1, ZenonT(30) DEF Opening, Trimming, Checking
    <2>3. state' \in {state, "CLOSED"}
      BY <1>3 DEF RxReset, RxCloseAbort, RxLastAck, Abort
    <2> QED BY <2>1, <2>2, <2>3 DEF Trimming, Checking, States
  <1>4. CASE \/ RxEstab(s) \/ RxFinWait1(s) \/ RxFinWait2(s)
             \/ RxCloseWait(s) \/ RxClosing(s) \/ RxTimeWait(s)
    BY <1>4, ZenonT(30) DEF RxEstab, RxFinWait1, RxFinWait2, RxCloseWait, RxClosing, RxTimeWait,
                EnterTimeWait
  <1> HIDE DEF Transition
  <1> QED BY <1>1, <1>2, <1>3, <1>4, Zenon DEF Rx

\* Transmission makes only these transitions.
LEMMA TxTransition ==
  ASSUME TypeOK, Opening, NEW nxt0, NEW vr0, NEW tm0, Tx(nxt0, vr0, tm0)
  PROVE  Transition
  <1> USE DEF Transition
  <1>1. app' = app
    BY TxFrame, ZenonT(30)
  <1>2. CASE TxAbort(nxt0, vr0)
    <2>1. state \in {"ESTAB", "CLOSE_WAIT", "FIN_WAIT_2", "FIN_WAIT_1", "CLOSING"}
      BY <1>2 DEF TxAbort, LingerAborts
    <2> QED BY <1>1, <1>2, <2>1 DEF TxAbort, Abort, Opening, States
  <1>3. CASE TxData(nxt0, vr0, tm0) \/ TxFin(nxt0, vr0, tm0)
    <2>1. state' \in {state, NextOnFin}
      BY <1>3, ZenonT(30) DEF TxData, TxFin
    <2> QED BY <1>1, <2>1, Zenon DEF NextOnFin
  <1>4. CASE \/ TxSpin(nxt0, vr0, tm0) \/ TxAckOrNothing(nxt0, vr0, tm0)
             \/ TxSyn(nxt0, vr0, tm0) \/ TxNoHandler(nxt0, vr0, tm0)
    BY <1>1, <1>4 DEF TxSpin, TxAckOrNothing, TxSyn, TxNoHandler
  <1> QED BY <1>2, <1>3, <1>4, Zenon DEF Tx

\* Every step makes only these transitions.
LEMMA NextTransition ==
  ASSUME TypeOK, Opening, [Next]_vars
  PROVE  Transition
  <1> USE DEF sockVars
  <1>1. CASE App
    BY <1>1, ZenonT(30) DEF App, AppConnect, AppSend, AppRecv, AppShutdown, AppClose, Transition
  <1>2. CASE EvConnect
    <2>1. Queued("CONNECT") /\ events # <<>>
      BY <1>2, QueuedTake, ZenonT(30) DEF EvConnect, TypeOK, Take
    <2>2. state = "CLOSED" /\ app = "connecting"
      BY <2>1 DEF Opening, TypeOK, CtlTypeOK
    <2> QED BY <1>2, <2>2 DEF EvConnect, Transition
  <1>3. CASE EvSend \/ EvRtx
    BY <1>3, TxTransition DEF EvSend, EvRtx
  <1>4. ASSUME NEW s \in Segments, Rx(s) PROVE Transition
    BY <1>4, SegmentType, RxTransition, ZenonT(30)
  <1>5. CASE RtxTimerFires \/ OrphanFires \/ TimeWaitFires
    BY <1>5 DEF RtxTimerFires, OrphanFires, TimeWaitFires, TimerUnchanged, Transition
  <1>6. CASE UNCHANGED vars
    BY <1>6 DEF vars, Transition
  <1> QED BY <1>1, <1>2, <1>3, <1>4, <1>5, <1>6, Zenon DEF Next

\* Every transition is a step of TcpConn, or leaves both halves alone.
LEMMA TransitionImplements ==
  ASSUME state \in States, Transition
  PROVE  [Conn!Next]_(Conn!conn)
  <1> USE DEF LocalHalf, PeerHalf, Conn!Next, Conn!conn
  <1>1. CASE state' = state /\ (app' = app \/ state # "CLOSED")
    BY <1>1 DEF States
  <1>2. CASE state' = state /\ app = "idle" /\ app' = "connecting"
    BY <1>2 DEF States
  <1>3. CASE state = "CLOSED" /\ app = "connecting" /\ state' = "SYN_SENT"
    BY <1>3 DEF Conn!Connect
  <1>4. CASE state = "SYN_SENT" /\ state' = "SYN_RECV"
    BY <1>4
  <1>5. CASE state \in {"SYN_SENT", "SYN_RECV"} /\ state' = "ESTAB"
    BY <1>5 DEF Conn!Establish
  <1>6. CASE state = "ESTAB" /\ state' = "CLOSE_WAIT"
    BY <1>6 DEF Conn!PeerFin
  <1>7. CASE \/ state = "ESTAB" /\ state' = "FIN_WAIT_1"
             \/ state = "CLOSE_WAIT" /\ state' = "LAST_ACK"
    BY <1>7 DEF Conn!SendFin
  <1>8. CASE \/ state = "FIN_WAIT_1" /\ state' \in {"FIN_WAIT_2", "TIME_WAIT"}
             \/ state = "CLOSING" /\ state' = "TIME_WAIT"
    BY <1>8 DEF Conn!FinAcked
  <1>9. CASE \/ state = "FIN_WAIT_1" /\ state' = "CLOSING"
             \/ state = "FIN_WAIT_2" /\ state' = "TIME_WAIT"
    BY <1>9 DEF Conn!PeerFin
  <1>10. CASE /\ state \in States \ {"CLOSED", "SYN_SENT", "SYN_RECV"} /\ state' = "CLOSED"
              /\ app' \notin {"idle", "connecting"}
    BY <1>10 DEF Conn!Abort, States
  <1> HIDE DEF LocalHalf, PeerHalf, Conn!Next, Conn!conn
  <1> QED BY <1>1, <1>2, <1>3, <1>4, <1>5, <1>6, <1>7, <1>8, <1>9, <1>10 DEF Transition

\* The state machine of tcp_fsm.py implements the two half-connections of TcpConn.
THEOREM FsmImplementsConn == Spec => ImplementsConn
  <1>1. Init => Conn!Init
    BY DEF Init, Conn!Init, LocalHalf, PeerHalf
  <1>2. TypeOK /\ Opening /\ [Next]_vars => [Conn!Next]_(Conn!conn)
    BY NextTransition, TransitionImplements DEF TypeOK, CtlTypeOK
  <1> QED BY <1>1, <1>2, TypeCorrect, OpeningInvariant, PTL DEF Spec, ImplementsConn, Conn!Spec

-----------------------------------------------------------------------------
(* Masked sums and differences *)

\* Division with remainder by the size of the sequence space.
LEMMA MaskQuotient ==
  ASSUME NEW x \in Int
  PROVE  \E q \in Int : x = SeqSpace * q + Mask(x)
  <1> DEFINE M == SeqSpace
             q == x \div M
             z == x - M * q
  <1>1. M \in Int /\ M > 0
    BY HalfAssumption DEF SeqSpace
  <1> HIDE DEF M
  <1>2. q \in Int /\ M * q \in Int
    BY <1>1
  <1>3. M * q <= x /\ x < M * q + M
    BY <1>1
  <1> HIDE DEF q
  <1>4. z \in 0 .. M - 1 /\ x = M * q + z
    BY <1>1, <1>2, <1>3
  <1> HIDE DEF z
  <1>5. x % M = z
    BY <1>1, <1>2, <1>4
  <1> QED BY <1>2, <1>4, <1>5 DEF Mask, M

\* A number is masked to the remainder it is written with.
LEMMA MaskUnique ==
  ASSUME NEW q \in Int, NEW z \in SeqNum
  PROVE  Mask(SeqSpace * q + z) = z
  <1> DEFINE M == SeqSpace
  <1>1. M \in Int /\ M > 0 /\ z \in 0 .. M - 1
    BY HalfAssumption DEF SeqSpace, SeqNum
  <1> HIDE DEF M
  <1>2. (M * q + z) % M = z
    BY <1>1
  <1> QED BY <1>2 DEF Mask, M

\* Whole turns of the sequence space do not matter.
LEMMA MaskTurns ==
  ASSUME NEW x \in Int, NEW k \in Int
  PROVE  Mask(x + SeqSpace * k) = Mask(x)
  <1>1. PICK q \in Int : x = SeqSpace * q + Mask(x)
    BY MaskQuotient
  <1>2. SeqSpace \in Int /\ Mask(x) \in SeqNum /\ Mask(x) \in Int
    BY MaskType, SeqNumNat, HalfAssumption DEF SeqSpace
  <1> DEFINE t == q + k
  <1>3. t \in Int /\ SeqSpace * t = SeqSpace * q + SeqSpace * k
    BY <1>2
  <1> HIDE DEF t
  <1>4. x + SeqSpace * k = SeqSpace * t + Mask(x)
    BY <1>1, <1>2, <1>3
  <1>5. Mask(SeqSpace * t + Mask(x)) = Mask(x)
    BY <1>2, <1>3, MaskUnique, Zenon
  <1> QED BY <1>4, <1>5

\* A sum may be masked at any point.
LEMMA MaskSum ==
  ASSUME NEW x \in Int, NEW y \in Int
  PROVE  Mask(Mask(x) + y) = Mask(x + y)
  <1>1. PICK q \in Int : x = SeqSpace * q + Mask(x)
    BY MaskQuotient
  <1>2. SeqSpace \in Int /\ Mask(x) \in Int /\ SeqSpace * q \in Int
    BY MaskType, SeqNumNat, HalfAssumption DEF SeqSpace
  <1>3. x + y = (Mask(x) + y) + SeqSpace * q /\ Mask(x) + y \in Int
    BY <1>1, <1>2
  <1> QED BY <1>3, MaskTurns

\* The masked difference of two masked numbers is that of the numbers themselves.
LEMMA MaskDiff ==
  ASSUME NEW x \in Int, NEW y \in Int
  PROVE  seq_diff(Mask(x), Mask(y)) = Mask(x - y)
  <1>1. PICK q \in Int : y = SeqSpace * q + Mask(y)
    BY MaskQuotient
  <1>2. SeqSpace \in Int /\ Mask(x) \in Int /\ Mask(y) \in Int /\ SeqSpace * q \in Int
    BY MaskType, SeqNumNat, HalfAssumption DEF SeqSpace
  <1>3. x - Mask(y) = (x - y) + SeqSpace * q /\ x - y \in Int /\ 0 - Mask(y) \in Int
    BY <1>1, <1>2
  <1>4. Mask(Mask(x) + (0 - Mask(y))) = Mask(x + (0 - Mask(y)))
    BY <1>2, <1>3, MaskSum
  <1>5. Mask(x) - Mask(y) = Mask(x) + (0 - Mask(y)) /\ x - Mask(y) = x + (0 - Mask(y))
    BY <1>2
  <1>6. Mask(x - Mask(y)) = Mask(x - y)
    BY <1>3, MaskTurns
  <1> QED BY <1>4, <1>5, <1>6 DEF seq_diff

\* The comparisons of seq.py order any two numbers of a stream that are less than half the
\* sequence space apart, wherever the sequence numbers wrap around, and seq_diff measures
\* their distance.
THEOREM SequenceOrder ==
  ASSUME NEW a \in Int, NEW b \in Int, a - b < Half, b - a < Half
  PROVE  /\ Mask(a) = Mask(b) <=> a = b
         /\ seq_lt(Mask(a), Mask(b)) <=> a < b
         /\ seq_leq(Mask(a), Mask(b)) <=> a <= b
         /\ seq_gt(Mask(a), Mask(b)) <=> a > b
         /\ seq_geq(Mask(a), Mask(b)) <=> a >= b
         /\ a >= b => seq_diff(Mask(a), Mask(b)) = a - b
  <1>1. seq_diff(Mask(a), Mask(b)) = Mask(a - b)
    BY MaskDiff
  <1>2. Mask(a - b) = IF a >= b THEN a - b ELSE a - b + SeqSpace
    <2>1. CASE a >= b
      <3>1. a - b \in SeqNum
        BY <2>1, HalfAssumption DEF SeqNum, SeqSpace
      <3> QED BY <2>1, <3>1, MaskSmall
    <2>2. CASE a < b
      <3>1. a - b + SeqSpace \in SeqNum /\ a - b + SeqSpace = (a - b) + SeqSpace * 1 /\ a - b \in Int
        BY <2>2, HalfAssumption DEF SeqNum, SeqSpace
      <3>2. Mask((a - b) + SeqSpace * 1) = Mask(a - b)
        BY <3>1, MaskTurns
      <3> QED BY <2>2, <3>1, <3>2, MaskSmall
    <2> QED BY <2>1, <2>2
  <1>3. Mask(a) \in SeqNum /\ Mask(b) \in SeqNum
    BY MaskType, Zenon
  <1>4. Mask(a) = Mask(b) => a = b
    <2> SUFFICES ASSUME Mask(a) = Mask(b) PROVE a = b
      OBVIOUS
    <2>1. seq_diff(Mask(a), Mask(b)) = 0
      BY <1>3, DiffCases, SeqNumNat
    <2> QED BY <1>1, <1>2, <2>1, HalfAssumption DEF SeqSpace
  <1> QED BY <1>1, <1>2, <1>4, HalfAssumption DEF seq_gt, seq_geq, seq_leq, seq_lt, SeqSpace

-----------------------------------------------------------------------------
(* The receive window always leaves room *)

\* A right edge that is ahead of nxt by at least one and at most the initial window.
Room(adv, nxt) == seq_diff(adv, nxt) \in 1 .. RcvSpace + 1

\* Until a SYN is received rcv_buf is empty and the initial window unchanged.
RcvFresh ==
    state = "SYN_SENT" \/ (state = "CLOSED" /\ app \in {"idle", "connecting"}) =>
        rcv_wnd = RcvSpace + 1 /\ rcv_rd = 0 /\ rcv_wr = 0

\* Moving the left edge by l brings it closer to the right edge by l.
LEMMA DiffAdvance ==
  ASSUME NEW a \in SeqNum, NEW n \in SeqNum, NEW l \in Nat, l <= seq_diff(a, n)
  PROVE  seq_diff(a, Mask(n + l)) = seq_diff(a, n) - l
  <1>1. a \in Int /\ n \in Int /\ Mask(a) = a /\ a - n \in Int /\ 0 - l \in Int
    BY SeqNumNat, MaskSmall
  <1>2. seq_diff(a, Mask(n + l)) = Mask(a - (n + l))
    BY <1>1, MaskDiff
  <1>3. Mask(Mask(a - n) + (0 - l)) = Mask((a - n) + (0 - l))
    BY <1>1, MaskSum
  <1>4. (a - n) + (0 - l) = a - (n + l)
    BY <1>1
  <1>5. seq_diff(a, n) \in SeqNum
    BY <1>1, MaskType DEF seq_diff
  <1>6. seq_diff(a, n) - l \in SeqNum /\ seq_diff(a, n) + (0 - l) = seq_diff(a, n) - l
    BY <1>5, HalfAssumption DEF SeqNum, SeqSpace
  <1> QED BY <1>2, <1>3, <1>4, <1>6, MaskSmall DEF seq_diff

\* A right edge put l ahead of the left edge is l ahead of it.
LEMMA DiffOwn ==
  ASSUME NEW n \in SeqNum, NEW l \in SeqNum
  PROVE  seq_diff(Mask(n + l), n) = l
  <1>1. n \in Int /\ l \in Int /\ Mask(n) = n /\ Mask(l) = l
    BY SeqNumNat, MaskSmall
  <1>2. seq_diff(Mask(n + l), Mask(n)) = Mask((n + l) - n) /\ (n + l) - n = l
    BY <1>1, MaskDiff
  <1> QED BY <1>1, <1>2

\* _h_rx_seq_normal trims to less than the room up to rcv_adv.
LEMMA TrimRoom ==
  ASSUME NEW s \in Segment, RcvTypeOK, Room(rcv_adv, rcv_nxt)
  PROVE  Trim(s).len \in Nat /\ Trim(s).len <= seq_diff(rcv_adv, rcv_nxt) - 1
  <1>1. seq_diff(rcv_adv, rcv_nxt) \in SeqNum /\ seq_diff(rcv_adv, rcv_nxt) >= 1
    BY MaskType, SeqNumNat DEF Room, seq_diff, RcvTypeOK
  <1>2. Mask(seq_diff(rcv_adv, rcv_nxt) - 1) = seq_diff(rcv_adv, rcv_nxt) - 1
    BY <1>1, MaskSmall, HalfAssumption DEF SeqNum, SeqSpace
  <1>3. DataLen(s) <= seq_diff(rcv_adv, rcv_nxt) - 1
    <2>1. SegLen(s) \in Nat /\ last_seq(s) \in Int
      BY SeqNumNat DEF Segment, SegLen, last_seq
    <2>2. seq_diff(last_seq(s) + 1, rcv_nxt) \in Nat
      BY <2>1, MaskType, SeqNumNat DEF seq_diff, RcvTypeOK
    <2> QED BY <1>1, <1>2, <2>2, SeqNumNat DEF DataLen, Least
  <1>4. Trim(s).len \in Nat /\ (Trim(s).len = 0 \/ Trim(s).len = DataLen(s))
    BY TrimFields, TrimType, Zenon
  <1> QED BY <1>1, <1>3, <1>4, SeqNumNat

\* Accepting a segment leaves room.
LEMMA AdvancedRoom ==
  ASSUME NEW s \in Segment, RcvTypeOK, Room(rcv_adv, rcv_nxt)
  PROVE  Room(rcv_adv, AdvancedRcvNxt(s))
  <1> DEFINE d == seq_diff(rcv_adv, rcv_nxt)
             l == Trim(s).len
  <1>1. d \in 1 .. RcvSpace + 1 /\ l \in Nat /\ l <= d - 1
    BY TrimRoom DEF Room
  <1>2. rcv_adv \in SeqNum /\ rcv_nxt \in SeqNum
    BY DEF RcvTypeOK
  <1>3. seq_diff(rcv_adv, Mask(rcv_nxt + l)) = d - l
    <2> HIDE DEF l
    <2> QED BY <1>1, <1>2, DiffAdvance, FsmAssumption
  <1> HIDE DEF d, l
  <1>4. d - l \in 1 .. RcvSpace + 1
    BY <1>1, FsmAssumption
  <1> QED BY <1>3, <1>4 DEF Room, AdvancedRcvNxt, l

\* _compute_rcv_wnd moves rcv_adv only forwards, to at most the free space.
LEMMA NewAdvRoom ==
  ASSUME RcvTypeOK, NEW nxt \in SeqNum, Room(rcv_adv, nxt)
  PROVE  Room(NewRcvAdv(nxt), nxt)
  <1> DEFINE adv == Mask(RcvFree + nxt)
  <1>1. RcvFree \in Nat /\ RcvFree <= RcvSpace /\ RcvFree \in SeqNum
    BY RcvFreeType, FsmAssumption, HalfAssumption DEF SeqNum, SeqSpace
  <1>2. adv \in SeqNum /\ rcv_adv \in SeqNum
    BY <1>1, MaskType, SeqNumNat DEF RcvTypeOK
  <1>3. seq_diff(adv, nxt) = RcvFree
    <2>1. RcvFree + nxt = nxt + RcvFree
      BY <1>1, SeqNumNat
    <2> QED BY <1>1, <2>1, DiffOwn
  <1>4. ASSUME seq_gt(adv, rcv_adv) PROVE RcvFree >= 1
    <2>1. CASE RcvFree = 0
      <3>1. adv = nxt
        BY <2>1, MaskSmall, SeqNumNat
      <3>2. seq_diff(nxt, rcv_adv) < Half /\ nxt # rcv_adv
        BY <1>4, <3>1 DEF seq_gt
      <3>3. /\ seq_diff(nxt, rcv_adv) = IF nxt >= rcv_adv THEN nxt - rcv_adv ELSE nxt - rcv_adv + SeqSpace
            /\ seq_diff(rcv_adv, nxt) = IF rcv_adv >= nxt THEN rcv_adv - nxt ELSE rcv_adv - nxt + SeqSpace
        BY <1>2, DiffCases
      <3>4. seq_diff(rcv_adv, nxt) \in 1 .. RcvSpace + 1
        BY DEF Room
      <3> QED BY <1>2, <3>2, <3>3, <3>4, FsmAssumption, HalfAssumption DEF SeqNum, SeqSpace
    <2> QED BY <1>1, <2>1
  <1> HIDE DEF adv
  <1>5. CASE seq_gt(adv, rcv_adv)
    BY <1>1, <1>3, <1>4, <1>5, FsmAssumption DEF NewRcvAdv, Room, adv
  <1>6. CASE ~ seq_gt(adv, rcv_adv)
    BY <1>6 DEF NewRcvAdv, adv
  <1> QED BY <1>5, <1>6

\* CONNECT is handled once, for the connect() that waits.
LEMMA ConnectFirst ==
  ASSUME TypeOK, Opening, EvConnect
  PROVE  app = "connecting" /\ state = "CLOSED"
  <1>1. CtlTypeOK /\ events # <<>>
    BY DEF TypeOK, EvConnect, Take
  <1>2. Queued("CONNECT")
    BY <1>1, QueuedTake DEF EvConnect
  <1> QED BY <1>1, <1>2 DEF Opening, CtlTypeOK

\* What the tx handlers do to the receive variables.
LEMMA TxRcv ==
  ASSUME NEW nxt0, NEW vr0, NEW tm0, Tx(nxt0, vr0, tm0)
  PROVE  /\ UNCHANGED rcvVars \/ (state \in {"ESTAB", "FIN_WAIT_1", "CLOSE_WAIT"} /\ ComputeRcvWnd)
         /\ state' \in Synchronized => state \in Synchronized
  <1> USE DEF Synchronized, Sending, States, RefreshRcvWnd
  <1>1. CASE TxAbort(nxt0, vr0)
    BY <1>1 DEF TxAbort, Abort
  <1>2. CASE TxData(nxt0, vr0, tm0)
    BY <1>2 DEF TxData
  <1>3. CASE TxFin(nxt0, vr0, tm0)
    BY <1>3 DEF TxFin, FinDue
  <1>4. CASE TxSpin(nxt0, vr0, tm0) \/ TxAckOrNothing(nxt0, vr0, tm0)
    BY <1>4 DEF TxSpin, TxAckOrNothing
  <1>5. CASE TxSyn(nxt0, vr0, tm0) \/ TxNoHandler(nxt0, vr0, tm0)
    BY <1>5 DEF TxSyn, TxNoHandler
  <1> QED BY <1>1, <1>2, <1>3, <1>4, <1>5 DEF Tx

\* Every handler of the synchronized states accepts a segment's sequence numbers and
\* data, only its sequence numbers, or nothing.
LEMMA RxSyncRcv ==
  ASSUME NEW s \in Segment,
         \/ RxReset(s) \/ RxCloseAbort(s) \/ RxSyn(s) \/ RxDrop(s) \/ RxBuffer(s)
         \/ RxEstab(s) \/ RxFinWait1(s) \/ RxFinWait2(s)
         \/ RxCloseWait(s) \/ RxClosing(s) \/ RxLastAck(s) \/ RxTimeWait(s)
  PROVE  UNCHANGED rcvVars \/ AdvanceRcvNxt(s) \/ AppendRcvData(s)
  BY Zenon DEF RxReset, RxCloseAbort, RxSyn, RxDrop, RxBuffer, RxEstab, RxFinWait1, RxFinWait2,
         RxCloseWait, RxClosing, RxLastAck, RxTimeWait

\* The tx handlers leave room, and an unopened connection's receive variables alone.
LEMMA TxRoom ==
  ASSUME TypeOK, Opening, RcvRoom, RcvFresh, NEW nxt0, NEW vr0, NEW tm0, Tx(nxt0, vr0, tm0)
  PROVE  RcvRoom' /\ RcvFresh'
  <1>1. /\ UNCHANGED rcvVars \/ (state \in {"ESTAB", "FIN_WAIT_1", "CLOSE_WAIT"} /\ ComputeRcvWnd)
        /\ state' \in Synchronized => state \in Synchronized
    BY TxRcv
  <1>2. /\ app' = app
        /\ state \in {"SYN_SENT", "SYN_RECV"} => state' = state
        /\ state \notin {"SYN_SENT", "SYN_RECV"} => state' \notin {"SYN_SENT", "SYN_RECV"}
        /\ state = "CLOSED" => state' = "CLOSED"
    BY TxFrame
  <1>3. CASE UNCHANGED rcvVars
    <2>1. RcvRoom'
      BY <1>1, <1>3 DEF RcvRoom, rcvVars, seq_diff
    <2>2. RcvFresh'
      BY <1>2, <1>3 DEF RcvFresh, Opening, rcvVars
    <2> QED BY <2>1, <2>2
  <1>4. CASE state \in {"ESTAB", "FIN_WAIT_1", "CLOSE_WAIT"} /\ ComputeRcvWnd
    <2>1. RcvTypeOK /\ Room(rcv_adv, rcv_nxt)
      BY <1>4 DEF TypeOK, RcvRoom, Room, Synchronized, States
    <2>2. Room(NewRcvAdv(rcv_nxt), rcv_nxt)
      BY <2>1, NewAdvRoom DEF RcvTypeOK
    <2>3. RcvRoom'
      BY <1>4, <2>2 DEF RcvRoom, Room, ComputeRcvWnd
    <2>4. app \notin {"idle", "connecting"}
      BY <1>4 DEF Opening
    <2>5. RcvFresh'
      BY <1>2, <1>4, <2>4 DEF RcvFresh
    <2> QED BY <2>3, <2>5
  <1> QED BY <1>1, <1>3, <1>4

\* The handshake opens the window to RcvSpace + 1, or to what a SYN's payload leaves.
LEMMA RxOpeningRoom ==
  ASSUME TypeOK, RcvRoom, RcvFresh, Opening, NEW s \in Segment,
         \/ RxSynSentRefused(s) \/ RxSynSentEstab(s) \/ RxSynSentBadAck(s) \/ RxSynSentSyn(s)
         \/ RxSynRecvEstab(s) \/ RxSynRecvReset(s) \/ RxSynRecvDrop(s)
  PROVE  RcvRoom' /\ RcvFresh'
  <1> USE DEF rcvVars, sockVars
  <1>0. s.seq \in SeqNum /\ s.dlen \in Nat /\ RcvTypeOK
    BY DEF Segment, TypeOK
  <1>1. CASE RxSynSentRefused(s) \/ RxSynSentBadAck(s) \/ RxSynRecvDrop(s)
    <2>1. UNCHANGED <<state, rcv_nxt, rcv_adv, rcv_wnd, rcv_rd, rcv_wr>>
      BY <1>1, ZenonT(30) DEF RxSynSentRefused, RxSynSentBadAck, RxSynRecvDrop
    <2>2. state \in {"SYN_SENT", "SYN_RECV"}
      BY <1>1, Zenon DEF RxSynSentRefused, RxSynSentBadAck, RxSynRecvDrop, RxSynRecvGuard
    <2> QED BY <2>1, <2>2 DEF RcvRoom, RcvFresh
  <1>2. CASE RxSynSentEstab(s)
    <2> DEFINE l == Least(s.dlen, RcvFree)
    <2>0. rcv_wnd = RcvSpace + 1
      BY <1>2, Zenon DEF RxSynSentEstab, RcvFresh
    <2>1. l \in Nat /\ l <= RcvSpace
      BY <1>0, RcvFreeType, FsmAssumption DEF Least
    <2>2. /\ rcv_nxt' = Mask(s.seq + 1 + l) /\ rcv_adv' = Mask(s.seq + 1 + rcv_wnd)
          /\ state' = "ESTAB"
      BY <1>2, Zenon DEF RxSynSentEstab
    <2> HIDE DEF l
    <2>3. /\ s.seq + 1 + l \in Int /\ s.seq + 1 + rcv_wnd \in Int
          /\ (s.seq + 1 + rcv_wnd) - (s.seq + 1 + l) = RcvSpace + 1 - l
          /\ RcvSpace + 1 - l \in 1 .. RcvSpace + 1
          /\ RcvSpace + 1 - l \in SeqNum
      BY <1>0, <2>0, <2>1, FsmAssumption, HalfAssumption DEF SeqNum, SeqSpace
    <2>4. seq_diff(rcv_adv', rcv_nxt') = RcvSpace + 1 - l
      BY <2>2, <2>3, MaskDiff, MaskSmall, Zenon
    <2> QED BY <2>2, <2>3, <2>4 DEF RcvRoom, RcvFresh
  <1>3. CASE RxSynSentSyn(s)
    <2>1. rcv_wnd = RcvSpace + 1
      BY <1>3 DEF RxSynSentSyn, RcvFresh
    <2>2. rcv_nxt' = Mask(s.seq + 1) /\ rcv_adv' = Mask(s.seq + 1 + rcv_wnd) /\ state' = "SYN_RECV"
      BY <1>3, Zenon DEF RxSynSentSyn
    <2>3. /\ s.seq + 1 \in Int /\ s.seq + 1 + rcv_wnd \in Int
          /\ (s.seq + 1 + rcv_wnd) - (s.seq + 1) = RcvSpace + 1
          /\ RcvSpace + 1 \in SeqNum /\ RcvSpace + 1 \in 1 .. RcvSpace + 1
      BY <1>0, <2>1, FsmAssumption, HalfAssumption DEF SeqNum, SeqSpace
    <2>4. seq_diff(rcv_adv', rcv_nxt') = RcvSpace + 1
      BY <2>2, <2>3, MaskDiff, MaskSmall, Zenon
    <2> QED BY <2>2, <2>3, <2>4 DEF RcvRoom, RcvFresh
  <1>4. CASE RxSynRecvEstab(s) \/ RxSynRecvReset(s)
    <2>1. /\ state = "SYN_RECV" /\ state' \in {"SYN_RECV", "ESTAB"} /\ rcv_adv' = rcv_adv
          /\ rcv_nxt' = rcv_nxt \/ rcv_nxt' = AdvancedRcvNxt(SynRecvSeg(s))
      BY <1>4, Zenon DEF RxSynRecvEstab, RxSynRecvReset, RxSynRecvGuard
    <2>2. Room(rcv_adv, rcv_nxt)
      BY <2>1 DEF RcvRoom, Room, Synchronized, States
    <2>3. Room(rcv_adv, AdvancedRcvNxt(SynRecvSeg(s)))
      BY <1>0, <2>2, SynRecvSegType, AdvancedRoom
    <2> QED BY <2>1, <2>2, <2>3 DEF RcvRoom, RcvFresh, Room
  <1> QED BY <1>1, <1>2, <1>3, <1>4

\* The receive window keeps its room, step by step.
LEMMA RcvRoomStep ==
  ASSUME TypeOK, Opening, RcvRoom, RcvFresh, [Next]_vars
  PROVE  RcvRoom' /\ RcvFresh'
  <1> USE DEF rcvVars, sockVars
  <1>1. ASSUME UNCHANGED <<state, rcv_nxt, rcv_adv, rcv_wnd, rcv_rd, rcv_wr>>,
               app' = app \/ app = "idle"
        PROVE  RcvRoom' /\ RcvFresh'
    <2>1. RcvRoom'
      BY <1>1 DEF RcvRoom
    <2>2. RcvFresh'
      BY <1>1 DEF RcvFresh, Opening
    <2> QED BY <2>1, <2>2
  <1>2. CASE AppConnect \/ AppShutdown \/ AppClose \/ \E n \in 1 .. SndLimit : AppSend(n)
    BY <1>1, <1>2 DEF AppConnect, AppShutdown, AppClose, AppSend
  <1>3. ASSUME NEW n \in 1 .. RcvSpace, AppRecv(n) PROVE RcvRoom' /\ RcvFresh'
    <2>1. UNCHANGED <<state, rcv_nxt, rcv_adv, app>> /\ app = "connected"
      BY <1>3 DEF AppRecv
    <2>2. RcvRoom'
      BY <2>1 DEF RcvRoom
    <2>3. RcvFresh'
      BY <2>1 DEF RcvFresh, Opening
    <2> QED BY <2>2, <2>3
  <1>4. CASE EvConnect
    <2>1. UNCHANGED rcvVars /\ state' = "SYN_SENT"
      BY <1>4 DEF EvConnect
    <2>2. app = "connecting" /\ state = "CLOSED"
      BY <1>4, ConnectFirst
    <2> QED BY <2>1, <2>2 DEF RcvRoom, RcvFresh, Synchronized
  <1>5. CASE EvSend \/ EvRtx
    BY <1>5, TxRoom DEF EvSend, EvRtx
  <1>6. ASSUME NEW s \in Segments, Rx(s) PROVE RcvRoom' /\ RcvFresh'
    <2>1. s \in Segment
      BY SegmentType
    <2>2. CASE \/ RxSynSentRefused(s) \/ RxSynSentEstab(s) \/ RxSynSentBadAck(s)
               \/ RxSynSentSyn(s) \/ RxSynRecvEstab(s) \/ RxSynRecvReset(s) \/ RxSynRecvDrop(s)
      BY <2>1, <2>2, RxOpeningRoom
    <2>3. CASE \/ RxReset(s) \/ RxCloseAbort(s) \/ RxSyn(s) \/ RxDrop(s) \/ RxBuffer(s)
               \/ RxEstab(s) \/ RxFinWait1(s) \/ RxFinWait2(s)
               \/ RxCloseWait(s) \/ RxClosing(s) \/ RxLastAck(s) \/ RxTimeWait(s)
      <3>1. /\ state \in Trimming \cup Checking \cup {"TIME_WAIT"}
            /\ state' = state \/ state' \notin {"SYN_SENT", "SYN_RECV"}
            /\ app' = app
        BY <2>1, <2>3, RxSyncFrame
      <3>2. RcvTypeOK /\ Room(rcv_adv, rcv_nxt)
        BY <3>1 DEF TypeOK, RcvRoom, Room, Synchronized, States, Trimming, Checking
      <3>3. AdvancedRcvNxt(s) \in SeqNum /\ Room(rcv_adv, AdvancedRcvNxt(s))
        BY <2>1, <3>2, AdvancedRoom, AdvancedType
      <3>4. Room(rcv_adv', rcv_nxt')
        <4>1. CASE UNCHANGED rcvVars
          BY <3>2, <4>1
        <4>2. CASE AdvanceRcvNxt(s)
          BY <3>2, <3>3, <4>2 DEF AdvanceRcvNxt
        <4>3. CASE AppendRcvData(s)
          BY <3>2, <3>3, <4>3, NewAdvRoom DEF AppendRcvData
        <4> QED BY <2>1, <2>3, <4>1, <4>2, <4>3, RxSyncRcv
      <3>5. app \notin {"idle", "connecting"} /\ state' # "SYN_SENT"
        BY <3>1 DEF Opening, Trimming, Checking
      <3> QED BY <3>1, <3>4, <3>5 DEF RcvRoom, RcvFresh, Room
    <2> QED BY <1>6, <2>2, <2>3 DEF Rx
  <1>7. CASE RtxTimerFires \/ OrphanFires \/ TimeWaitFires
    BY <1>1, <1>7 DEF RtxTimerFires, OrphanFires, TimeWaitFires, TimerUnchanged
  <1>8. CASE UNCHANGED vars
    BY <1>1, <1>8 DEF vars
  <1> QED BY <1>2, <1>3, <1>4, <1>5, <1>6, <1>7, <1>8 DEF Next, App

\* The window has room in every behaviour.
LEMMA RoomAlways == Spec => [](RcvRoom /\ RcvFresh)
  <1>1. Init => RcvRoom /\ RcvFresh
    BY DEF Init, RcvRoom, RcvFresh, Synchronized
  <1>2. TypeOK /\ Opening /\ (RcvRoom /\ RcvFresh) /\ [Next]_vars => (RcvRoom /\ RcvFresh)'
    BY RcvRoomStep
  <1> QED BY <1>1, <1>2, TypeCorrect, OpeningInvariant, PTL DEF Spec

\* rcv_adv stays ahead of rcv_nxt by at least one and at most the initial window, so
\* tcp_data_len never wraps, whatever the peer sends and the application reads.
THEOREM ReceiveWindowHasRoom == Spec => []RcvRoom
  BY RoomAlways, PTL

-----------------------------------------------------------------------------
(* What rcv_nxt moves over is in rcv_buf *)

\* The segments of a peer that sends its stream in order and within the free space: data
\* that overlaps rcv_nxt starts there, and a SYN+ACK in SYN_RECV repeats the SYN only.
Fits(s) ==
    /\ (state = "ESTAB" /\ SegLen(s) > 0 /\ InOrder(s)) =>
           s.seq = rcv_nxt /\ s.syn = 0 /\ s.dlen <= RcvFree
    /\ state = "SYN_RECV" => SegLen(SynRecvSeg(s)) = 0

\* Every segment handled is one of those.
PeerFits ==
    [][(\E s \in Segments : Rx(s)) => \E s \in Segments : Rx(s) /\ Fits(s)]_vars

\* rcv_nxt is the sequence number after the last byte written to rcv_buf.
RcvExact == state \in {"SYN_RECV", "ESTAB"} => rcv_nxt = Mask(irs + 1 + rcv_wr)

\* Of such a segment _h_rx_seq_normal accepts no more than its data, unless the FIN is
\* accepted too.
LEMMA FitsLen ==
  ASSUME NEW s \in Segment, RcvTypeOK, Room(rcv_adv, rcv_nxt), SegLen(s) > 0,
         s.seq = rcv_nxt, s.syn = 0, s.dlen <= RcvFree, Trim(s).fin # 1
  PROVE  Trim(s).len <= s.dlen /\ Trim(s).start = 0
  <1>1. /\ s.dlen \in Nat /\ s.fin \in {0, 1} /\ rcv_nxt \in SeqNum /\ rcv_adv \in SeqNum
        /\ rcv_nxt \in Int /\ rcv_adv \in Int
    BY SeqNumNat DEF Segment, RcvTypeOK
  <1>2. s.dlen < Half /\ s.dlen + 1 < SeqSpace /\ s.dlen \in SeqNum
    BY <1>1, RcvFreeType, FsmAssumption, HalfAssumption DEF SeqNum, SeqSpace
  <1>3. SegLen(s) = s.dlen + s.fin /\ last_seq(s) = rcv_nxt + (s.dlen + s.fin - 1)
    BY <1>1 DEF SegLen, last_seq
  <1>4. Trim(s).start = 0
    <2>1. Todrop(s) = 0
      BY <1>1, DiffCases DEF Todrop
    <2> QED BY <2>1, TrimFields, Zenon
  <1>5. CASE s.fin = 0
    <2>1. seq_diff(last_seq(s) + 1, rcv_nxt) = Mask(s.dlen)
      <3>1. (last_seq(s) + 1) - rcv_nxt = s.dlen
        BY <1>1, <1>3, <1>5
      <3> QED BY <3>1 DEF seq_diff
    <2>2. seq_diff(last_seq(s) + 1, rcv_nxt) = s.dlen
      BY <1>2, <2>1, MaskSmall
    <2>3. Mask(seq_diff(rcv_adv, rcv_nxt) - 1) \in Nat
      BY MaskType, SeqNumNat DEF Room
    <2>4. DataLen(s) <= s.dlen
      BY <1>1, <2>2, <2>3 DEF DataLen, Least
    <2>5. SegLen(s) # 0
      BY <1>1, <1>3
    <2>6. Trim(s).len = DataLen(s)
      BY <2>5, TrimFields, Zenon
    <2> QED BY <1>4, <2>4, <2>6
  <1>6. CASE s.fin = 1
    <2> DEFINE d == seq_diff(rcv_adv, rcv_nxt)
    <2>1. d \in 1 .. RcvSpace + 1 /\ d = Mask(rcv_adv - rcv_nxt) /\ d \in Int
      BY DEF Room, seq_diff
    <2>2. last_seq(s) = rcv_nxt + s.dlen /\ seq_geq(last_seq(s), rcv_adv)
      <3>1. last_seq(s) = rcv_nxt + s.dlen /\ SegLen(s) # 0
        BY <1>1, <1>3, <1>6
      <3>2. seq_geq(last_seq(s), rcv_adv)
        BY <1>6, <3>1, TrimFields, ZenonT(30)
      <3> QED BY <3>1, <3>2
    <2>3. CASE last_seq(s) = rcv_adv
      <3>1. rcv_adv - rcv_nxt = s.dlen
        BY <1>1, <2>2, <2>3
      <3>2. d = s.dlen
        BY <1>2, <2>1, <3>1, MaskSmall
      <3> QED BY <1>1, <1>4, <2>1, <3>2, TrimRoom, TrimType
    <2>4. CASE seq_gt(last_seq(s), rcv_adv)
      <3>1. Mask((rcv_nxt + s.dlen) - rcv_adv) < Half
        BY <2>2, <2>4 DEF seq_gt, seq_diff
      <3>2. Mask(rcv_nxt + d) = rcv_adv
        <4>1. PICK x \in Int : x = rcv_adv - rcv_nxt
          BY <1>1
        <4>2. Mask(Mask(x) + rcv_nxt) = Mask(x + rcv_nxt) /\ x + rcv_nxt = rcv_adv
          BY <1>1, <4>1, MaskSum
        <4>3. d + rcv_nxt = rcv_nxt + d /\ d = Mask(x)
          BY <1>1, <2>1, <4>1
        <4> QED BY <1>1, <4>2, <4>3, MaskSmall
      <3> HIDE DEF d
      <3>3. PICK e \in Int : e = rcv_nxt + d
        BY <1>1, <2>1
      <3>4. PICK l \in Int : l = rcv_nxt + s.dlen
        BY <1>1
      <3>5. seq_diff(Mask(l), Mask(e)) < Half
        <4>1. seq_diff(Mask(l), Mask(e)) = Mask(l - e)
          BY MaskDiff
        <4>2. seq_diff(Mask(l), Mask(rcv_adv)) = Mask(l - rcv_adv) /\ Mask(rcv_adv) = rcv_adv
          BY <1>1, MaskDiff, MaskSmall
        <4> QED BY <3>1, <3>2, <3>3, <3>4, <4>2
      <3>6. l - e < Half /\ e - l < Half
        BY <1>1, <1>2, <2>1, <3>3, <3>4, FsmAssumption, HalfAssumption
      <3>7. ~ seq_lt(Mask(l), Mask(e))
        <4>1. seq_diff(Mask(l), Mask(e)) \in Nat /\ Half \in Nat
          BY MaskType, SeqNumNat, HalfAssumption DEF seq_diff
        <4> QED BY <3>5, <4>1 DEF seq_lt
      <3>8. l >= e
        BY <3>6, <3>7, SequenceOrder
      <3>9. d <= s.dlen
        BY <1>1, <2>1, <3>3, <3>4, <3>8
      <3>10. Trim(s).len \in Nat /\ Trim(s).len <= d - 1
        BY TrimRoom DEF d
      <3> QED BY <1>1, <1>4, <2>1, <3>9, <3>10
    <2> QED BY <2>2, <2>3, <2>4 DEF seq_geq
  <1> QED BY <1>1, <1>5, <1>6

\* _rx_estab writes to rcv_buf exactly what it moves rcv_nxt over.
LEMMA FitsAppend ==
  ASSUME NEW s \in Segment, RcvTypeOK, RcvTypeOK', Room(rcv_adv, rcv_nxt), Fits(s), RcvExact,
         state = "ESTAB", Accept(s) = "HANDLE", AppendRcvData(s), Trim(s).fin # 1
  PROVE  rcv_nxt' = Mask(irs' + 1 + rcv_wr')
  <1>1. /\ s.dlen \in Nat /\ s.syn \in {0, 1} /\ s.fin \in {0, 1} /\ irs \in Int /\ rcv_wr \in Nat
        /\ RcvFree \in Nat /\ Trim(s).len \in Nat /\ rcv_nxt = Mask(irs + 1 + rcv_wr)
    BY RcvFreeType, TrimType, SeqNumNat DEF Segment, RcvTypeOK, RcvExact
  <1>2. rcv_wr' = rcv_wr + Trim(s).len
    <2>1. CASE SegLen(s) = 0
      <3>1. s.dlen = 0
        BY <1>1, <2>1 DEF SegLen
      <3>2. Trim(s) = [seq |-> s.seq, dlen |-> 0, fin |-> 0, start |-> 0, len |-> 0]
        BY <2>1, Zenon DEF Trim
      <3>3. Trim(s).len = 0
        BY <3>2
      <3>4. rcv_wr' = rcv_wr
        BY <3>1 DEF AppendRcvData
      <3> QED BY <1>1, <3>3, <3>4
    <2>2. CASE SegLen(s) # 0
      <3>1. SegLen(s) > 0 /\ h_rx_seq(s) = "HANDLE"
        BY <1>1, <2>2 DEF SegLen, Accept, Trimming
      <3>2. InOrder(s)
        BY <3>1 DEF h_rx_seq, RcvTypeOK
      <3>3. s.seq = rcv_nxt /\ s.syn = 0 /\ s.dlen <= RcvFree
        BY <3>1, <3>2 DEF Fits
      <3>4. Trim(s).len <= s.dlen /\ Trim(s).start = 0
        BY <3>1, <3>3, FitsLen
      <3>5. SliceLen(s, Trim(s)) = Trim(s).len
        BY <1>1, <3>4 DEF SliceLen, Least
      <3>6. rcv_wr' = IF s.dlen > 0 /\ RcvFree > 0
                      THEN rcv_wr + Least(Trim(s).len, RcvFree) ELSE rcv_wr
        BY <3>5 DEF AppendRcvData
      <3> QED BY <1>1, <3>3, <3>4, <3>6 DEF Least
    <2> QED BY <2>1, <2>2
  <1>3. rcv_nxt' = Mask(rcv_nxt + Trim(s).len) /\ irs' = irs
    BY DEF AppendRcvData, AdvancedRcvNxt
  <1>4. PICK x \in Int : x = irs + 1 + rcv_wr
    BY <1>1
  <1>5. Mask(Mask(x) + Trim(s).len) = Mask(x + Trim(s).len)
    <2>1. PICK t \in Int : t = Trim(s).len
      BY <1>1
    <2>2. Mask(Mask(x) + t) = Mask(x + t)
      BY MaskSum, Zenon
    <2> QED BY <2>1, <2>2
  <1>6. x + Trim(s).len = irs + 1 + (rcv_wr + Trim(s).len)
    BY <1>1, <1>4
  <1> QED BY <1>1, <1>2, <1>3, <1>4, <1>5, <1>6

\* Until the connection is established, only the SYN counts.
LEMMA RxOpeningExact ==
  ASSUME TypeOK, RcvFresh, RcvExact, NEW s \in Segment, Fits(s),
         \/ RxSynSentRefused(s) \/ RxSynSentEstab(s) \/ RxSynSentBadAck(s) \/ RxSynSentSyn(s)
         \/ RxSynRecvEstab(s) \/ RxSynRecvReset(s) \/ RxSynRecvDrop(s)
  PROVE  RcvExact'
  <1> USE DEF rcvVars
  <1>0. s.seq \in Int /\ s.dlen \in Nat /\ RcvFree \in Nat
    BY RcvFreeType, SeqNumNat DEF Segment, TypeOK
  <1>1. CASE RxSynSentRefused(s) \/ RxSynSentBadAck(s) \/ RxSynRecvDrop(s)
    BY <1>1, Zenon DEF RxSynSentRefused, RxSynSentBadAck, RxSynRecvDrop, RcvExact
  <1>2. CASE RxSynSentEstab(s)
    <2>1. rcv_wr = 0
      BY <1>2, Zenon DEF RxSynSentEstab, RcvFresh
    <2>2. /\ rcv_nxt' = Mask(s.seq + 1 + Least(s.dlen, RcvFree)) /\ irs' = s.seq
          /\ rcv_wr' = rcv_wr + Least(s.dlen, RcvFree)
      BY <1>2, Zenon DEF RxSynSentEstab
    <2>3. 0 + Least(s.dlen, RcvFree) = Least(s.dlen, RcvFree)
      BY <1>0 DEF Least
    <2> QED BY <2>1, <2>2, <2>3 DEF RcvExact
  <1>3. CASE RxSynSentSyn(s)
    <2>1. rcv_wr = 0
      BY <1>3, Zenon DEF RxSynSentSyn, RcvFresh
    <2>2. rcv_nxt' = Mask(s.seq + 1) /\ irs' = s.seq /\ rcv_wr' = rcv_wr
      BY <1>3, Zenon DEF RxSynSentSyn
    <2>3. s.seq + 1 + 0 = s.seq + 1
      BY <1>0
    <2> QED BY <2>1, <2>2, <2>3 DEF RcvExact
  <1>4. CASE RxSynRecvEstab(s) \/ RxSynRecvReset(s)
    <2>1. state = "SYN_RECV"
      BY <1>4, Zenon DEF RxSynRecvEstab, RxSynRecvReset, RxSynRecvGuard
    <2>2. ~ SynRecvInOrder(s)
      BY <2>1 DEF Fits, SynRecvInOrder
    <2>3. UNCHANGED <<rcv_nxt, irs, rcv_wr>>
      BY <1>4, <2>2, Zenon DEF RxSynRecvEstab, RxSynRecvReset
    <2> QED BY <2>1, <2>3 DEF RcvExact
  <1> QED BY <1>1, <1>2, <1>3, <1>4

\* In the synchronized states only _rx_estab stays in ESTAB and moves rcv_nxt.
LEMMA RxSyncExact ==
  ASSUME TypeOK, TypeOK', RcvRoom, RcvExact, NEW s \in Segment, Fits(s),
         \/ RxReset(s) \/ RxCloseAbort(s) \/ RxSyn(s) \/ RxDrop(s) \/ RxBuffer(s)
         \/ RxEstab(s) \/ RxFinWait1(s) \/ RxFinWait2(s)
         \/ RxCloseWait(s) \/ RxClosing(s) \/ RxLastAck(s) \/ RxTimeWait(s)
  PROVE  RcvExact'
  <1>1. CASE RxReset(s) \/ RxCloseAbort(s)
    BY <1>1, Zenon DEF RxReset, RxCloseAbort, Abort, RcvExact
  <1>2. CASE RxSyn(s)
    <2>1. state' = state /\ Accept(s) = "HANDLE" /\ s.syn = 1
      BY <1>2, Zenon DEF RxSyn
    <2>2. ASSUME state = "ESTAB" PROVE FALSE
      <3>1. SegLen(s) > 0 /\ h_rx_seq(s) = "HANDLE"
        BY <2>1, <2>2 DEF SegLen, Segment, Accept, Trimming
      <3>2. InOrder(s)
        BY <3>1 DEF h_rx_seq
      <3> QED BY <2>1, <2>2, <3>1, <3>2 DEF Fits
    <2>3. state # "SYN_RECV"
      BY <2>1 DEF Accept, Trimming, Checking
    <2> QED BY <2>1, <2>2, <2>3 DEF RcvExact
  <1>3. CASE RxDrop(s) \/ RxBuffer(s)
    BY <1>3, Zenon DEF RxDrop, RxBuffer, RcvExact, rcvVars
  <1>4. CASE RxEstab(s)
    <2>1. /\ state = "ESTAB" /\ Accept(s) = "HANDLE" /\ AppendRcvData(s)
          /\ state' = IF Trim(s).fin = 1 THEN "CLOSE_WAIT" ELSE state
      BY <1>4, ZenonT(30) DEF RxEstab, Ordinary
    <2>2. RcvTypeOK /\ RcvTypeOK' /\ Room(rcv_adv, rcv_nxt)
      BY <2>1 DEF TypeOK, RcvRoom, Room, Synchronized, States
    <2>3. Trim(s).fin # 1 => rcv_nxt' = Mask(irs' + 1 + rcv_wr')
      BY <2>1, <2>2, FitsAppend
    <2> QED BY <2>1, <2>3 DEF RcvExact
  <1>5. CASE RxFinWait1(s) \/ RxFinWait2(s)
    <2>1. state' \in {"TIME_WAIT", "FIN_WAIT_2", "CLOSING", "FIN_WAIT_1"}
      BY <1>5, Zenon DEF RxFinWait1, RxFinWait2, EnterTimeWait
    <2> QED BY <2>1 DEF RcvExact
  <1>6. CASE RxCloseWait(s) \/ RxClosing(s) \/ RxLastAck(s) \/ RxTimeWait(s)
    <2>1. state' \in {"CLOSE_WAIT", "CLOSING", "TIME_WAIT", "LAST_ACK", "CLOSED"}
      BY <1>6, Zenon DEF RxCloseWait, RxClosing, RxLastAck, RxTimeWait, EnterTimeWait
    <2> QED BY <2>1 DEF RcvExact
  <1> QED BY <1>1, <1>2, <1>3, <1>4, <1>5, <1>6

\* A tx handler leaves rcv_nxt and rcv_buf alone, and never enters these states.
LEMMA TxExact ==
  ASSUME RcvExact, NEW nxt0, NEW vr0, NEW tm0, Tx(nxt0, vr0, tm0)
  PROVE  RcvExact'
  <1>1. UNCHANGED <<rcv_nxt, irs, rcv_wr>>
    BY TxRcv DEF rcvVars, ComputeRcvWnd
  <1>2. state' \in {"SYN_RECV", "ESTAB"} => state' = state
    <2>1. CASE TxAbort(nxt0, vr0)
      BY <2>1 DEF TxAbort, Abort
    <2>2. CASE TxData(nxt0, vr0, tm0) \/ TxFin(nxt0, vr0, tm0)
      BY <2>2 DEF TxData, TxFin, NextOnFin
    <2>3. CASE \/ TxSpin(nxt0, vr0, tm0) \/ TxAckOrNothing(nxt0, vr0, tm0)
               \/ TxSyn(nxt0, vr0, tm0) \/ TxNoHandler(nxt0, vr0, tm0)
      BY <2>3, Zenon DEF TxSpin, TxAckOrNothing, TxSyn, TxNoHandler
    <2> QED BY <2>1, <2>2, <2>3 DEF Tx
  <1> QED BY <1>1, <1>2 DEF RcvExact

\* From a peer that sends its stream in order and within the free space of rcv_buf, every
\* byte rcv_nxt moves over is in rcv_buf: nothing is acknowledged that recv() will not
\* return.  Of other peers it need not hold (tcp_data_len is used as an end, and rcv_adv
\* is computed before the data is enqueued).
THEOREM AcknowledgedIsBuffered == Spec /\ PeerFits => []AckedBytesBuffered
  <1>1. Init => RcvExact
    BY DEF Init, RcvExact
  <1>2. /\ TypeOK /\ TypeOK' /\ Opening /\ RcvRoom /\ RcvFresh /\ RcvExact /\ [Next]_vars
        /\ [(\E s \in Segments : Rx(s)) => \E s \in Segments : Rx(s) /\ Fits(s)]_vars
        => RcvExact'
    <2> SUFFICES ASSUME TypeOK, TypeOK', Opening, RcvRoom, RcvFresh, RcvExact, [Next]_vars,
                        [(\E s \in Segments : Rx(s)) => \E s \in Segments : Rx(s) /\ Fits(s)]_vars
                 PROVE  RcvExact'
      OBVIOUS
    <2>1. ASSUME UNCHANGED <<state, rcv_nxt, irs, rcv_wr>> PROVE RcvExact'
      BY <2>1 DEF RcvExact
    <2>2. CASE App \/ RtxTimerFires \/ OrphanFires \/ TimeWaitFires \/ UNCHANGED vars
      BY <2>1, <2>2, ZenonT(30) DEF App, AppConnect, AppShutdown, AppClose, AppSend, AppRecv, RtxTimerFires,
                  OrphanFires, TimeWaitFires, TimerUnchanged, rcvVars, vars
    <2>3. CASE EvConnect
      BY <2>3 DEF EvConnect, RcvExact
    <2>4. CASE EvSend \/ EvRtx
      BY <2>4, TxExact DEF EvSend, EvRtx
    <2>5. CASE ~ UNCHANGED vars /\ \E s \in Segments : Rx(s)
      <3>1. PICK s \in Segments : Rx(s) /\ Fits(s)
        BY <2>5
      <3>2. s \in Segment
        BY SegmentType
      <3>3. CASE \/ RxSynSentRefused(s) \/ RxSynSentEstab(s) \/ RxSynSentBadAck(s)
                 \/ RxSynSentSyn(s) \/ RxSynRecvEstab(s) \/ RxSynRecvReset(s) \/ RxSynRecvDrop(s)
        BY <3>1, <3>2, <3>3, RxOpeningExact
      <3>4. CASE \/ RxReset(s) \/ RxCloseAbort(s) \/ RxSyn(s) \/ RxDrop(s) \/ RxBuffer(s)
                 \/ RxEstab(s) \/ RxFinWait1(s) \/ RxFinWait2(s)
                 \/ RxCloseWait(s) \/ RxClosing(s) \/ RxLastAck(s) \/ RxTimeWait(s)
        BY <3>1, <3>2, <3>4, RxSyncExact
      <3> QED BY <3>1, <3>3, <3>4, Zenon DEF Rx
    <2> QED BY <2>2, <2>3, <2>4, <2>5, Zenon DEF Next
  <1>3. RcvExact => AckedBytesBuffered
    BY DEF RcvExact, AckedBytesBuffered
  <1> QED BY <1>1, <1>2, <1>3, TypeCorrect, OpeningInvariant, RoomAlways, PTL DEF Spec, PeerFits
=============================================================================
