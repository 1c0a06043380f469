--------------------------- MODULE TcpStreamProofs ---------------------------
(***************************************************************************)
(* The send buffer and the send sequence variables describe the same       *)
(* stream: for every peer until the FIN is sent; to the end of the         *)
(* connection when writes are sent whole; and then, with a peer that keeps *)
(* its window open, nothing unacknowledged is ever without its timer.      *)
(***************************************************************************)
EXTENDS TcpConnProofs

\* The provers, and their seconds, for a leaf that names none
USE SMTT(30), ZenonT(30)

-----------------------------------------------------------------------------
(* snd_buf and the send sequence variables describe the same stream *)

\* The sequence number of the byte at offset n of the stream
Pos(n) == Mask(ISS + 1 + n)

\* Positions are sequence numbers, and offsets may be added before or after masking.
LEMMA PosAdd ==
  ASSUME NEW n \in Int, NEW k \in Int
  PROVE  Pos(n) \in SeqNum /\ Mask(Pos(n) + k) = Pos(n + k)
  <1>1. ISS + 1 + n \in Int /\ (ISS + 1 + n) + k = ISS + 1 + (n + k)
    BY FsmAssumption, SeqNumNat
  <1> QED BY <1>1, MaskType, MaskSum DEF Pos

\* The distance of two positions is that of their offsets.
LEMMA PosDiff ==
  ASSUME NEW a \in Int, NEW b \in Int
  PROVE  seq_diff(Pos(a), Pos(b)) = Mask(a - b)
  <1>1. ISS + 1 + a \in Int /\ ISS + 1 + b \in Int /\ (ISS + 1 + a) - (ISS + 1 + b) = a - b
    BY FsmAssumption, SeqNumNat
  <1> QED BY <1>1, MaskDiff DEF Pos

\* Offsets less than half the sequence space apart compare as their sequence numbers do.
LEMMA PosOrder ==
  ASSUME NEW a \in Int, NEW b \in Int, a - b < Half, b - a < Half
  PROVE  /\ Pos(a) = Pos(b) <=> a = b
         /\ seq_gt(Pos(a), Pos(b)) <=> a > b
         /\ seq_leq(Pos(a), Pos(b)) <=> a <= b
  <1>1. PICK x \in Int : x = ISS + 1 + a
    BY FsmAssumption, SeqNumNat
  <1>2. PICK y \in Int : y = ISS + 1 + b
    BY FsmAssumption, SeqNumNat
  <1>3. /\ x - y < Half /\ y - x < Half
        /\ (x = y <=> a = b) /\ (x > y <=> a > b) /\ (x <= y <=> a <= b)
    BY <1>1, <1>2, FsmAssumption, SeqNumNat, HalfAssumption
  <1>4. /\ Mask(x) = Mask(y) <=> x = y
        /\ seq_gt(Mask(x), Mask(y)) <=> x > y
        /\ seq_leq(Mask(x), Mask(y)) <=> x <= y
    BY <1>3, SequenceOrder
  <1> QED BY <1>1, <1>2, <1>3, <1>4 DEF Pos

\* With less than half the sequence space outstanding, _h_rx_ack accepts exactly the
\* positions after snd_una up to snd_nxt, and counts what lies between.
LEMMA AckPos ==
  ASSUME NEW s \in Segment, NEW a \in Nat, NEW b \in Nat, a <= b, b - a < Half,
         snd_una = Pos(a), snd_nxt = Pos(b), AckAccepted(s)
  PROVE  \E k \in 1 .. b - a : /\ s.ack_seq = Pos(a + k) /\ SeqAcked(s) = k
                               /\ AllAcked(s) <=> k = b - a
  <1> DEFINE k == seq_diff(s.ack_seq, snd_una)
  <1>1. s.ack_seq \in SeqNum /\ snd_una \in SeqNum
    BY PosAdd DEF Segment
  <1>2. s.ack_seq # snd_una /\ k < Half
    BY HalfAssumption, <1>1, MaskType, SeqNumNat DEF AckAccepted, seq_leq, seq_lt, seq_diff
  <1>3. k \in Nat /\ k >= 1
    BY <1>1, <1>2, DiffPositive
  <1>4. s.ack_seq = Pos(a + k)
    <2>1. s.ack_seq - snd_una \in Int /\ s.ack_seq \in Int /\ snd_una \in Int
      BY <1>1, SeqNumNat
    <2>2. Mask(Mask(s.ack_seq - snd_una) + snd_una) = Mask((s.ack_seq - snd_una) + snd_una)
      BY <2>1, MaskSum, Zenon
    <2>3. (s.ack_seq - snd_una) + snd_una = s.ack_seq /\ Mask(s.ack_seq) = s.ack_seq
      BY <1>1, <2>1, MaskSmall
    <2>4. Mask(k + snd_una) = s.ack_seq
      BY <2>2, <2>3 DEF seq_diff
    <2> HIDE DEF k
    <2>5. k + snd_una = Pos(a) + k
      BY <1>3, <2>1
    <2> QED BY <1>3, <2>4, <2>5, PosAdd
  <1> HIDE DEF k
  <1>5. k <= b - a
    <2> SUFFICES ASSUME k > b - a PROVE FALSE
      BY <1>3
    <2>1. (a + k) - b < Half /\ b - (a + k) < Half /\ a + k > b /\ a + k \in Int
      BY <1>2, <1>3, HalfAssumption
    <2>2. seq_gt(Pos(a + k), Pos(b))
      BY <2>1, PosOrder
    <2> QED BY <1>4, <2>2 DEF AckAccepted
  <1>6. AllAcked(s) <=> k = b - a
    <2>1. (a + k) - b < Half /\ b - (a + k) < Half /\ a + k \in Int
      BY <1>2, <1>3, <1>5, HalfAssumption
    <2>2. Pos(a + k) = Pos(b) <=> a + k = b
      BY <2>1, PosOrder
    <2> QED BY <1>3, <1>4, <2>2 DEF AllAcked
  <1>7. SeqAcked(s) = k
    BY DEF SeqAcked, k
  <1>8. k \in 1 .. b - a
    BY <1>3, <1>5
  <1> QED BY <1>4, <1>6, <1>7, <1>8

\* Less than half the sequence space is outstanding or waits to be sent.
FlightBounded == vw - r < Half - 1

\* The application asked for the FIN.
FinAsked == close_requested \/ shutdown_requested

\* Our FIN is not sent yet; it is sent and not acknowledged.
OpenStates == {"ESTAB", "CLOSE_WAIT"}
ClosingStates == {"FIN_WAIT_1", "CLOSING", "LAST_ACK"}

-----------------------------------------------------------------------------
(* Before the FIN is sent *)

\* Before connect() returns nothing was written, and only the SYN was sent.
Unopened ==
    app \in {"idle", "connecting"} =>
        /\ r = 0 /\ vr = 0 /\ vw = 0 /\ ~ sent_fin
        /\ state \in {"SYN_SENT", "SYN_RECV"} => snd_una = ISS /\ snd_max = Pos(0)

\* Until the FIN is sent, snd_nxt is at vr and snd_max at or above it; without an MSS
\* nothing is ever sent.
OpenStream ==
    app = "connected" /\ state \in OpenStates /\ loop # "spinning" =>
        /\ r <= vr /\ vr <= vw /\ ~ sent_fin
        /\ snd_una = Pos(r) /\ snd_nxt = Pos(vr)
        /\ \E m \in vr .. vw : snd_max = Pos(m)
        /\ remote_mss = 0 => vr = 0 /\ snd_max = Pos(0)

\* A loop that transmits for ever had no MSS, and had nothing outstanding.
OpenSpin ==
    loop = "spinning" =>
        /\ remote_mss = 0
        /\ app = "connected" /\ state \in OpenStates =>
              snd_una = Pos(0) /\ snd_nxt = Pos(0) /\ snd_max = Pos(0)

\* The inductive invariant of a connection whose FIN is not sent; it asks nothing of the
\* peer or the application.
OpenInv == vw <= SndLimit /\ Unopened /\ OpenStream /\ OpenSpin

\* A stream shorter than half the sequence space bounds the flight.
LEMMA OpenFlight ==
  ASSUME TypeOK, SndLimit < Half - 1, OpenInv
  PROVE  FlightBounded
  BY FsmAssumption, HalfAssumption DEF TypeOK, SndTypeOK, OpenInv, FlightBounded

\* A step that touches none of the send variables preserves the invariant.
LEMMA OpenSame ==
  ASSUME OpenInv,
         UNCHANGED <<state, snd_una, snd_nxt, snd_max, r, vr, vw, sent_fin, loop, remote_mss>>,
         app' = app \/ (app = "idle" /\ app' = "connecting"),
         app = "idle" => state = "CLOSED"
  PROVE  OpenInv'
  <1>1. Unopened'
    BY DEF OpenInv, Unopened
  <1>2. OpenStream'
    BY DEF OpenInv, OpenStream
  <1>3. OpenSpin'
    BY DEF OpenInv, OpenSpin
  <1>4. (vw <= SndLimit)'
    BY DEF OpenInv
  <1> QED BY <1>1, <1>2, <1>3, <1>4 DEF OpenInv

\* send() extends the stream at its end.
LEMMA AppSendOpen ==
  ASSUME TypeOK, OpenInv, NEW n \in 1 .. SndLimit, AppSend(n)
  PROVE  OpenInv'
  <1>1. /\ UNCHANGED <<state, snd_una, snd_nxt, snd_max, r, vr, sent_fin, loop, app, remote_mss>>
        /\ app = "connected" /\ vw' = vw + n /\ vw' <= SndLimit
    BY DEF AppSend, seqVars, flagVars, sockVars, reqVars
  <1>2. n \in Nat /\ vw \in Nat /\ vr \in Nat /\ r \in Nat
    BY FsmAssumption DEF TypeOK, SndTypeOK
  <1>3. OpenStream'
    <2> SUFFICES ASSUME state \in OpenStates, loop # "spinning" PROVE OpenStream'
      BY <1>1 DEF OpenStream
    <2>1. /\ r <= vr /\ vr <= vw /\ ~ sent_fin /\ snd_una = Pos(r) /\ snd_nxt = Pos(vr)
          /\ remote_mss = 0 => vr = 0 /\ snd_max = Pos(0)
      BY <1>1 DEF OpenInv, OpenStream
    <2>2. PICK m \in vr .. vw : snd_max = Pos(m)
      BY <1>1 DEF OpenInv, OpenStream
    <2>3. m \in vr' .. vw' /\ snd_max' = Pos(m) /\ vr' <= vw'
      BY <1>1, <1>2, <2>1, <2>2
    <2> QED BY <1>1, <2>1, <2>3 DEF OpenStream
  <1>4. Unopened' /\ OpenSpin'
    BY <1>1 DEF OpenInv, Unopened, OpenSpin
  <1> QED BY <1>1, <1>3, <1>4 DEF OpenInv

\* What a SEND or an RTX event finds before the FIN was sent: it goes on from vr0.
TxOpenPre(vr0) ==
    /\ state \in OpenStates /\ ~ sent_fin
    /\ r <= vr0 /\ vr0 <= vw /\ snd_una = Pos(r)
    /\ \E m \in vr0 .. vw : snd_max = Pos(m)
    /\ remote_mss = 0 => vr0 = 0 /\ snd_max = Pos(0)

\* What _tx_loop does with n bytes and, when the FIN is asked for, a FIN.
LEMMA TxDataEffect ==
  ASSUME TypeOK, NEW vr0 \in Nat, vr0 <= vw, NEW nxt0, NEW tm0, TxData(nxt0, vr0, tm0)
  PROVE  \E n \in 0 .. vw - vr0 : \E fin \in {0, 1} :
            /\ vr0 < vw /\ n = Drained(vr0) /\ (n = 0 \/ remote_mss # 0)
            /\ fin = 1 <=> FinRequested /\ n > 0
            /\ vr' = vr0 + n /\ snd_nxt' = Mask(nxt0 + n + fin) /\ RaiseSndMax(n)
            /\ sent_fin' = (sent_fin \/ fin = 1) /\ loop' = loop
            /\ state' = IF fin = 1 THEN NextOnFin ELSE state
            /\ out' = IF n > 0 THEN {Seg(IF fin = 1 THEN "FIN" ELSE "ACK", nxt0, n)} ELSE {}
  <1> DEFINE n == Drained(vr0)
             fin == IF FinRequested /\ n > 0 THEN 1 ELSE 0
  <1>1. vr0 < vw
    BY ZenonT(30) DEF TxData
  <1>2. n \in 0 .. vw - vr0
    <2>1. MaxTx \in Nat /\ snd_wnd \in Nat /\ vw \in Nat
      BY FsmAssumption DEF TypeOK, SndTypeOK
    <2> QED BY <1>1, <2>1 DEF Drained, Least
  <1>3. /\ n = 0 \/ remote_mss # 0
        /\ vr' = vr0 + n /\ snd_nxt' = Mask(nxt0 + n + fin) /\ RaiseSndMax(n)
        /\ sent_fin' = (sent_fin \/ fin = 1) /\ loop' = loop
        /\ state' = IF fin = 1 THEN NextOnFin ELSE state
        /\ out' = IF n > 0 THEN {Seg(IF fin = 1 THEN "FIN" ELSE "ACK", nxt0, n)} ELSE {}
    BY Zenon DEF TxData
  <1>4. fin \in {0, 1} /\ (fin = 1 <=> FinRequested /\ n > 0)
    OBVIOUS
  <1>5. n = Drained(vr0)
    OBVIOUS
  <1> HIDE DEF n, fin
  <1> QED BY <1>1, <1>2, <1>3, <1>4, <1>5, ZenonT(30)

\* It leaves the stream in order, sends the FIN, or spins.
LEMMA TxOpen ==
  ASSUME TypeOK, FlightBounded, loop = "running", NEW vr0 \in Nat, NEW tm0, TxOpenPre(vr0),
         Tx(Pos(vr0), vr0, tm0)
  PROVE  OpenStream' /\ OpenSpin' /\ state' \notin {"FIN_WAIT_2", "TIME_WAIT"}
  <1>0. PICK m \in vr0 .. vw : snd_max = Pos(m)
    BY DEF TxOpenPre
  <1>1. /\ UNCHANGED <<snd_una, r, vw, remote_mss>>
        /\ r \in Nat /\ vw \in Nat /\ vr0 \in Nat /\ m \in Nat /\ vw - r < Half - 1 /\ Half \in Nat
        /\ r <= vr0 /\ vr0 <= vw /\ snd_una = Pos(r) /\ state \in OpenStates /\ ~ sent_fin
        /\ remote_mss = 0 => vr0 = 0 /\ snd_max = Pos(0)
    BY HalfAssumption DEF Tx, TxUnchanged, reqVars, TypeOK, SndTypeOK, FlightBounded, TxOpenPre
  <1>2. NextOnFin \in {"FIN_WAIT_1", "LAST_ACK"}
    BY <1>1 DEF NextOnFin, OpenStates
  <1>3. CASE TxAbort(Pos(vr0), vr0)
    <2>1. state' = "CLOSED" /\ loop' = loop
      BY <1>3 DEF TxAbort, Abort
    <2> QED BY <2>1 DEF OpenStream, OpenSpin, OpenStates
  <1>4. CASE TxData(Pos(vr0), vr0, tm0)
    <2>1. PICK n \in 0 .. vw - vr0 : \E fin \in {0, 1} :
            /\ vr0 < vw /\ n = Drained(vr0) /\ (n = 0 \/ remote_mss # 0)
            /\ fin = 1 <=> FinRequested /\ n > 0
            /\ vr' = vr0 + n /\ snd_nxt' = Mask(Pos(vr0) + n + fin) /\ RaiseSndMax(n)
            /\ sent_fin' = (sent_fin \/ fin = 1) /\ loop' = loop
            /\ state' = IF fin = 1 THEN NextOnFin ELSE state
            /\ out' = IF n > 0 THEN {Seg(IF fin = 1 THEN "FIN" ELSE "ACK", Pos(vr0), n)} ELSE {}
      BY <1>1, <1>4, TxDataEffect, Zenon
    <2>2. PICK fin \in {0, 1} :
            /\ n = 0 \/ remote_mss # 0
            /\ vr' = vr0 + n /\ snd_nxt' = Mask(Pos(vr0) + n + fin) /\ RaiseSndMax(n)
            /\ sent_fin' = (sent_fin \/ fin = 1) /\ loop' = loop
            /\ state' = IF fin = 1 THEN NextOnFin ELSE state
      BY <2>1, Zenon
    <2>3. CASE fin = 1
      <3>1. state' \in {"FIN_WAIT_1", "LAST_ACK"} /\ loop' = "running"
        BY <1>2, <2>2, <2>3, Zenon
      <3> QED BY <3>1 DEF OpenStream, OpenSpin, OpenStates
    <2>4. CASE fin = 0
      <3>1. ~ sent_fin' /\ state' = state /\ loop' = "running"
        <4>1. fin # 1
          BY <2>4
        <4> QED BY <1>1, <2>2, <4>1, Zenon
      <3>2. n \in Nat /\ vr0 + n \in Nat /\ r <= vr0 + n /\ vr0 + n <= vw
        BY <1>1
      <3>3. snd_nxt' = Pos(vr')
        <4>1. Pos(vr0) \in Nat
          BY <1>1, PosAdd, SeqNumNat
        <4>2. Pos(vr0) + n + fin = Pos(vr0) + n
          BY <2>4, <3>2, <4>1
        <4> QED BY <1>1, <2>2, <3>2, <4>2, PosAdd
      <3>4. \E k \in vr' .. vw' : snd_max' = Pos(k)
        <4>1. vr0 + n \in Int /\ (vr0 + n) - m < Half /\ m - (vr0 + n) < Half
          BY <1>1, <3>2
        <4>2. seq_gt(Pos(vr0 + n), Pos(m)) <=> vr0 + n > m
          BY <1>1, <4>1, PosOrder
        <4>3. CASE n > 0 /\ vr0 + n > m
          <5>1. snd_max' = Pos(vr') /\ vr' \in vr' .. vw'
            BY <1>0, <1>1, <2>2, <3>2, <3>3, <4>2, <4>3 DEF RaiseSndMax
          <5> QED BY <5>1
        <4>4. CASE ~ (n > 0 /\ vr0 + n > m)
          <5>1. snd_max' = Pos(m) /\ m \in vr' .. vw'
            BY <1>0, <1>1, <2>2, <3>2, <3>3, <4>2, <4>4 DEF RaiseSndMax
          <5> QED BY <5>1
        <4> QED BY <4>3, <4>4
      <3>5. remote_mss' = 0 => vr' = 0 /\ snd_max' = Pos(0)
        <4>1. remote_mss = 0 => n = 0
          BY <2>2
        <4> QED BY <1>1, <2>2, <4>1 DEF RaiseSndMax
      <3>6. r' <= vr' /\ vr' <= vw' /\ snd_una' = Pos(r')
        BY <1>1, <2>2, <3>2
      <3> QED BY <1>1, <3>1, <3>3, <3>4, <3>5, <3>6 DEF OpenStream, OpenSpin, OpenStates
    <2> QED BY <2>3, <2>4
  <1>5. CASE TxSpin(Pos(vr0), vr0, tm0)
    <2>1. /\ loop' = "spinning" /\ remote_mss = 0 /\ snd_nxt' = Pos(vr0) /\ snd_max' = snd_max
          /\ state' = state
      BY <1>5 DEF TxSpin
    <2>2. vr0 = 0 /\ r = 0
      BY <1>1, <2>1
    <2> QED BY <1>1, <2>1, <2>2 DEF OpenStream, OpenSpin, OpenStates
  <1>6. CASE TxFin(Pos(vr0), vr0, tm0)
    <2>1. state' = NextOnFin /\ loop' = loop
      BY <1>1, <1>6 DEF TxFin
    <2> QED BY <1>2, <2>1 DEF OpenStream, OpenSpin, OpenStates
  <1>7. CASE TxAckOrNothing(Pos(vr0), vr0, tm0)
    <2>1. /\ snd_nxt' = Pos(vr') /\ snd_max' = Pos(m) /\ vr' = vr0
          /\ UNCHANGED <<state, sent_fin, loop, snd_max>>
      BY <1>0, <1>7 DEF TxAckOrNothing
    <2>2. m \in vr' .. vw'
      BY <1>1, <2>1
    <2> QED BY <1>1, <2>1, <2>2 DEF OpenStream, OpenSpin, OpenStates
  <1>8. ~ TxSyn(Pos(vr0), vr0, tm0) /\ ~ TxNoHandler(Pos(vr0), vr0, tm0)
    BY <1>1 DEF TxSyn, TxNoHandler, OpenStates
  <1> QED BY <1>3, <1>4, <1>5, <1>6, <1>7, <1>8 DEF Tx

\* What a SEND event finds is the invariant, and a rollback keeps its form.
LEMMA TxOpenFrom ==
  ASSUME TypeOK, OpenInv, loop = "running", app = "connected", state \in OpenStates,
         NEW nxt0, NEW vr0,
         (nxt0 = snd_nxt /\ vr0 = vr) \/ (nxt0 = snd_una /\ vr0 = r)
  PROVE  vr0 \in Nat /\ nxt0 = Pos(vr0) /\ TxOpenPre(vr0)
  <1>1. /\ r <= vr /\ vr <= vw /\ ~ sent_fin /\ snd_una = Pos(r) /\ snd_nxt = Pos(vr)
        /\ remote_mss = 0 => vr = 0 /\ snd_max = Pos(0)
    BY DEF OpenInv, OpenStream
  <1>2. PICK m \in vr .. vw : snd_max = Pos(m)
    BY DEF OpenInv, OpenStream
  <1>3. r \in Nat /\ vr \in Nat /\ vw \in Nat
    BY DEF TypeOK, SndTypeOK
  <1>4. nxt0 = Pos(vr0) /\ vr0 \in Nat /\ r <= vr0 /\ vr0 <= vw /\ m \in vr0 .. vw
    BY <1>1, <1>2, <1>3
  <1>5. remote_mss = 0 => vr0 = 0
    BY <1>1, <1>3
  <1> QED BY <1>1, <1>2, <1>4, <1>5 DEF TxOpenPre

\* A tx handler never returns to a state before the FIN.
LEMMA TxStates ==
  ASSUME NEW nxt0, NEW vr0, NEW tm0, Tx(nxt0, vr0, tm0)
  PROVE  /\ state' \in {state, NextOnFin, "CLOSED"}
         /\ state' \in OpenStates => state \in OpenStates
         /\ state \in ClosingStates => NextOnFin = state
  <1>1. NextOnFin \in OpenStates => state \in OpenStates
    BY DEF NextOnFin, OpenStates
  <1>2. state' \in {state, NextOnFin, "CLOSED"}
    BY ZenonT(30) DEF Tx, TxAbort, Abort, TxData, TxSpin, TxFin, TxAckOrNothing, TxSyn, TxNoHandler
  <1>3. state \in ClosingStates => NextOnFin = state
    BY DEF NextOnFin, ClosingStates
  <1> QED BY <1>1, <1>2, <1>3 DEF OpenStates

\* The SEND or RTX event of any state keeps the invariant.
LEMMA TxOpenInv ==
  ASSUME TypeOK, Opening, OpenInv, FlightBounded, loop = "running",
         NEW nxt0, NEW vr0, NEW tm0, Tx(nxt0, vr0, tm0),
         (nxt0 = snd_nxt /\ vr0 = vr) \/ (nxt0 = snd_una /\ vr0 = r)
  PROVE  OpenInv'
  <1>0. UNCHANGED <<app, r, vw, snd_una, remote_mss>> /\ (vw <= SndLimit)'
    BY DEF OpenInv, Tx, TxUnchanged, reqVars
  <1>1. CASE app = "connected" /\ state \in OpenStates
    <2>1. OpenStream' /\ OpenSpin'
      BY <1>1, TxOpenFrom, TxOpen
    <2> QED BY <1>0, <1>1, <2>1 DEF OpenInv, Unopened
  <1>2. CASE app \in {"connected", "refused"} /\ (app = "connected" => state \notin OpenStates)
    <2>1. state \notin OpenStates => state' \notin OpenStates
      BY TxStates
    <2>2. loop' = "spinning" => remote_mss = 0
      BY Zenon DEF Tx, TxAbort, TxData, TxSpin, TxFin, TxAckOrNothing, TxSyn, TxNoHandler
    <2> QED BY <1>0, <1>2, <2>1, <2>2 DEF OpenInv, Unopened, OpenStream, OpenSpin
  <1>3. CASE app \in {"idle", "connecting"}
    <2>1. /\ r = 0 /\ vr = 0 /\ vw = 0 /\ ~ sent_fin
          /\ state \in {"SYN_SENT", "SYN_RECV"} => snd_una = ISS /\ snd_max = Pos(0)
          /\ state \in {"CLOSED", "SYN_SENT", "SYN_RECV"}
      BY <1>3 DEF OpenInv, Unopened, Opening
    <2>2. state' = state /\ vr' = vr0 /\ UNCHANGED <<snd_max, sent_fin>> /\ loop' = loop
      BY <2>1, ZenonT(30) DEF Tx, TxAbort, LingerAborts, TxData, TxSpin, TxFin, FinDue, TxAckOrNothing,
         TxSyn, TxNoHandler, Sending, flagVars
    <2> QED BY <1>0, <1>3, <2>1, <2>2 DEF OpenInv, Unopened, OpenStream, OpenSpin
  <1>4. app \in {"idle", "connecting", "connected", "refused"}
    BY DEF TypeOK, CtlTypeOK
  <1> QED BY <1>1, <1>2, <1>3, <1>4

\* The handshake leaves an empty stream whose first byte follows the SYN.
LEMMA RxHandshake ==
  ASSUME TypeOK, Opening, OpenInv, NEW s \in Segment, app = "connecting",
         RxSynSentEstab(s) \/ RxSynRecvEstab(s)
  PROVE  /\ app' = "connected" /\ state' = "ESTAB" /\ r' = 0 /\ vr' = 0 /\ vw' = 0 /\ ~ sent_fin'
         /\ snd_una' = Pos(0) /\ snd_nxt' = Pos(0) /\ snd_max' = Pos(0) /\ loop' = loop
  <1>1. /\ state \in {"SYN_SENT", "SYN_RECV"} /\ AckAccepted(s)
        /\ app' = "connected" /\ state' = "ESTAB" /\ snd_una' = s.ack_seq
        /\ UNCHANGED <<snd_nxt, snd_max, r, vr, vw, sent_fin, loop>>
    BY ZenonT(30) DEF RxSynSentEstab, RxSynRecvEstab, RxSynRecvGuard, Connected, bufVars, flagVars
  <1>2. /\ r = 0 /\ vr = 0 /\ vw = 0 /\ ~ sent_fin /\ snd_una = ISS /\ snd_max = Pos(0)
        /\ snd_nxt = Mask(snd_una + 1)
    BY <1>1 DEF OpenInv, Unopened, Opening
  <1>3. s.ack_seq = snd_nxt
    BY <1>1, <1>2, OneOutstanding DEF TypeOK
  <1>4. snd_nxt = Pos(0)
    BY <1>2, FsmAssumption, SeqNumNat DEF Pos
  <1> QED BY <1>1, <1>2, <1>3, <1>4

\* Segments received before the connection is synchronized.
LEMMA RxOpeningInv ==
  ASSUME TypeOK, Opening, OpenInv, loop = "running", NEW s \in Segment,
         \/ RxSynSentRefused(s) \/ RxSynSentEstab(s) \/ RxSynSentBadAck(s)
         \/ RxSynSentSyn(s) \/ RxSynRecvEstab(s) \/ RxSynRecvReset(s) \/ RxSynRecvDrop(s)
  PROVE  OpenInv'
  <1>1. /\ state \in {"SYN_SENT", "SYN_RECV"} /\ app \in {"connecting", "refused"}
        /\ loop' = "running" /\ vw' = vw
    BY ZenonT(30) DEF RxSynSentRefused, RxSynSentEstab, RxSynSentBadAck, RxSynSentSyn, RxSynRecvEstab,
           RxSynRecvReset, RxSynRecvDrop, RxSynRecvGuard, Opening, TypeOK, CtlTypeOK, bufVars
  <1>2. OpenSpin' /\ (vw <= SndLimit)'
    BY <1>1 DEF OpenInv, OpenSpin
  <1>3. CASE app = "connecting" /\ (RxSynSentEstab(s) \/ RxSynRecvEstab(s))
    <2>1. /\ app' = "connected" /\ state' = "ESTAB" /\ r' = 0 /\ vr' = 0 /\ vw' = 0 /\ ~ sent_fin'
          /\ snd_una' = Pos(0) /\ snd_nxt' = Pos(0) /\ snd_max' = Pos(0)
      BY <1>3, RxHandshake
    <2>2. 0 \in 0 .. 0
      OBVIOUS
    <2>3. OpenStream'
      BY <2>1, <2>2 DEF OpenStream
    <2> QED BY <1>2, <2>1, <2>3 DEF OpenInv, Unopened
  <1>4. CASE app = "refused" \/ RxSynSentRefused(s)
    <2>1. app' = "refused"
      BY <1>4, ZenonT(30) DEF RxSynSentRefused, RxSynSentEstab, RxSynSentBadAck, RxSynSentSyn,
         RxSynRecvEstab, RxSynRecvReset, RxSynRecvDrop, Connected, sockVars
    <2> QED BY <1>2, <2>1 DEF OpenInv, Unopened, OpenStream
  <1>5. CASE RxSynSentSyn(s)
    <2>1. app' = app /\ state' = "SYN_RECV" /\ vr' = r /\ UNCHANGED <<r, vw, sent_fin, snd_una, snd_max>>
      BY <1>5 DEF RxSynSentSyn, sockVars, flagVars
    <2> QED BY <1>1, <1>2, <2>1, ZenonT(30) DEF OpenInv, Unopened, OpenStream, OpenStates
  <1>6. CASE RxSynSentBadAck(s) \/ RxSynRecvReset(s) \/ RxSynRecvDrop(s)
    <2>1. UNCHANGED <<state, snd_una, snd_nxt, snd_max, r, vr, vw, sent_fin, loop, app, remote_mss>>
      BY <1>6, ZenonT(30) DEF RxSynSentBadAck, RxSynRecvReset, RxSynRecvDrop, seqVars, bufVars,
         flagVars, reqVars, sockVars
    <2> QED BY <1>1, <2>1, OpenSame
  <1> QED BY <1>1, <1>3, <1>4, <1>5, <1>6

\* ACKs before our FIN is sent free the bytes they acknowledge.
LEMMA RxDataAck ==
  ASSUME TypeOK, OpenInv, FlightBounded, loop = "running", NEW s \in Segment,
         app = "connected", RxEstab(s) \/ RxCloseWait(s)
  PROVE  OpenInv'
  <1>1. /\ state \in OpenStates /\ state' \in OpenStates
        /\ HRxAck(s) /\ r' = r + SeqAcked(s)
        /\ UNCHANGED <<snd_nxt, snd_max, vr, vw, sent_fin, app, loop, remote_mss>>
    BY ZenonT(30) DEF RxEstab, RxCloseWait, flagVars, sockVars, reqVars, OpenStates
  <1>2. /\ r <= vr /\ vr <= vw /\ ~ sent_fin /\ snd_una = Pos(r) /\ snd_nxt = Pos(vr)
        /\ \E m \in vr .. vw : snd_max = Pos(m)
        /\ remote_mss = 0 => vr = 0 /\ snd_max = Pos(0)
    BY <1>1 DEF OpenInv, OpenStream
  <1>3. r \in Nat /\ vr \in Nat /\ vw \in Nat /\ vr - r < Half
    BY <1>2, HalfAssumption DEF TypeOK, SndTypeOK, FlightBounded
  <1>4. r' \in Nat /\ r' <= vr /\ snd_una' = Pos(r')
    <2>1. CASE AckAccepted(s)
      <3>1. PICK k \in 1 .. vr - r : s.ack_seq = Pos(r + k) /\ SeqAcked(s) = k
        BY <1>2, <1>3, <2>1, AckPos
      <3> QED BY <1>1, <1>3, <2>1, <3>1 DEF HRxAck
    <2>2. CASE ~ AckAccepted(s)
      BY <1>1, <1>2, <1>3, <2>2 DEF HRxAck, SeqAcked
    <2> QED BY <2>1, <2>2
  <1>5. OpenStream'
    BY <1>1, <1>2, <1>4 DEF OpenStream
  <1> QED BY <1>1, <1>5 DEF OpenInv, Unopened, OpenSpin

\* A segment received in any state keeps the invariant.
LEMMA RxOpenInv ==
  ASSUME TypeOK, Opening, OpenInv, FlightBounded, NEW s \in Segment, Rx(s)
  PROVE  OpenInv'
  <1>0. loop = "running"
    BY DEF Rx
  <1>1. CASE \/ RxSynSentRefused(s) \/ RxSynSentEstab(s) \/ RxSynSentBadAck(s)
             \/ RxSynSentSyn(s) \/ RxSynRecvEstab(s) \/ RxSynRecvReset(s) \/ RxSynRecvDrop(s)
    BY <1>0, <1>1, RxOpeningInv
  <1>2. CASE \/ RxReset(s) \/ RxCloseAbort(s) \/ RxSyn(s) \/ RxDrop(s) \/ RxBuffer(s)
             \/ RxEstab(s) \/ RxFinWait1(s) \/ RxFinWait2(s)
             \/ RxCloseWait(s) \/ RxClosing(s) \/ RxLastAck(s) \/ RxTimeWait(s)
    <2>1. app' = app /\ app \notin {"idle", "connecting"}
      BY <1>2, RxSyncFrame, Zenon DEF Opening, Trimming, Checking
    <2>2. loop' = "running" /\ vw' = vw
      BY <1>0, <1>2, ZenonT(30) DEF RxReset, RxCloseAbort, RxSyn, RxDrop, RxBuffer, RxEstab, RxFinWait1,
         RxFinWait2, RxCloseWait, RxClosing, RxLastAck, RxTimeWait, bufVars
    <2>3. Unopened' /\ OpenSpin' /\ (vw <= SndLimit)'
      BY <2>1, <2>2 DEF OpenInv, Unopened, OpenSpin
    <2>4. CASE app # "connected"
      BY <2>1, <2>3, <2>4 DEF OpenInv, OpenStream
    <2>5. CASE \/ RxReset(s) \/ RxCloseAbort(s) \/ RxFinWait1(s) \/ RxFinWait2(s)
               \/ RxClosing(s) \/ RxLastAck(s)
      <3>1. state' \notin OpenStates
        BY <2>5, ZenonT(30) DEF RxReset, RxCloseAbort, Abort, RxFinWait1, RxFinWait2, RxClosing,
           RxLastAck, EnterTimeWait, OpenStates
      <3> QED BY <2>3, <3>1 DEF OpenInv, OpenStream
    <2>6. CASE RxSyn(s) \/ RxDrop(s) \/ RxBuffer(s) \/ RxTimeWait(s)
      <3>1. UNCHANGED <<state, snd_una, snd_nxt, snd_max, r, vr, vw, sent_fin, loop, app, remote_mss>>
        BY <2>6 DEF RxSyn, RxDrop, RxBuffer, RxTimeWait, seqVars, bufVars, flagVars, reqVars, sockVars
      <3> QED BY <2>1, <3>1, OpenSame
    <2>7. CASE app = "connected" /\ (RxEstab(s) \/ RxCloseWait(s))
      BY <1>0, <2>7, RxDataAck
    <2> QED BY <1>2, <2>4, <2>5, <2>6, <2>7, Zenon
  <1> QED BY <1>1, <1>2 DEF Rx

\* Every step keeps the invariant.
LEMMA OpenStep ==
  ASSUME TypeOK, Opening, OpenInv, SndLimit < Half - 1, [Next]_vars
  PROVE  OpenInv'
  <1>0. (app = "idle" => state = "CLOSED") /\ FlightBounded
    BY OpenFlight DEF Opening
  <1>1. CASE AppConnect \/ AppShutdown \/ AppClose \/ \E n \in 1 .. RcvSpace : AppRecv(n)
    <2>1. /\ UNCHANGED <<state, snd_una, snd_nxt, snd_max, r, vr, vw, sent_fin, loop, remote_mss>>
          /\ app' = app \/ (app = "idle" /\ app' = "connecting")
      BY <1>1, ZenonT(30) DEF AppConnect, AppShutdown, AppClose, AppRecv, seqVars, bufVars, flagVars,
         sockVars, reqVars
    <2> QED BY <1>0, <2>1, OpenSame, Zenon
  <1>2. ASSUME NEW n \in 1 .. SndLimit, AppSend(n) PROVE OpenInv'
    BY <1>2, AppSendOpen, ZenonT(30)
  <1>3. CASE EvConnect
    <2>1. app = "connecting" /\ state = "CLOSED"
      BY <1>3, ConnectFirst
    <2>2. /\ UNCHANGED <<app, r, vr, vw, sent_fin, loop, remote_mss>>
          /\ state' = "SYN_SENT" /\ snd_una' = ISS /\ snd_max' = Mask(ISS + 1)
      BY <1>3 DEF EvConnect, bufVars, flagVars, sockVars, reqVars
    <2>3. snd_max' = Pos(0)
      BY <2>2, FsmAssumption, SeqNumNat DEF Pos
    <2> QED BY <2>1, <2>2, <2>3 DEF OpenInv, Unopened, OpenStream, OpenSpin
  <1>4. CASE EvSend
    BY <1>0, <1>4, TxOpenInv DEF EvSend, Take
  <1>5. CASE EvRtx
    BY <1>0, <1>5, TxOpenInv DEF EvRtx, Take
  <1>6. ASSUME NEW s \in Segments, Rx(s) PROVE OpenInv'
    BY <1>0, <1>6, SegmentType, RxOpenInv
  <1>7. CASE RtxTimerFires \/ OrphanFires \/ TimeWaitFires \/ UNCHANGED vars
    <2>1. UNCHANGED <<state, snd_una, snd_nxt, snd_max, r, vr, vw, sent_fin, loop, app, remote_mss>>
      BY <1>7, Zenon DEF RtxTimerFires, OrphanFires, TimeWaitFires, TimerUnchanged, vars, seqVars,
                  bufVars, flagVars, reqVars, sockVars
    <2> QED BY <1>0, <2>1, OpenSame, Zenon
  <1> QED BY <1>1, <1>2, <1>3, <1>4, <1>5, <1>6, <1>7 DEF Next, App

\* The invariant holds along every connection.
LEMMA OpenAlways ==
  ASSUME SndLimit < Half - 1
  PROVE  Spec => []OpenInv
  <1>1. Init => OpenInv
    <2>1. Init => /\ app = "idle" /\ state = "CLOSED" /\ ~ sent_fin /\ loop = "running"
                  /\ r = 0 /\ vr = 0 /\ vw = 0
      BY ZenonT(30) DEF Init
    <2> QED BY <2>1, FsmAssumption DEF OpenInv, Unopened, OpenStream, OpenSpin
  <1>2. TypeOK /\ Opening /\ OpenInv /\ [Next]_vars => OpenInv'
    BY OpenStep
  <1> QED BY <1>1, <1>2, TypeCorrect, OpeningInvariant, PTL DEF Spec

\* Before the FIN is sent, what is unacknowledged has its timer, or, when a rollback took
\* snd_nxt back and the part sent again is acknowledged, a SEND event that goes on.
OpenArmed ==
    app = "connected" /\ state \in OpenStates /\ loop # "spinning" /\ snd_una # snd_max
        => rtx_timer # "none" \/ Queued("SEND")

\* A tx handler that leaves something unacknowledged leaves the timer set.
LEMMA TxOpenArmed ==
  ASSUME TypeOK, loop = "running", NEW vr0 \in Nat, NEW tm0, TxOpenPre(vr0),
         Tx(Pos(vr0), vr0, tm0), snd_una # Pos(vr0) => tm0 # "none"
  PROVE  state' \in OpenStates /\ loop' # "spinning" /\ snd_una' # snd_max' => rtx_timer' # "none"
  <1>1. /\ snd_una' = snd_una /\ state \in OpenStates /\ ~ sent_fin
        /\ \E m \in vr0 .. vw : snd_max = Pos(m)
    BY TxFrame DEF TxOpenPre
  <1>2. CASE TxAbort(Pos(vr0), vr0)
    BY <1>2 DEF TxAbort, Abort, OpenStates
  <1>3. CASE TxData(Pos(vr0), vr0, tm0)
    BY <1>3, ZenonT(30) DEF TxData, StartRtxTimer
  <1>4. CASE TxSpin(Pos(vr0), vr0, tm0)
    BY <1>4 DEF TxSpin
  <1>5. CASE TxFin(Pos(vr0), vr0, tm0)
    BY <1>1, <1>5 DEF TxFin, StartRtxTimer
  <1>6. CASE TxAckOrNothing(Pos(vr0), vr0, tm0)
    <2>1. vr0 = vw /\ rtx_timer' = tm0 /\ snd_max' = snd_max
      BY <1>1, <1>6 DEF TxAckOrNothing, OpenStates
    <2>2. snd_max = Pos(vr0)
      BY <1>1, <2>1
    <2> QED BY <1>1, <2>1, <2>2
  <1>7. ~ TxSyn(Pos(vr0), vr0, tm0) /\ ~ TxNoHandler(Pos(vr0), vr0, tm0)
    BY <1>1 DEF TxSyn, TxNoHandler, OpenStates
  <1> QED BY <1>2, <1>3, <1>4, <1>5, <1>6, <1>7 DEF Tx

\* Received segments: the handshake leaves nothing unacknowledged, and every ACK that may
\* stop the timer schedules a SEND.
LEMMA RxOpenArmed ==
  ASSUME TypeOK, Opening, OpenInv, OpenArmed, NEW s \in Segment, Rx(s)
  PROVE  OpenArmed'
  <1>0. CtlTypeOK /\ "SEND" \in EventKinds
    BY DEF TypeOK, EventKinds
  <1>1. CASE \/ RxSynSentRefused(s) \/ RxSynSentEstab(s) \/ RxSynSentBadAck(s)
             \/ RxSynSentSyn(s) \/ RxSynRecvEstab(s) \/ RxSynRecvReset(s) \/ RxSynRecvDrop(s)
    <2>1. CASE app = "connecting" /\ (RxSynSentEstab(s) \/ RxSynRecvEstab(s))
      BY <2>1, RxHandshake DEF OpenArmed
    <2>2. CASE ~ (app = "connecting" /\ (RxSynSentEstab(s) \/ RxSynRecvEstab(s)))
      <3>1. app # "connected"
        BY <1>1, ZenonT(30) DEF RxSynSentRefused, RxSynSentEstab, RxSynSentBadAck, RxSynSentSyn,
           RxSynRecvEstab, RxSynRecvReset, RxSynRecvDrop, RxSynRecvGuard, Opening
      <3>2. app' # "connected"
        BY <1>1, <2>2, <3>1, ZenonT(30) DEF RxSynSentRefused, RxSynSentEstab, RxSynSentBadAck,
           RxSynSentSyn, RxSynRecvEstab, RxSynRecvReset, RxSynRecvDrop, Connected, sockVars
      <3> QED BY <3>2 DEF OpenArmed
    <2> QED BY <2>1, <2>2
  <1>2. CASE \/ RxReset(s) \/ RxCloseAbort(s) \/ RxFinWait1(s) \/ RxFinWait2(s)
             \/ RxClosing(s) \/ RxLastAck(s)
    <2>1. state' \notin OpenStates
      BY <1>2, ZenonT(30) DEF RxReset, RxCloseAbort, Abort, RxFinWait1, RxFinWait2, RxClosing,
         RxLastAck, EnterTimeWait, OpenStates
    <2> QED BY <2>1 DEF OpenArmed
  <1>3. CASE RxSyn(s) \/ RxDrop(s) \/ RxBuffer(s) \/ RxTimeWait(s)
    <2>1. UNCHANGED <<state, snd_una, snd_max, loop, app>> /\ (rtx_timer = "none" <=> rtx_timer' = "none")
      BY <1>3, ZenonT(30) DEF RxSyn, RxDrop, RxBuffer, RxTimeWait, seqVars, timerVars, sockVars
    <2>2. UNCHANGED events \/ Schedule("SEND")
      BY <1>3, RxSyncFrame, Zenon
    <2>3. Queued("SEND") => Queued("SEND")'
      BY <1>0, <2>2, QueuedSame, QueuedSchedule
    <2> QED BY <2>1, <2>3, Zenon DEF OpenArmed
  <1>4. CASE RxEstab(s) \/ RxCloseWait(s)
    <2>1. Schedule("SEND")
      BY <1>4 DEF RxEstab, RxCloseWait
    <2>2. Queued("SEND")'
      BY <1>0, <2>1, QueuedSchedule
    <2> QED BY <2>2 DEF OpenArmed
  <1> QED BY <1>1, <1>2, <1>3, <1>4 DEF Rx

\* Every step keeps the timer, or the SEND event that sets it.
LEMMA OpenArmedStep ==
  ASSUME TypeOK, Opening, RtxArmed, OpenInv, OpenArmed, [Next]_vars
  PROVE  OpenArmed'
  <1>0. CtlTypeOK /\ {"CONNECT", "SEND", "RTX"} \subseteq EventKinds
    BY DEF TypeOK, EventKinds
  <1>1. CASE App
    <2>1. UNCHANGED <<state, snd_una, snd_max, rtx_timer, loop>> /\ (app' = "connected" => app = "connected")
      BY <1>1, Zenon DEF App, AppConnect, AppSend, AppRecv, AppShutdown, AppClose, seqVars, timerVars,
         sockVars
    <2>2. UNCHANGED events \/ Schedule("CONNECT") \/ Schedule("SEND")
      BY <1>1, Zenon DEF App, AppConnect, AppSend, AppRecv, AppShutdown, AppClose
    <2>3. Queued("SEND") => Queued("SEND")'
      BY <1>0, <2>2, QueuedSame, QueuedSchedule
    <2> QED BY <2>1, <2>3, Zenon DEF OpenArmed
  <1>2. CASE EvConnect
    BY <1>2 DEF EvConnect, OpenArmed, OpenStates
  <1>3. CASE EvSend \/ EvRtx
    <2> SUFFICES ASSUME app' = "connected", state' \in OpenStates, loop' # "spinning",
                        snd_una' # snd_max'
                 PROVE  rtx_timer' # "none"
      BY DEF OpenArmed
    <2>1. PICK nxt0, vr0, tm0 :
             /\ Tx(nxt0, vr0, tm0)
             /\ \/ nxt0 = snd_nxt /\ vr0 = vr /\ tm0 = rtx_timer
                \/ nxt0 = snd_una /\ vr0 = r /\ tm0 = "none"
      BY <1>3, Zenon DEF EvSend, EvRtx
    <2>2. loop = "running"
      BY <1>3 DEF EvSend, EvRtx, Take
    <2>3. app = "connected" /\ state \in OpenStates
      BY <2>1, TxStates, TxFrame
    <2>4. vr0 \in Nat /\ nxt0 = Pos(vr0) /\ TxOpenPre(vr0)
      BY <2>1, <2>2, <2>3, TxOpenFrom
    <2>5. snd_una # Pos(vr0) => tm0 # "none"
      BY <2>1, <2>3, <2>4 DEF RtxArmed, Outstanding, Sending, OpenStates
    <2> QED BY <2>1, <2>2, <2>4, <2>5, TxOpenArmed
  <1>4. ASSUME NEW s \in Segments, Rx(s) PROVE OpenArmed'
    BY <1>4, SegmentType, RxOpenArmed
  <1>5. CASE RtxTimerFires \/ OrphanFires
    <2>1. /\ Schedule("RTX") /\ UNCHANGED <<state, snd_una, snd_max, app, loop>>
          /\ rtx_timer' = rtx_timer \/ rtx_timer' = "fired"
      BY <1>5 DEF RtxTimerFires, OrphanFires, TimerUnchanged, seqVars
    <2>2. Queued("SEND") => Queued("SEND")'
      BY <1>0, <2>1, QueuedSchedule
    <2> QED BY <2>1, <2>2 DEF OpenArmed
  <1>6. CASE TimeWaitFires \/ UNCHANGED vars
    <2>1. UNCHANGED <<state, events, rtx_timer, snd_una, snd_max, app, loop>>
      BY <1>6 DEF TimeWaitFires, TimerUnchanged, vars, seqVars, timerVars, sockVars
    <2> QED BY <2>1, QueuedSame, ZenonT(30) DEF OpenArmed
  <1> QED BY <1>1, <1>2, <1>3, <1>4, <1>5, <1>6 DEF Next

\* What the two invariants say of a connection that has not sent its FIN.
LEMMA OpenFacts ==
  ASSUME TypeOK, Opening, RtxArmed, OpenInv, OpenArmed, FlightBounded, state \in OpenStates
  PROVE  StreamAligned /\ NothingBeyondMax /\ RetransmitGuard
  <1>1. r \in Nat /\ vr \in Nat /\ vw \in Nat /\ Half \in Nat /\ vw - r < Half - 1 /\ Half >= 1
    BY HalfAssumption DEF TypeOK, SndTypeOK, FlightBounded
  <1>2. app = "connected" /\ loop # "spinning" =>
            /\ r <= vr /\ vr <= vw /\ snd_una = Pos(r) /\ snd_nxt = Pos(vr)
            /\ \E m \in vr .. vw : snd_max = Pos(m)
    BY DEF OpenInv, OpenStream
  <1>3. StreamAligned
    BY <1>2 DEF StreamAligned, Pos
  <1>4. NothingBeyondMax
    <2>1. ASSUME app = "connected", loop = "spinning" PROVE NothingBeyondMax
      <3>1. snd_una = Pos(0) /\ snd_nxt = Pos(0) /\ snd_max = Pos(0)
        BY <2>1 DEF OpenInv, OpenSpin
      <3> QED BY <3>1, <1>1, PosOrder DEF NothingBeyondMax
    <2>2. ASSUME app = "connected", loop # "spinning" PROVE NothingBeyondMax
      <3>1. PICK m \in vr .. vw : snd_max = Pos(m)
        BY <1>2, <2>2
      <3>2. /\ m \in Int /\ r <= vr /\ vr <= m
            /\ r - vr < Half /\ vr - r < Half /\ vr - m < Half /\ m - vr < Half
        BY <1>1, <1>2, <2>2, <3>1
      <3>3. seq_leq(Pos(r), Pos(vr))
        BY <1>1, <3>2, PosOrder
      <3>4. seq_leq(Pos(vr), Pos(m))
        BY <1>1, <3>2, PosOrder
      <3> QED BY <1>2, <2>2, <3>1, <3>3, <3>4 DEF NothingBeyondMax
    <2> QED BY <2>1, <2>2 DEF NothingBeyondMax
  <1>5. RetransmitGuard
    <2> SUFFICES ASSUME app # "refused", snd_una # snd_max
                 PROVE  rtx_timer = "pending" \/ Queued("RTX") \/ Queued("SEND")
      BY DEF RetransmitGuard
    <2>1. app = "connected"
      BY DEF Opening, OpenStates, TypeOK, CtlTypeOK
    <2>2. loop # "spinning"
      BY <2>1 DEF OpenInv, OpenSpin
    <2>3. rtx_timer \in TimerStates /\ (rtx_timer # "none" \/ Queued("SEND"))
      BY <2>1, <2>2 DEF OpenArmed, TypeOK, CtlTypeOK
    <2> QED BY <2>3 DEF RtxArmed, TimerStates
  <1> QED BY <1>3, <1>4, <1>5

\* Until our FIN is sent, for every peer, every window and every interleaving: snd_buf and
\* the sequence numbers describe the same stream, snd_una <= snd_nxt <= snd_max, and what is
\* unacknowledged will be sent again.  The connection writes less than half the sequence
\* space.
THEOREM AlignedUntilFin ==
  ASSUME SndLimit < Half - 1
  PROVE  Spec => [](state \in OpenStates => StreamAligned /\ NothingBeyondMax /\ RetransmitGuard)
  <1>1. Init => OpenArmed
    BY DEF Init, OpenArmed
  <1>2. TypeOK /\ Opening /\ RtxArmed /\ OpenInv /\ OpenArmed /\ [Next]_vars => OpenArmed'
    BY OpenArmedStep
  <1>3. TypeOK /\ Opening /\ RtxArmed /\ OpenInv /\ OpenArmed
           => (state \in OpenStates => StreamAligned /\ NothingBeyondMax /\ RetransmitGuard)
    BY OpenFlight, OpenFacts
  <1> QED BY <1>1, <1>2, <1>3, TypeCorrect, OpeningInvariant, RtxArmedAlways, OpenAlways, PTL DEF Spec

-----------------------------------------------------------------------------
(* From the FIN on, when writes are sent whole *)

\* What the application writes fits one batch of _tx_loop, and a window the peer opens
\* takes it whole; nothing is written after shutdown() or close().
WholeWrites ==
    /\ ~ SendAfterShutdown
    /\ SndLimit <= MaxTx /\ SndLimit < Half - 1
    /\ \A s \in Segments : s.wnd = 0 \/ s.wnd >= SndLimit

\* The peer's window is closed or takes everything written.
WndWhole == snd_wnd = 0 \/ snd_wnd >= SndLimit

\* While the FIN is unacknowledged snd_nxt is back at snd_una (a rollback with a closed
\* window) or past the FIN, and the FIN follows the last byte.
ClosingStream ==
    app = "connected" /\ state \in ClosingStates =>
        /\ r <= vr /\ vr <= vw /\ sent_fin /\ FinAsked
        /\ snd_una = Pos(r) /\ snd_max = Pos(vw + 1)
        /\ \/ vr = r /\ snd_nxt = Pos(r)
           \/ vr = vw /\ snd_nxt = Pos(vw + 1)
        /\ loop # "spinning" /\ (remote_mss = 0 => vw = 0)

\* Once our FIN is acknowledged nothing is outstanding.
Finished ==
    app = "connected" /\ state \in {"FIN_WAIT_2", "TIME_WAIT"} =>
        /\ r = vw /\ vr = vw /\ FinAsked
        /\ snd_una = Pos(vw + 1) /\ snd_nxt = Pos(vw + 1)

\* The inductive invariant of a connection whose FIN is sent.
CloseInv == ClosingStream /\ Finished

\* A step that touches none of the send variables preserves the invariant.
LEMMA CloseSame ==
  ASSUME CloseInv, app' = "connected" => app = "connected", FinAsked => FinAsked',
         UNCHANGED <<state, snd_una, snd_nxt, snd_max, r, vr, vw, sent_fin, loop, remote_mss>>
  PROVE  CloseInv'
  <1>1. ClosingStream'
    BY DEF CloseInv, ClosingStream
  <1>2. Finished'
    BY DEF CloseInv, Finished
  <1> QED BY <1>1, <1>2 DEF CloseInv

\* A FIN this step transmits follows the last byte written (the step of FinAfterData).
FinLast == \A o \in out' : o.flag = "FIN" => Mask(o.seq + o.dlen) = Mask(ISS + 1 + vw)

\* The SEND or RTX event that sends the FIN.
LEMMA TxOpenClose ==
  ASSUME TypeOK, FlightBounded, FinLast, loop = "running", NEW vr0 \in Nat, NEW tm0,
         TxOpenPre(vr0), Tx(Pos(vr0), vr0, tm0)
  PROVE  CloseInv'
  <1>0. PICK m \in vr0 .. vw : snd_max = Pos(m)
    BY DEF TxOpenPre
  <1>1. /\ UNCHANGED <<snd_una, r, vw, remote_mss, close_requested, shutdown_requested>>
        /\ r \in Nat /\ vw \in Nat /\ vr0 \in Nat /\ m \in Nat /\ vw - r < Half - 1 /\ Half \in Nat
        /\ r <= vr0 /\ vr0 <= vw /\ snd_una = Pos(r) /\ state \in OpenStates /\ ~ sent_fin
        /\ remote_mss = 0 => vr0 = 0
    BY HalfAssumption DEF Tx, TxUnchanged, reqVars, TypeOK, SndTypeOK, FlightBounded, TxOpenPre
  <1>2. state' \notin {"FIN_WAIT_2", "TIME_WAIT"}
    BY TxOpen
  <1> SUFFICES ASSUME state' \in ClosingStates PROVE ClosingStream'
    BY <1>2 DEF CloseInv, ClosingStream, Finished
  <1>3. FinRequested => FinAsked'
    BY <1>1 DEF FinRequested, FinAsked, OpenStates
  <1>4. CASE TxData(Pos(vr0), vr0, tm0)
    <2>1. PICK n \in 0 .. vw - vr0 : \E fin \in {0, 1} :
            /\ vr0 < vw /\ n = Drained(vr0) /\ (n = 0 \/ remote_mss # 0)
            /\ fin = 1 <=> FinRequested /\ n > 0
            /\ vr' = vr0 + n /\ snd_nxt' = Mask(Pos(vr0) + n + fin) /\ RaiseSndMax(n)
            /\ sent_fin' = (sent_fin \/ fin = 1) /\ loop' = loop
            /\ state' = IF fin = 1 THEN NextOnFin ELSE state
            /\ out' = IF n > 0 THEN {Seg(IF fin = 1 THEN "FIN" ELSE "ACK", Pos(vr0), n)} ELSE {}
      BY <1>1, <1>4, TxDataEffect, Zenon
    <2>2. PICK fin \in {0, 1} :
            /\ n = 0 \/ remote_mss # 0
            /\ fin = 1 <=> FinRequested /\ n > 0
            /\ vr' = vr0 + n /\ snd_nxt' = Mask(Pos(vr0) + n + fin) /\ RaiseSndMax(n)
            /\ sent_fin' = (sent_fin \/ fin = 1) /\ loop' = loop
            /\ state' = IF fin = 1 THEN NextOnFin ELSE state
            /\ out' = IF n > 0 THEN {Seg(IF fin = 1 THEN "FIN" ELSE "ACK", Pos(vr0), n)} ELSE {}
      BY <2>1, Zenon
    <2>3. fin = 1
      <3>1. state' # state
        BY <1>1 DEF OpenStates, ClosingStates
      <3> QED BY <2>2, <3>1, ZenonT(30)
    <2>4. n > 0 /\ FinAsked' /\ sent_fin' /\ loop' = "running" /\ remote_mss' # 0
      <3>1. FinRequested /\ n > 0
        BY <2>2, <2>3, Zenon
      <3>2. sent_fin' /\ loop' = "running"
        BY <2>2, <2>3, Zenon
      <3>3. n # 0
        BY <3>1
      <3>4. remote_mss' # 0
        BY <1>1, <2>2, <3>3, Zenon
      <3> QED BY <1>3, <3>1, <3>2, <3>4
    <2>5. out' = {Seg("FIN", Pos(vr0), n)}
      BY <2>2, <2>3, <2>4, ZenonT(30)
    <2>6. n \in Nat /\ vr0 + n \in Nat
      BY <1>1
    <2>7. vr0 + n = vw
      <3>1. Mask(Pos(vr0) + n) = Pos(vw)
        BY <2>5 DEF FinLast, Seg, Pos
      <3>2. Pos(vr0 + n) = Pos(vw)
        BY <2>6, <3>1, PosAdd
      <3>3. vr0 + n \in Int /\ (vr0 + n) - vw < Half /\ vw - (vr0 + n) < Half
        BY <1>1, <2>6
      <3> QED BY <1>1, <3>2, <3>3, PosOrder
    <2>8. snd_nxt' = Pos(vw + 1) /\ vr' = vw
      <3>1. Pos(vr0) \in Nat
        BY PosAdd, SeqNumNat
      <3>2. Pos(vr0) + n + fin = Pos(vr0) + (n + 1) /\ vr0 + (n + 1) = vw + 1 /\ n + 1 \in Int
        BY <2>3, <2>6, <2>7, <3>1
      <3> QED BY <2>2, <2>7, <3>2, PosAdd
    <2>9. snd_max' = Pos(vw + 1)
      <3>1. vw + 1 \in Int /\ (vw + 1) - m < Half /\ m - (vw + 1) < Half /\ vw + 1 > m
        BY <1>1
      <3>2. seq_gt(Pos(vw + 1), Pos(m))
        BY <1>1, <3>1, PosOrder
      <3> QED BY <1>0, <2>2, <2>4, <2>8, <3>2 DEF RaiseSndMax
    <2> QED BY <1>1, <2>4, <2>8, <2>9 DEF ClosingStream
  <1>5. CASE TxFin(Pos(vr0), vr0, tm0)
    <2>1. /\ vr0 = vw /\ FinAsked' /\ snd_nxt' = Mask(Pos(vr0) + 1) /\ snd_max' = snd_nxt'
          /\ sent_fin' = TRUE /\ vr' = vr0 /\ loop' = loop
      BY <1>1, <1>3, <1>5 DEF TxFin, FinDue
    <2>2. snd_nxt' = Pos(vw + 1) /\ snd_max' = Pos(vw + 1)
      BY <1>1, <2>1, PosAdd
    <2> QED BY <1>1, <2>1, <2>2 DEF ClosingStream
  <1>6. ~ (\/ TxAbort(Pos(vr0), vr0) \/ TxSpin(Pos(vr0), vr0, tm0) \/ TxAckOrNothing(Pos(vr0), vr0, tm0)
           \/ TxSyn(Pos(vr0), vr0, tm0) \/ TxNoHandler(Pos(vr0), vr0, tm0))
    <2>1. state' # state /\ state' # "CLOSED"
      BY <1>1 DEF OpenStates, ClosingStates
    <2> QED BY <2>1, ZenonT(30) DEF TxAbort, Abort, TxSpin, TxAckOrNothing, TxSyn, TxNoHandler
  <1> QED BY <1>4, <1>5, <1>6 DEF Tx

\* After the FIN was sent it is only sent again, with the data before it.
LEMMA TxClosing ==
  ASSUME TypeOK, FlightBounded, FinLast, CloseInv, app = "connected", state \in ClosingStates,
         loop = "running", NEW vr0, NEW nxt0, NEW tm0, Tx(nxt0, vr0, tm0),
         (nxt0 = snd_nxt /\ vr0 = vr) \/ (nxt0 = snd_una /\ vr0 = r)
  PROVE  CloseInv'
  <1>0. /\ r <= vw /\ sent_fin /\ FinAsked /\ snd_una = Pos(r) /\ snd_max = Pos(vw + 1)
        /\ (vr0 = r /\ nxt0 = Pos(r)) \/ (vr0 = vw /\ nxt0 = Pos(vw + 1))
        /\ remote_mss = 0 => vw = 0
    BY DEF CloseInv, ClosingStream, TypeOK, SndTypeOK
  <1>1. /\ UNCHANGED <<snd_una, r, vw, remote_mss, close_requested, shutdown_requested>>
        /\ r \in Nat /\ vw \in Nat /\ vr0 \in Nat /\ vr0 <= vw /\ vw - r < Half - 1 /\ Half \in Nat
        /\ 1 < Half
    BY <1>0, HalfAssumption DEF Tx, TxUnchanged, reqVars, TypeOK, SndTypeOK, FlightBounded
  <1>2. FinAsked' /\ FinRequested
    BY <1>0, <1>1 DEF FinAsked, FinRequested, ClosingStates
  <1>3. state' = state \/ state' = "CLOSED"
    BY TxStates
  <1> SUFFICES ASSUME state' = state
               PROVE  /\ vr' = r \/ vr' = vw
                      /\ sent_fin' /\ snd_max' = Pos(vw + 1) /\ loop' # "spinning"
                      /\ (vr' = r /\ snd_nxt' = Pos(r)) \/ (vr' = vw /\ snd_nxt' = Pos(vw + 1))
    BY <1>0, <1>1, <1>2, <1>3 DEF CloseInv, ClosingStream, Finished, ClosingStates
  <1>4. ~ TxAbort(nxt0, vr0)
    BY DEF TxAbort, Abort, ClosingStates
  <1>5. CASE TxData(nxt0, vr0, tm0)
    <2>1. PICK n \in 0 .. vw - vr0 : \E fin \in {0, 1} :
            /\ vr0 < vw /\ n = Drained(vr0) /\ (n = 0 \/ remote_mss # 0)
            /\ fin = 1 <=> FinRequested /\ n > 0
            /\ vr' = vr0 + n /\ snd_nxt' = Mask(nxt0 + n + fin) /\ RaiseSndMax(n)
            /\ sent_fin' = (sent_fin \/ fin = 1) /\ loop' = loop
            /\ state' = IF fin = 1 THEN NextOnFin ELSE state
            /\ out' = IF n > 0 THEN {Seg(IF fin = 1 THEN "FIN" ELSE "ACK", nxt0, n)} ELSE {}
      BY <1>1, <1>5, TxDataEffect, ZenonT(30)
    <2>2. PICK fin \in {0, 1} :
            /\ vr0 < vw /\ (fin = 1 <=> FinRequested /\ n > 0)
            /\ vr' = vr0 + n /\ snd_nxt' = Mask(nxt0 + n + fin) /\ RaiseSndMax(n)
            /\ sent_fin' = (sent_fin \/ fin = 1) /\ loop' = loop
            /\ out' = IF n > 0 THEN {Seg(IF fin = 1 THEN "FIN" ELSE "ACK", nxt0, n)} ELSE {}
      BY <2>1, ZenonT(30)
    <2>3. vr0 = r /\ nxt0 = Pos(r) /\ n \in Nat /\ Pos(r) \in Nat
      BY <1>0, <1>1, <2>2, PosAdd, SeqNumNat
    <2>4. sent_fin' /\ loop' = "running"
      BY <1>0, <2>2, ZenonT(30)
    <2>5. CASE n = 0
      <3>1. fin = 0 /\ vr' = r /\ snd_max' = snd_max
        BY <1>1, <2>2, <2>3, <2>5 DEF RaiseSndMax
      <3>2. nxt0 + n + fin = nxt0
        BY <2>3, <2>5, <3>1
      <3>3. snd_nxt' = Pos(r)
        <4>1. Pos(r) \in SeqNum
          BY <1>1, PosAdd
        <4>2. snd_nxt' = Mask(nxt0 + n + fin)
          BY <2>2, ZenonT(30)
        <4> QED BY <2>3, <3>2, <4>1, <4>2, MaskSmall
      <3> QED BY <1>0, <2>4, <3>1, <3>3
    <2>6. CASE n > 0
      <3>1. fin = 1
        BY <1>2, <2>2, <2>6
      <3>2. out' = {Seg("FIN", Pos(r), n)}
        BY <2>2, <2>3, <2>6, <3>1, ZenonT(30)
      <3>3. Mask(Pos(r) + n) = Pos(vw)
        BY <3>2 DEF FinLast, Seg, Pos
      <3>4. r + n = vw
        <4>1. Pos(r + n) = Pos(vw)
          BY <1>1, <2>3, <3>3, PosAdd
        <4>2. r + n \in Int /\ (r + n) - vw < Half /\ vw - (r + n) < Half
          BY <1>1, <2>3
        <4> QED BY <1>1, <4>1, <4>2, PosOrder
      <3>5. vr' = vw /\ snd_nxt' = Pos(vw + 1)
        <4>1. nxt0 + n + fin = Pos(r) + (n + 1) /\ r + (n + 1) = vw + 1 /\ n + 1 \in Int
          BY <1>1, <2>3, <3>1, <3>4
        <4>2. vr' = vr0 + n /\ snd_nxt' = Mask(nxt0 + n + fin)
          BY <2>2, ZenonT(30)
        <4>3. Mask(Pos(r) + (n + 1)) = Pos(r + (n + 1))
          <5>1. r \in Int /\ n + 1 \in Int
            BY <1>1, <2>3
          <5> QED BY <5>1, PosAdd, ZenonT(30)
        <4> QED BY <2>3, <3>4, <4>1, <4>2, <4>3
      <3>6. snd_max' = Pos(vw + 1)
        BY <1>0, <2>2, <3>5 DEF RaiseSndMax
      <3> QED BY <2>4, <3>5, <3>6
    <2> QED BY <2>3, <2>5, <2>6
  <1>6. ~ TxSpin(nxt0, vr0, tm0)
    BY <1>0, <1>1 DEF TxSpin
  <1>7. CASE TxFin(nxt0, vr0, tm0)
    <2>1. /\ vr0 = vw /\ vr' = vr0
          /\ snd_nxt' = IF seq_gt(snd_max, nxt0) THEN Mask(nxt0 + 1) ELSE nxt0
          /\ UNCHANGED <<snd_max, sent_fin, loop>>
      BY <1>0, <1>7, ZenonT(30) DEF TxFin, FinDue
    <2>2. snd_nxt' = Pos(vw + 1)
      <3>1. CASE nxt0 = Pos(vw)
        <4>1. vw + 1 \in Int /\ (vw + 1) - vw < Half /\ vw - (vw + 1) < Half
          BY <1>1
        <4>2. seq_gt(Pos(vw + 1), Pos(vw))
          BY <1>1, <4>1, PosOrder
        <4>3. Mask(Pos(vw) + 1) = Pos(vw + 1)
          BY <1>1, PosAdd
        <4> QED BY <1>0, <2>1, <3>1, <4>2, <4>3, ZenonT(30)
      <3>2. CASE nxt0 = Pos(vw + 1)
        <4>1. vw + 1 \in Int /\ (vw + 1) - (vw + 1) < Half
          BY <1>1
        <4>2. ~ seq_gt(Pos(vw + 1), Pos(vw + 1))
          BY <4>1, PosOrder
        <4> QED BY <1>0, <2>1, <3>2, <4>2, ZenonT(30)
      <3> QED BY <1>0, <2>1, <3>1, <3>2
    <2> QED BY <1>0, <2>1, <2>2
  <1>8. CASE TxAckOrNothing(nxt0, vr0, tm0)
    <2>1. snd_nxt' = nxt0 /\ vr' = vr0 /\ UNCHANGED <<snd_max, sent_fin, loop>>
      BY <1>8 DEF TxAckOrNothing
    <2> QED BY <1>0, <2>1
  <1>9. ~ TxSyn(nxt0, vr0, tm0) /\ ~ TxNoHandler(nxt0, vr0, tm0)
    BY DEF TxSyn, TxNoHandler, ClosingStates
  <1> QED BY <1>4, <1>5, <1>6, <1>7, <1>8, <1>9 DEF Tx

\* The SEND or RTX event of any state keeps the invariant.
LEMMA TxCloseInv ==
  ASSUME TypeOK, Opening, OpenInv, CloseInv, FlightBounded, app = "connected" => FinLast,
         loop = "running", NEW nxt0, NEW vr0, NEW tm0, Tx(nxt0, vr0, tm0),
         (nxt0 = snd_nxt /\ vr0 = vr) \/ (nxt0 = snd_una /\ vr0 = r)
  PROVE  CloseInv'
  <1>0. UNCHANGED <<app, r, vw, snd_una, close_requested, shutdown_requested>>
    BY DEF Tx, TxUnchanged, reqVars
  <1>1. CASE app # "connected"
    BY <1>0, <1>1 DEF CloseInv, ClosingStream, Finished
  <1>2. CASE app = "connected" /\ state \in OpenStates
    BY <1>2, TxOpenFrom, TxOpenClose
  <1>3. CASE app = "connected" /\ state \in ClosingStates
    BY <1>3, TxClosing
  <1>4. CASE app = "connected" /\ state \in {"FIN_WAIT_2", "TIME_WAIT"}
    <2>1. r = vw /\ vr = vw /\ FinAsked /\ snd_una = Pos(vw + 1) /\ snd_nxt = Pos(vw + 1)
      BY <1>4 DEF CloseInv, Finished
    <2>2. \/ state' = "CLOSED"
          \/ state' = state /\ vr' = vr0 /\ snd_nxt' = nxt0
      BY <1>4, ZenonT(30) DEF Tx, TxAbort, Abort, TxData, TxSpin, TxFin, FinDue, TxAckOrNothing, TxSyn,
                  TxNoHandler, Sending
    <2>3. FinAsked'
      BY <1>0, <2>1, Zenon DEF FinAsked
    <2>4. vr0 = vw /\ nxt0 = Pos(vw + 1)
      BY <2>1
    <2> QED BY <1>0, <1>4, <2>1, <2>2, <2>3, <2>4, ZenonT(30)
            DEF CloseInv, ClosingStream, Finished, ClosingStates
  <1>5. CASE app = "connected" /\ state = "CLOSED"
    <2>1. state' = "CLOSED"
      BY <1>5, TxFrame
    <2> QED BY <2>1 DEF CloseInv, ClosingStream, Finished, ClosingStates
  <1>6. app = "connected" => \/ state \in OpenStates \/ state \in ClosingStates
                             \/ state \in {"FIN_WAIT_2", "TIME_WAIT"} \/ state = "CLOSED"
    BY DEF TypeOK, CtlTypeOK, States, Opening, OpenStates, ClosingStates
  <1> QED BY <1>1, <1>2, <1>3, <1>4, <1>5, <1>6

\* An ACK after our FIN is sent frees the bytes it acknowledges, and everything once it
\* acknowledges the FIN too.
LEMMA RxFinAck ==
  ASSUME TypeOK, CloseInv, FlightBounded, NEW s \in Segment,
         app = "connected", RxFinWait1(s) \/ RxClosing(s) \/ RxLastAck(s)
  PROVE  /\ CloseInv'
         /\ state' \in ClosingStates
               \/ (AllAcked(s) /\ r' = vw /\ snd_una' = Pos(vw + 1) /\ vw' = vw)
  <1>1. /\ state \in ClosingStates /\ HRxAck(s) /\ FreeAcked(s)
        /\ IF AllAcked(s) THEN state' \in {"FIN_WAIT_2", "TIME_WAIT", "CLOSED"}
                          ELSE state' \in ClosingStates
        /\ UNCHANGED <<snd_nxt, snd_max, vr, vw, sent_fin, app, loop, close_requested,
                       shutdown_requested, remote_mss>>
    BY ZenonT(30) DEF RxFinWait1, RxClosing, RxLastAck, EnterTimeWait, flagVars, sockVars, reqVars,
       ClosingStates
  <1>2. /\ r <= vr /\ vr <= vw /\ sent_fin /\ FinAsked /\ snd_una = Pos(r) /\ snd_max = Pos(vw + 1)
        /\ (vr = r /\ snd_nxt = Pos(r)) \/ (vr = vw /\ snd_nxt = Pos(vw + 1))
        /\ loop # "spinning" /\ (remote_mss = 0 => vw = 0)
    BY <1>1 DEF CloseInv, ClosingStream
  <1>3. /\ r \in Nat /\ vr \in Nat /\ vw \in Nat /\ vw + 1 \in Nat
        /\ r <= vw + 1 /\ (vw + 1) - r < Half /\ r - r < Half
    BY <1>2, HalfAssumption DEF TypeOK, SndTypeOK, FlightBounded
  <1>4. FinAsked'
    BY <1>1, <1>2, ZenonT(30) DEF FinAsked
  <1>5. CASE ~ AckAccepted(s)
    <2>1. snd_una' = snd_una /\ r' = r /\ state' \in ClosingStates
      <3>1. snd_una' = snd_una /\ ~ AllAcked(s) /\ SeqAcked(s) = 0
        BY <1>1, <1>5, Zenon DEF HRxAck, SeqAcked, AllAcked
      <3>2. r' = r + 0 - 0
        BY <1>1, <3>1, ZenonT(30) DEF FreeAcked
      <3> QED BY <1>1, <1>3, <3>1, <3>2
    <2>2. ClosingStream'
      BY <1>1, <1>2, <1>4, <2>1 DEF ClosingStream
    <2> QED BY <2>1, <2>2 DEF CloseInv, Finished, ClosingStates
  <1>6. CASE AckAccepted(s)
    <2>1. snd_nxt = Pos(vw + 1) /\ vr = vw
      <3>1. ASSUME snd_nxt = Pos(r) PROVE FALSE
        <4>1. \E k \in 1 .. r - r : s.ack_seq = Pos(r + k)
          BY <1>2, <1>3, <1>6, <3>1, AckPos
        <4> QED BY <1>3, <4>1
      <3> QED BY <1>2, <3>1
    <2>2. PICK k \in 1 .. (vw + 1) - r : /\ s.ack_seq = Pos(r + k) /\ SeqAcked(s) = k
                                         /\ AllAcked(s) <=> k = (vw + 1) - r
      BY <1>2, <1>3, <1>6, <2>1, AckPos
    <2>3. snd_una' = Pos(r + k)
      BY <1>1, <1>6, <2>2, Zenon DEF HRxAck
    <2>4. CASE AllAcked(s)
      <3>1. r' = vw /\ snd_una' = Pos(vw + 1)
        <4>1. r' = r + SeqAcked(s) - 1
          BY <1>1, <2>4, ZenonT(30) DEF FreeAcked
        <4> QED BY <1>3, <2>2, <2>3, <2>4, <4>1
      <3> QED BY <1>1, <1>4, <2>1, <2>4, <3>1, ZenonT(30)
              DEF CloseInv, ClosingStream, Finished, ClosingStates
    <2>5. CASE ~ AllAcked(s)
      <3>1. r' = r + k /\ r' <= vw /\ snd_una' = Pos(r')
        <4>1. r' = r + SeqAcked(s) - 0
          BY <1>1, <2>5, ZenonT(30) DEF FreeAcked
        <4> QED BY <1>3, <2>2, <2>3, <2>5, <4>1
      <3>2. ClosingStream'
        BY <1>1, <1>2, <1>4, <2>1, <2>5, <3>1 DEF ClosingStream
      <3>3. state' \in ClosingStates
        BY <1>1, <2>5, ZenonT(30)
      <3> QED BY <3>2, <3>3 DEF CloseInv, Finished, ClosingStates
    <2> QED BY <2>4, <2>5
  <1> QED BY <1>5, <1>6

\* A segment received in any state keeps the invariant.
LEMMA RxCloseInv ==
  ASSUME TypeOK, Opening, CloseInv, FlightBounded, NEW s \in Segment, Rx(s)
  PROVE  CloseInv'
  <1>1. CASE \/ RxSynSentRefused(s) \/ RxSynSentEstab(s) \/ RxSynSentBadAck(s)
             \/ RxSynSentSyn(s) \/ RxSynRecvEstab(s) \/ RxSynRecvReset(s) \/ RxSynRecvDrop(s)
    <2>1. state' \in {"SYN_SENT", "SYN_RECV", "ESTAB"}
      BY <1>1, ZenonT(30) DEF RxSynSentRefused, RxSynSentEstab, RxSynSentBadAck, RxSynSentSyn,
         RxSynRecvEstab, RxSynRecvReset, RxSynRecvDrop, RxSynRecvGuard
    <2> QED BY <2>1 DEF CloseInv, ClosingStream, Finished, ClosingStates
  <1>2. CASE \/ RxReset(s) \/ RxCloseAbort(s) \/ RxEstab(s) \/ RxCloseWait(s)
    <2>1. state' \in {"CLOSED", "ESTAB", "CLOSE_WAIT"}
      BY <1>2, ZenonT(30) DEF RxReset, RxCloseAbort, Abort, RxEstab, RxCloseWait
    <2> QED BY <2>1 DEF CloseInv, ClosingStream, Finished, ClosingStates
  <1>3. CASE RxSyn(s) \/ RxDrop(s) \/ RxBuffer(s) \/ RxTimeWait(s)
    <2>1. UNCHANGED <<state, snd_una, snd_nxt, snd_max, r, vr, vw, sent_fin, loop, app,
                      close_requested, shutdown_requested, remote_mss>>
      BY <1>3 DEF RxSyn, RxDrop, RxBuffer, RxTimeWait, seqVars, bufVars, flagVars, reqVars, sockVars
    <2> QED BY <2>1, CloseSame DEF FinAsked
  <1>4. CASE RxFinWait1(s) \/ RxFinWait2(s) \/ RxClosing(s) \/ RxLastAck(s)
    <2>1. app' = app
      BY <1>4, RxSyncFrame, ZenonT(30)
    <2>2. CASE app # "connected"
      BY <2>1, <2>2 DEF CloseInv, ClosingStream, Finished
    <2>3. CASE app = "connected" /\ (RxFinWait1(s) \/ RxClosing(s) \/ RxLastAck(s))
      BY <2>3, RxFinAck
    <2>4. CASE app = "connected" /\ RxFinWait2(s)
      <3>1. /\ state = "FIN_WAIT_2" /\ state' \in {"FIN_WAIT_2", "TIME_WAIT"} /\ HRxAck(s)
            /\ UNCHANGED <<snd_nxt, r, vr, vw, close_requested, shutdown_requested>>
        BY <2>4 DEF RxFinWait2, EnterTimeWait, bufVars, reqVars
      <3>2. r = vw /\ vr = vw /\ FinAsked /\ snd_una = Pos(vw + 1) /\ snd_nxt = Pos(vw + 1)
        BY <2>4, <3>1 DEF CloseInv, Finished
      <3>3. ~ AckAccepted(s)
        <4> SUFFICES ASSUME AckAccepted(s) PROVE FALSE
          OBVIOUS
        <4>1. vw + 1 \in Nat /\ (vw + 1) - (vw + 1) < Half
          BY HalfAssumption DEF TypeOK, SndTypeOK
        <4>2. \E k \in 1 .. (vw + 1) - (vw + 1) : s.ack_seq = Pos((vw + 1) + k)
          BY <3>2, <4>1, AckPos
        <4> QED BY <4>1, <4>2
      <3>4. snd_una' = snd_una /\ FinAsked'
        BY <3>1, <3>2, <3>3 DEF HRxAck, FinAsked
      <3> QED BY <2>1, <3>1, <3>2, <3>4, ZenonT(30) DEF CloseInv, ClosingStream, Finished, ClosingStates
    <2> QED BY <1>4, <2>2, <2>3, <2>4
  <1> QED BY <1>1, <1>2, <1>3, <1>4 DEF Rx

\* Every step keeps the invariant, provided the FIN it may send follows the last byte.
LEMMA CloseStep ==
  ASSUME TypeOK, Opening, OpenInv, CloseInv, FlightBounded, ~ SendAfterShutdown,
         app = "connected" => FinLast, [Next]_vars
  PROVE  CloseInv'
  <1>1. CASE AppConnect \/ AppShutdown \/ AppClose \/ \E n \in 1 .. RcvSpace : AppRecv(n)
    <2>1. /\ UNCHANGED <<state, snd_una, snd_nxt, snd_max, r, vr, vw, sent_fin, loop, remote_mss>>
          /\ app' = "connected" => app = "connected"
      BY <1>1, ZenonT(30) DEF AppConnect, AppShutdown, AppClose, AppRecv, seqVars, bufVars, flagVars,
         sockVars, reqVars
    <2>2. FinAsked => FinAsked'
      BY <1>1 DEF AppConnect, AppShutdown, AppClose, AppRecv, reqVars, FinAsked
    <2> QED BY <2>1, <2>2, CloseSame, Zenon
  <1>2. ASSUME NEW n \in 1 .. SndLimit, AppSend(n) PROVE CloseInv'
    <2>1. state' = state /\ app = "connected" /\ ~ FinAsked
      BY <1>2 DEF AppSend, FinAsked
    <2>2. state \notin ClosingStates /\ state \notin {"FIN_WAIT_2", "TIME_WAIT"}
      BY <2>1 DEF CloseInv, ClosingStream, Finished
    <2> QED BY <2>1, <2>2 DEF CloseInv, ClosingStream, Finished
  <1>3. CASE EvConnect
    BY <1>3 DEF EvConnect, CloseInv, ClosingStream, Finished, ClosingStates
  <1>4. CASE EvSend
    BY <1>4, TxCloseInv DEF EvSend, Take
  <1>5. CASE EvRtx
    BY <1>5, TxCloseInv DEF EvRtx, Take
  <1>6. ASSUME NEW s \in Segments, Rx(s) PROVE CloseInv'
    BY <1>6, SegmentType, RxCloseInv
  <1>7. CASE RtxTimerFires \/ OrphanFires \/ TimeWaitFires \/ UNCHANGED vars
    <2>1. UNCHANGED <<state, snd_una, snd_nxt, snd_max, r, vr, vw, sent_fin, loop, app,
                      close_requested, shutdown_requested, remote_mss>>
      BY <1>7, Zenon DEF RtxTimerFires, OrphanFires, TimeWaitFires, TimerUnchanged, vars, seqVars,
                  bufVars, flagVars, reqVars, sockVars
    <2> QED BY <2>1, CloseSame, Zenon DEF FinAsked
  <1> QED BY <1>1, <1>2, <1>3, <1>4, <1>5, <1>6, <1>7 DEF Next, App

\* _h_rx_wnd takes the window from the segment.
LEMMA WndWholeStep ==
  ASSUME WholeWrites, WndWhole, [Next]_vars
  PROVE  WndWhole'
  <1> USE DEF wndVars
  <1>1. CASE App
    BY <1>1, Zenon DEF App, AppConnect, AppShutdown, AppClose, AppRecv, AppSend, WndWhole
  <1>2. CASE EvConnect \/ EvSend \/ EvRtx
    BY <1>2, Zenon DEF EvConnect, EvSend, EvRtx, Tx, TxUnchanged, WndWhole
  <1>3. ASSUME NEW s \in Segments, Rx(s) PROVE WndWhole'
    <2>1. s.wnd = 0 \/ s.wnd >= SndLimit
      BY DEF WholeWrites
    <2>2. snd_wnd' = snd_wnd \/ snd_wnd' = s.wnd
      BY <1>3, ZenonT(30) DEF Rx, RxSynSentRefused, RxSynSentEstab, RxSynSentBadAck, RxSynSentSyn,
         RxSynRecvEstab, RxSynRecvReset, RxSynRecvDrop, RxReset, RxCloseAbort, RxSyn, RxDrop,
         RxBuffer, RxEstab, RxFinWait1, RxFinWait2, RxCloseWait, RxClosing, RxLastAck, RxTimeWait,
         HRxWnd
    <2> QED BY <2>1, <2>2 DEF WndWhole
  <1>4. CASE RtxTimerFires \/ OrphanFires \/ TimeWaitFires
    BY <1>4 DEF RtxTimerFires, OrphanFires, TimeWaitFires, TimerUnchanged, WndWhole
  <1>5. CASE UNCHANGED vars
    BY <1>5 DEF vars, WndWhole
  <1> QED BY <1>1, <1>2, <1>3, <1>4, <1>5, Zenon DEF Next

\* Then a SEND or an RTX event that sends a FIN drains the buffer first.
LEMMA TxFinLast ==
  ASSUME TypeOK, WholeWrites, OpenInv, CloseInv, WndWhole, app = "connected",
         loop = "running", NEW nxt0, NEW vr0, NEW tm0, Tx(nxt0, vr0, tm0),
         (nxt0 = snd_nxt /\ vr0 = vr) \/ (nxt0 = snd_una /\ vr0 = r)
  PROVE  FinLast
  <1> SUFFICES ASSUME NEW o \in out', o.flag = "FIN"
               PROVE  Mask(o.seq + o.dlen) = Pos(vw)
    BY DEF FinLast, Pos
  <1>0. /\ nxt0 \in SeqNum /\ vr0 \in Nat /\ r \in Nat /\ vr \in Nat /\ vw \in Nat
        /\ vw <= SndLimit /\ vw - r < Half - 1 /\ Half \in Nat
    <2>1. /\ r \in Nat /\ vr \in Nat /\ vw \in Nat
          /\ snd_una \in SeqNum /\ snd_nxt \in SeqNum
      BY DEF TypeOK, SndTypeOK
    <2>2. /\ Half \in Nat /\ SndLimit \in Nat /\ SndLimit < Half - 1 /\ vw <= SndLimit
      BY FsmAssumption, HalfAssumption DEF OpenInv, WholeWrites
    <2> QED BY <2>1, <2>2
  <1>1. TxData(nxt0, vr0, tm0) \/ TxFin(nxt0, vr0, tm0)
    <2>1. \/ TxData(nxt0, vr0, tm0) \/ TxFin(nxt0, vr0, tm0)
          \/ out' = RstSeg(nxt0) \/ out' = AckSeg(nxt0) \/ out' = {}
          \/ out' = {Seg("SYN", nxt0, 0)} \/ out' = {Seg("SYN_ACK", nxt0, 0)}
      BY Zenon DEF Tx, TxAbort, TxSpin, TxAckOrNothing, TxSyn, TxNoHandler
    <2> QED BY <2>1 DEF AckSeg, RstSeg, Seg
  <1>2. state \in OpenStates \/ state \in ClosingStates
    BY <1>1, ZenonT(30) DEF TxData, TxFin, FinDue, Sending, OpenStates, ClosingStates
  <1>3. /\ r <= vr /\ vr <= vw /\ snd_una = Pos(r)
        /\ state \in OpenStates => ~ sent_fin /\ snd_nxt = Pos(vr)
        /\ state \in ClosingStates =>
              /\ sent_fin /\ snd_max = Pos(vw + 1)
              /\ \/ vr = r /\ snd_nxt = Pos(r)
                 \/ vr = vw /\ snd_nxt = Pos(vw + 1)
    BY <1>2 DEF OpenInv, OpenStream, CloseInv, ClosingStream
  <1>4. CASE TxData(nxt0, vr0, tm0)
    <2>1. o = Seg(o.flag, nxt0, Drained(vr0)) /\ Drained(vr0) > 0 /\ vr0 < vw
      <3>1. /\ vr0 < vw
            /\ \E f \in {"FIN", "ACK"} :
                  out' = IF Drained(vr0) > 0 THEN {Seg(f, nxt0, Drained(vr0))} ELSE {}
        BY <1>4, Zenon DEF TxData
      <3>2. PICK f \in {"FIN", "ACK"} :
                  out' = IF Drained(vr0) > 0 THEN {Seg(f, nxt0, Drained(vr0))} ELSE {}
        BY <3>1
      <3>3. Drained(vr0) > 0 /\ o = Seg(f, nxt0, Drained(vr0))
        BY <3>2, ZenonT(30)
      <3> QED BY <3>1, <3>3 DEF Seg
    <2>2. Drained(vr0) = vw - vr0
      <3>1. snd_wnd \in Nat /\ snd_wnd > 0 /\ snd_wnd >= SndLimit /\ MaxTx >= SndLimit
        <4>1. /\ snd_wnd \in Nat /\ MaxTx \in Nat /\ MaxTx >= SndLimit /\ SndLimit \in Nat
              /\ snd_wnd = 0 \/ snd_wnd >= SndLimit
          BY FsmAssumption DEF WndWhole, WholeWrites, TypeOK, SndTypeOK
        <4>2. snd_wnd # 0
          BY <1>0, <2>1, <4>1 DEF Drained, Least
        <4> QED BY <4>1, <4>2
      <3> QED BY <1>0, <2>1, <3>1, FsmAssumption DEF Drained, Least
    <2>3. nxt0 = Pos(vr0)
      BY <1>0, <1>2, <1>3, <2>1
    <2>4. o.seq = Pos(vr0) /\ o.dlen = vw - vr0
      BY <2>1, <2>2, <2>3 DEF Seg
    <2> QED BY <1>0, <2>4, PosAdd
  <1>5. CASE TxFin(nxt0, vr0, tm0)
    <2>1. vr0 = vw /\ o.seq = nxt0 /\ o.dlen = 0 /\ (sent_fin => seq_gt(snd_max, nxt0))
      <3>1. /\ vr0 = vw /\ sent_fin /\ ~ seq_gt(snd_max, nxt0) => out' = {}
            /\ out' \in {{Seg("FIN", nxt0, 0)}, {}}
        BY <1>5, Zenon DEF TxFin, FinDue
      <3>2. vr0 = vw
        BY <1>5, Zenon DEF TxFin, FinDue
      <3>3. o = Seg("FIN", nxt0, 0) /\ (sent_fin => seq_gt(snd_max, nxt0))
        BY <3>1, <3>2, ZenonT(30)
      <3> QED BY <3>2, <3>3 DEF Seg
    <2>2. nxt0 = Pos(vw)
      <3>1. ASSUME snd_max = Pos(vw + 1), nxt0 = Pos(vw + 1), sent_fin PROVE FALSE
        <4>1. vw + 1 \in Int /\ (vw + 1) - (vw + 1) < Half
          BY <1>0, HalfAssumption
        <4>2. ~ seq_gt(Pos(vw + 1), Pos(vw + 1))
          BY <4>1, PosOrder
        <4> QED BY <2>1, <3>1, <4>2
      <3> QED BY <1>0, <1>2, <1>3, <2>1, <3>1
    <2>3. o.seq + o.dlen = Pos(vw) /\ Pos(vw) \in SeqNum
      BY <1>0, <2>1, <2>2, PosAdd, SeqNumNat
    <2> QED BY <2>3, MaskSmall, ZenonT(30)
  <1> QED BY <1>1, <1>4, <1>5

\* Only the transmission handlers send a FIN.
LEMMA NextFinLast ==
  ASSUME TypeOK, Opening, WholeWrites, OpenInv, CloseInv, WndWhole, app = "connected", Next
  PROVE  FinLast
  <1> USE DEF FinLast
  <1>1. CASE App \/ RtxTimerFires \/ OrphanFires \/ TimeWaitFires
    BY <1>1, Zenon DEF App, AppConnect, AppShutdown, AppClose, AppRecv, AppSend, RtxTimerFires,
                OrphanFires, TimeWaitFires
  <1>2. CASE EvConnect
    BY <1>2, ConnectFirst
  <1>3. CASE EvSend \/ EvRtx
    BY <1>3, TxFinLast DEF EvSend, EvRtx, Take
  <1>4. ASSUME NEW s \in Segments, Rx(s) PROVE FinLast
    <2>1. \A o \in out' : o.flag # "FIN"
      <3>1. \/ out' = {} \/ out' = AckSeg(snd_nxt) \/ out' = DropWithReset(s)
            \/ out' = {Seg("SYN_ACK", snd_una, 0)}
        BY <1>4, ZenonT(30) DEF Rx, RxSynSentRefused, RxSynSentEstab, RxSynSentBadAck, RxSynSentSyn,
           RxSynRecvEstab, RxSynRecvReset, RxSynRecvDrop, RxReset, RxCloseAbort, RxSyn, RxDrop,
           RxBuffer, RxEstab, RxFinWait1, RxFinWait2, RxCloseWait, RxClosing, RxLastAck,
           RxTimeWait, SendChallengeAck
      <3>2. out' = {} \/ \E f \in {"ACK", "RST", "SYN_ACK"} : \E q : out' = {Seg(f, q, 0)}
        BY <3>1, ZenonT(30) DEF AckSeg, DropWithReset
      <3>3. ASSUME NEW f \in {"ACK", "RST", "SYN_ACK"}, NEW q PROVE Seg(f, q, 0).flag # "FIN"
        BY DEF Seg
      <3> QED BY <3>2, <3>3, ZenonT(30)
    <2> QED BY <2>1, Zenon
  <1> QED BY <1>1, <1>2, <1>3, <1>4, Zenon DEF Next

\* When a handler concludes that the FIN is acknowledged, so is every byte.
LEMMA FinAckedAll ==
  ASSUME TypeOK, Opening, CloseInv, FlightBounded, Next, app = "connected", FinAcked
  PROVE  r' = vw /\ snd_una' = Mask(ISS + 2 + vw)
  <1>0. state \in ClosingStates /\ state' # state /\ (state' = "CLOSED" => registered')
    BY DEF FinAcked, ClosingStates
  <1>1. CASE App \/ RtxTimerFires \/ OrphanFires \/ TimeWaitFires
    BY <1>0, <1>1, Zenon DEF App, AppConnect, AppSend, AppRecv, AppShutdown, AppClose, RtxTimerFires,
       OrphanFires, TimeWaitFires, TimerUnchanged
  <1>2. CASE EvConnect
    BY <1>2, ConnectFirst
  <1>3. ~ (EvSend \/ EvRtx)
    <2> SUFFICES ASSUME NEW nxt0, NEW vr0, NEW tm0, Tx(nxt0, vr0, tm0) PROVE FALSE
      BY DEF EvSend, EvRtx
    <2>1. state' = "CLOSED"
      BY <1>0, TxStates
    <2>2. TxAbort(nxt0, vr0)
      BY <1>0, <2>1, TxStates, ZenonT(30) DEF Tx, TxData, TxSpin, TxFin, TxAckOrNothing, TxSyn, TxNoHandler
    <2>3. registered' = FALSE
      BY <2>2 DEF TxAbort, Abort
    <2> QED BY <1>0, <2>1, <2>3
  <1>4. ASSUME NEW s \in Segments, Rx(s) PROVE r' = vw /\ snd_una' = Mask(ISS + 2 + vw)
    <2>1. RxFinWait1(s) \/ RxClosing(s) \/ RxLastAck(s)
      BY <1>0, <1>4, ZenonT(30) DEF Rx, RxSynSentRefused, RxSynSentEstab, RxSynSentBadAck,
         RxSynSentSyn, RxSynRecvEstab, RxSynRecvReset, RxSynRecvDrop, RxSynRecvGuard, RxReset,
         RxCloseAbort, Abort, RxSyn, RxDrop, RxBuffer, RxEstab, RxFinWait2, RxCloseWait, RxTimeWait,
         ClosingStates
    <2>2. r' = vw /\ snd_una' = Pos(vw + 1)
      <3>1. state' \notin ClosingStates
        BY DEF FinAcked, ClosingStates
      <3>2. s \in Segment
        BY SegmentType
      <3> QED BY <2>1, <3>1, <3>2, RxFinAck
    <2>3. ISS + 1 + (vw + 1) = ISS + 2 + vw
      BY FsmAssumption, SeqNumNat DEF TypeOK, SndTypeOK
    <2> QED BY <2>2, <2>3 DEF Pos
  <1> QED BY <1>1, <1>2, <1>3, <1>4 DEF Next

\* What the invariant says of the properties, from the FIN on.
LEMMA CloseFacts ==
  ASSUME TypeOK, CloseInv, FlightBounded, state \notin OpenStates
  PROVE  StreamAligned /\ NothingBeyondMax
  <1>1. /\ Pos(vw + 1) = Mask(ISS + 2 + vw) /\ r \in Nat /\ vr \in Nat /\ vw \in Nat
        /\ vw - r < Half - 1 /\ Half \in Nat
    <2>1. ISS + 1 + (vw + 1) = ISS + 2 + vw
      BY FsmAssumption, SeqNumNat DEF TypeOK, SndTypeOK
    <2> QED BY <2>1, HalfAssumption DEF Pos, TypeOK, SndTypeOK, FlightBounded
  <1>2. state \in Sending => state \in ClosingStates
    BY DEF Sending, OpenStates, ClosingStates
  <1>3. StreamAligned
    <2> SUFFICES ASSUME app = "connected", state \in ClosingStates
                 PROVE  /\ r <= vr /\ vr <= vw /\ snd_una = Pos(r)
                        /\ snd_nxt = Pos(vr) \/ (sent_fin /\ vr = vw /\ snd_nxt = Pos(vw + 1))
      BY <1>1, <1>2 DEF StreamAligned, Pos
    <2> QED BY DEF CloseInv, ClosingStream
  <1>4. NothingBeyondMax
    <2> SUFFICES ASSUME app = "connected", state \in ClosingStates
                 PROVE  seq_leq(snd_una, snd_nxt) /\ seq_leq(snd_nxt, snd_max)
      BY <1>2 DEF NothingBeyondMax
    <2>1. /\ r <= vr /\ vr <= vw /\ snd_una = Pos(r) /\ snd_max = Pos(vw + 1)
          /\ snd_nxt = Pos(r) \/ snd_nxt = Pos(vw + 1)
      BY DEF CloseInv, ClosingStream
    <2>2. /\ r <= vw + 1 /\ vw + 1 \in Int /\ r - r < Half /\ r - (vw + 1) < Half
          /\ (vw + 1) - r < Half /\ (vw + 1) - (vw + 1) < Half
      BY <1>1, <2>1
    <2>3. seq_leq(Pos(r), Pos(r)) /\ seq_leq(Pos(vw + 1), Pos(vw + 1)) /\ seq_leq(Pos(r), Pos(vw + 1))
      BY <1>1, <2>2, PosOrder
    <2> QED BY <2>1, <2>3
  <1> QED BY <1>3, <1>4

\* The whole invariant of a connection that sends its writes whole.
LEMMA WholeAlways ==
  ASSUME WholeWrites
  PROVE  Spec => [](CloseInv /\ WndWhole)
  <1>1. Init => CloseInv /\ WndWhole
    BY DEF Init, CloseInv, ClosingStream, Finished, WndWhole
  <1>2. TypeOK /\ Opening /\ OpenInv /\ CloseInv /\ WndWhole /\ [Next]_vars => (CloseInv /\ WndWhole)'
    <2> SUFFICES ASSUME TypeOK, Opening, OpenInv, CloseInv, WndWhole, [Next]_vars
                 PROVE  (CloseInv /\ WndWhole)'
      OBVIOUS
    <2>1. WndWhole'
      BY WndWholeStep
    <2>2. FlightBounded /\ ~ SendAfterShutdown
      BY OpenFlight DEF WholeWrites
    <2>3. CASE Next
      BY <2>1, <2>2, <2>3, NextFinLast, CloseStep, Zenon
    <2>4. CASE UNCHANGED vars
      <3>1. UNCHANGED <<state, snd_una, snd_nxt, snd_max, r, vr, vw, sent_fin, loop, app,
                        close_requested, shutdown_requested, remote_mss>>
        BY <2>4 DEF vars, seqVars, bufVars, flagVars, reqVars, sockVars
      <3> QED BY <2>1, <3>1, CloseSame, ZenonT(30) DEF FinAsked
    <2> QED BY <2>3, <2>4
  <1>3. SndLimit < Half - 1
    BY DEF WholeWrites
  <1> QED BY <1>1, <1>2, <1>3, TypeCorrect, OpeningInvariant, OpenAlways, PTL DEF Spec

\* When writes are sent whole, every FIN follows the last byte written, the stream stays
\* aligned and in order to the end of the connection, and a graceful close loses nothing.
THEOREM WholeWritesStayAligned ==
  ASSUME WholeWrites
  PROVE  Spec => /\ [](StreamAligned /\ NothingBeyondMax)
                 /\ CloseLosesNothing
                 /\ [][app = "connected" => FinLast]_vars
  <1>0. SndLimit < Half - 1
    BY DEF WholeWrites
  <1>1. TypeOK /\ OpenInv => FlightBounded
    BY <1>0, OpenFlight
  <1>2. TypeOK /\ OpenInv /\ CloseInv /\ (state \in OpenStates => StreamAligned /\ NothingBeyondMax /\ RetransmitGuard)
           => StreamAligned /\ NothingBeyondMax
    BY <1>1, CloseFacts
  <1>3. TypeOK /\ Opening /\ OpenInv /\ CloseInv /\ [Next]_vars
           => [app = "connected" /\ FinAcked => r' = vw /\ snd_una' = Mask(ISS + 2 + vw)]_vars
    BY <1>1, FinAckedAll
  <1>4. TypeOK /\ Opening /\ OpenInv /\ CloseInv /\ WndWhole /\ [Next]_vars
           => [app = "connected" => FinLast]_vars
    BY NextFinLast
  <1> QED BY <1>0, <1>2, <1>3, <1>4, TypeCorrect, OpeningInvariant, OpenAlways, AlignedUntilFin,
             WholeAlways, PTL DEF Spec, CloseLosesNothing

-----------------------------------------------------------------------------
(* A peer that never closes its window *)

\* Every segment whose window is read leaves room to send; the window of a bare RST is not.
OpenWindows == \A s \in Segments : (s.rst /\ s.syn = 0) \/ s.wnd > 0

\* From the peer's SYN on its window is open.
WndOpen == state \notin {"CLOSED", "SYN_SENT"} => snd_wnd > 0

\* A FIN that is not acknowledged has its timer: rtx sends it again at once.
ClosingArmed == app = "connected" /\ state \in ClosingStates => rtx_timer # "none"

\* _h_rx_wnd and the handshake only take windows the peer opened.
LEMMA WndOpenStep ==
  ASSUME OpenWindows, WndOpen, [Next]_vars
  PROVE  WndOpen'
  <1> USE DEF wndVars
  <1>1. CASE App
    BY <1>1, ZenonT(30) DEF App, AppConnect, AppShutdown, AppClose, AppRecv, AppSend, WndOpen
  <1>2. CASE EvConnect
    BY <1>2 DEF EvConnect, WndOpen
  <1>3. CASE EvSend \/ EvRtx
    <2> SUFFICES ASSUME NEW nxt0, NEW vr0, NEW tm0, Tx(nxt0, vr0, tm0) PROVE WndOpen'
      BY <1>3, ZenonT(30) DEF EvSend, EvRtx
    <2>1. snd_wnd' = snd_wnd
      BY DEF Tx, TxUnchanged
    <2>2. state \in {"CLOSED", "SYN_SENT"} => state' \in {"CLOSED", "SYN_SENT"}
      BY ZenonT(30) DEF Tx, TxAbort, Abort, TxData, TxSpin, TxFin, FinDue, TxAckOrNothing, TxSyn,
         TxNoHandler, Sending
    <2> QED BY <2>1, <2>2, Zenon DEF WndOpen
  <1>4. ASSUME NEW s \in Segments, Rx(s) PROVE WndOpen'
    <2>0. (s.rst /\ s.syn = 0) \/ s.wnd > 0
      BY DEF OpenWindows
    <2>1. CASE RxSynSentEstab(s) \/ RxSynSentSyn(s)
      <3>1. s.syn = 1 /\ snd_wnd' = s.wnd
        BY <2>1 DEF RxSynSentEstab, RxSynSentSyn
      <3> QED BY <2>0, <3>1 DEF WndOpen
    <2>2. CASE RxSynRecvEstab(s)
      <3>1. s.syn = 1 /\ state = "SYN_RECV" /\ (snd_wnd' = s.wnd \/ snd_wnd' = snd_wnd)
        BY <2>2, Zenon DEF RxSynRecvEstab, RxSynRecvGuard, HRxWnd
      <3> QED BY <2>0, <3>1 DEF WndOpen
    <2>3. CASE \/ RxEstab(s) \/ RxFinWait1(s) \/ RxFinWait2(s) \/ RxCloseWait(s) \/ RxClosing(s)
               \/ RxLastAck(s)
      <3>1. ~ s.rst /\ (snd_wnd' = s.wnd \/ snd_wnd' = snd_wnd)
        BY <2>3, ZenonT(30) DEF RxEstab, RxFinWait1, RxFinWait2, RxCloseWait, RxClosing, RxLastAck,
           Ordinary, HRxWnd
      <3>2. state \notin {"CLOSED", "SYN_SENT"}
        BY <2>3 DEF RxEstab, RxFinWait1, RxFinWait2, RxCloseWait, RxClosing, RxLastAck
      <3> QED BY <2>0, <3>1, <3>2 DEF WndOpen
    <2>4. CASE \/ RxSynSentRefused(s) \/ RxSynSentBadAck(s) \/ RxSynRecvReset(s) \/ RxSynRecvDrop(s)
               \/ RxReset(s) \/ RxCloseAbort(s) \/ RxSyn(s) \/ RxDrop(s) \/ RxBuffer(s)
               \/ RxTimeWait(s)
      <3>1. snd_wnd' = snd_wnd /\ (state' = state \/ state' = "CLOSED")
        BY <2>4, ZenonT(30) DEF RxSynSentRefused, RxSynSentBadAck, RxSynRecvReset, RxSynRecvDrop,
           RxReset, RxCloseAbort, Abort, RxSyn, RxDrop, RxBuffer, RxTimeWait
      <3> QED BY <3>1, Zenon DEF WndOpen
    <2> QED BY <1>4, <2>1, <2>2, <2>3, <2>4 DEF Rx
  <1>5. CASE RtxTimerFires \/ OrphanFires \/ TimeWaitFires
    BY <1>5 DEF RtxTimerFires, OrphanFires, TimeWaitFires, TimerUnchanged, WndOpen
  <1>6. CASE UNCHANGED vars
    BY <1>6 DEF vars, WndOpen
  <1> QED BY <1>1, <1>2, <1>3, <1>4, <1>5, <1>6, ZenonT(30) DEF Next

\* The handler that sends the FIN, or sends it again, starts the timer.
LEMMA TxClosingArmed ==
  ASSUME TypeOK, OpenInv, CloseInv, FlightBounded, ClosingArmed, snd_wnd > 0, app = "connected",
         loop = "running", NEW nxt0, NEW vr0, NEW tm0, Tx(nxt0, vr0, tm0),
         \/ nxt0 = snd_nxt /\ vr0 = vr /\ tm0 = rtx_timer
         \/ nxt0 = snd_una /\ vr0 = r /\ tm0 = "none",
         state' \in ClosingStates
  PROVE  rtx_timer' # "none"
  <1>0. StartRtxTimer(tm0) # "none"
    BY DEF StartRtxTimer
  <1>1. CASE TxData(nxt0, vr0, tm0)
    BY <1>0, <1>1, ZenonT(30) DEF TxData
  <1>2. CASE state \in OpenStates
    <2>1. TxData(nxt0, vr0, tm0) \/ TxFin(nxt0, vr0, tm0)
      <3>1. state' # state /\ state' # "CLOSED"
        BY <1>2 DEF OpenStates, ClosingStates
      <3> QED BY <3>1, ZenonT(30) DEF Tx, TxAbort, Abort, TxSpin, TxAckOrNothing, TxSyn, TxNoHandler
    <2>2. ~ sent_fin
      BY <1>2 DEF OpenInv, OpenStream
    <2>3. CASE TxFin(nxt0, vr0, tm0)
      BY <1>0, <2>2, <2>3, ZenonT(30) DEF TxFin
    <2> QED BY <1>1, <2>1, <2>3
  <1>3. CASE state \in ClosingStates /\ ~ TxData(nxt0, vr0, tm0)
    <2>0. /\ sent_fin /\ snd_max = Pos(vw + 1)
          /\ tm0 # "none" \/ (nxt0 = Pos(r) /\ vr0 = r)
          /\ remote_mss = 0 => vw = 0
      BY <1>3 DEF CloseInv, ClosingStream, ClosingArmed
    <2>1. state' # "CLOSED" /\ vr0 \in Nat /\ vw \in Nat /\ Half \in Nat /\ 1 < Half
      BY HalfAssumption DEF ClosingStates, TypeOK, SndTypeOK
    <2>2. ~ TxAbort(nxt0, vr0)
      BY <2>1 DEF TxAbort, Abort
    <2>3. ~ TxSpin(nxt0, vr0, tm0)
      BY <2>0, <2>1 DEF TxSpin
    <2>4. ~ TxAckOrNothing(nxt0, vr0, tm0)
      <3>1. FinRequested /\ state # "FIN_WAIT_2"
        BY <1>3 DEF FinRequested, ClosingStates
      <3> QED BY <3>1, Zenon DEF TxAckOrNothing, FinDue
    <2>5. CASE TxFin(nxt0, vr0, tm0)
      <3>1. /\ vr0 = vw
            /\ seq_gt(snd_max, nxt0) => rtx_timer' = StartRtxTimer(tm0)
            /\ ~ seq_gt(snd_max, nxt0) => rtx_timer' = tm0
        BY <2>0, <2>5, Zenon DEF TxFin, FinDue
      <3>2. CASE tm0 # "none"
        BY <1>0, <3>1, <3>2, ZenonT(30)
      <3>3. CASE nxt0 = Pos(r) /\ vr0 = r
        <4>1. vw + 1 \in Int /\ (vw + 1) - vw < Half /\ vw - (vw + 1) < Half /\ vw + 1 > vw
          BY <2>1
        <4>2. seq_gt(Pos(vw + 1), Pos(vw))
          BY <2>1, <4>1, PosOrder
        <4> QED BY <1>0, <2>0, <3>1, <3>3, <4>2
      <3> QED BY <2>0, <3>2, <3>3
    <2>6. ~ TxSyn(nxt0, vr0, tm0) /\ ~ TxNoHandler(nxt0, vr0, tm0)
      BY <1>3 DEF TxSyn, TxNoHandler, ClosingStates
    <2> QED BY <1>3, <2>2, <2>3, <2>4, <2>5, <2>6 DEF Tx
  <1>4. state \in OpenStates \/ state \in ClosingStates
    BY TxStates, ZenonT(30) DEF Tx, TxAbort, Abort, TxData, TxSpin, TxFin, FinDue, TxAckOrNothing, TxSyn,
       TxNoHandler, Sending, OpenStates, ClosingStates
  <1> QED BY <1>1, <1>2, <1>3, <1>4

\* Only an ACK of the FIN itself stops that timer.
LEMMA ClosingArmedStep ==
  ASSUME TypeOK, Opening, OpenInv, CloseInv, FlightBounded, WndOpen, ClosingArmed, [Next]_vars
  PROVE  ClosingArmed'
  <1>1. CASE App
    <2>1. UNCHANGED <<state, rtx_timer>> /\ (app' = "connected" => app = "connected")
      BY <1>1, ZenonT(30) DEF App, AppConnect, AppSend, AppRecv, AppShutdown, AppClose, timerVars, sockVars
    <2> QED BY <2>1 DEF ClosingArmed
  <1>2. CASE EvConnect
    BY <1>2 DEF EvConnect, ClosingArmed, ClosingStates
  <1>3. CASE EvSend \/ EvRtx
    <2> SUFFICES ASSUME app' = "connected", state' \in ClosingStates PROVE rtx_timer' # "none"
      BY DEF ClosingArmed
    <2>1. PICK nxt0, vr0, tm0 :
             /\ Tx(nxt0, vr0, tm0)
             /\ \/ nxt0 = snd_nxt /\ vr0 = vr /\ tm0 = rtx_timer
                \/ nxt0 = snd_una /\ vr0 = r /\ tm0 = "none"
      BY <1>3, Zenon DEF EvSend, EvRtx
    <2>2. loop = "running"
      BY <1>3 DEF EvSend, EvRtx, Take
    <2>3. app = "connected"
      BY <2>1, TxFrame
    <2>4. state \notin {"CLOSED", "SYN_SENT"}
      <3>1. state = "CLOSED" => state' = "CLOSED"
        BY <2>1, TxFrame
      <3> QED BY <2>3, <3>1 DEF Opening, ClosingStates
    <2> QED BY <2>1, <2>2, <2>3, <2>4, TxClosingArmed DEF WndOpen
  <1>4. ASSUME NEW s \in Segments, Rx(s) PROVE ClosingArmed'
    <2>1. CASE \/ RxSynSentRefused(s) \/ RxSynSentEstab(s) \/ RxSynSentBadAck(s)
               \/ RxSynSentSyn(s) \/ RxSynRecvEstab(s) \/ RxSynRecvReset(s) \/ RxSynRecvDrop(s)
               \/ RxReset(s) \/ RxCloseAbort(s) \/ RxEstab(s) \/ RxFinWait2(s) \/ RxCloseWait(s)
               \/ RxTimeWait(s)
      <3>1. state' \notin ClosingStates
        BY <2>1, ZenonT(30) DEF RxSynSentRefused, RxSynSentEstab, RxSynSentBadAck, RxSynSentSyn,
           RxSynRecvEstab, RxSynRecvReset, RxSynRecvDrop, RxSynRecvGuard, RxReset, RxCloseAbort,
           Abort, RxEstab, RxFinWait2, EnterTimeWait, RxCloseWait, RxTimeWait, ClosingStates
      <3> QED BY <3>1 DEF ClosingArmed
    <2>2. CASE RxSyn(s) \/ RxDrop(s) \/ RxBuffer(s)
      <3>1. UNCHANGED <<state, rtx_timer, app>>
        BY <2>2, ZenonT(30) DEF RxSyn, RxDrop, RxBuffer, timerVars, sockVars
      <3> QED BY <3>1 DEF ClosingArmed
    <2>3. CASE RxFinWait1(s) \/ RxClosing(s) \/ RxLastAck(s)
      <3>1. /\ state \in ClosingStates /\ app' = app /\ RtxTimerOnAck(s)
            /\ AllAcked(s) => state' \in {"FIN_WAIT_2", "TIME_WAIT", "CLOSED"}
        BY <2>3, ZenonT(30) DEF RxFinWait1, RxClosing, RxLastAck, EnterTimeWait, sockVars,
           ClosingStates
      <3>2. AllAcked(s) => state' \notin ClosingStates
        BY <3>1 DEF ClosingStates
      <3>3. ~ AllAcked(s) => rtx_timer' = rtx_timer \/ rtx_timer' = "pending"
        BY <3>1, Zenon DEF RtxTimerOnAck
      <3> QED BY <3>1, <3>2, <3>3 DEF ClosingArmed
    <2> QED BY <1>4, <2>1, <2>2, <2>3 DEF Rx
  <1>5. CASE RtxTimerFires \/ OrphanFires \/ TimeWaitFires
    <2>1. UNCHANGED <<state, app>> /\ (rtx_timer' = rtx_timer \/ rtx_timer' = "fired")
      BY <1>5 DEF RtxTimerFires, OrphanFires, TimeWaitFires, TimerUnchanged
    <2> QED BY <2>1 DEF ClosingArmed
  <1>6. CASE UNCHANGED vars
    BY <1>6 DEF vars, timerVars, sockVars, ClosingArmed
  <1> QED BY <1>1, <1>2, <1>3, <1>4, <1>5, <1>6 DEF Next

\* Outside ESTAB and CLOSE_WAIT the timer follows from the SYN, or from ClosingArmed.
LEMMA GuardFacts ==
  ASSUME TypeOK, Opening, RtxArmed, ClosingArmed, state \notin OpenStates
  PROVE  RetransmitGuard
  <1> SUFFICES ASSUME app # "refused", state \in Outstanding
               PROVE  rtx_timer = "pending" \/ Queued("RTX")
    BY DEF RetransmitGuard
  <1>1. CASE state \in {"SYN_SENT", "SYN_RECV"}
    <2>1. snd_nxt = Mask(snd_una + 1)
      BY <1>1 DEF Opening, TypeOK, CtlTypeOK
    <2>2. snd_una \in SeqNum /\ SeqSpace > 1 /\ SeqSpace \in Nat
      BY HalfAssumption DEF TypeOK, SndTypeOK, SeqSpace
    <2>3. snd_una # snd_nxt
      BY <2>1, <2>2, MaskSucc DEF SeqNum
    <2>4. rtx_timer # "none" /\ rtx_timer \in TimerStates
      BY <2>3 DEF RtxArmed, TypeOK, CtlTypeOK
    <2> QED BY <2>4 DEF RtxArmed, TimerStates
  <1>2. CASE state \in ClosingStates
    <2>1. app = "connected"
      BY <1>2 DEF Opening, ClosingStates, TypeOK, CtlTypeOK
    <2>2. rtx_timer # "none" /\ rtx_timer \in TimerStates
      BY <1>2, <2>1 DEF ClosingArmed, TypeOK, CtlTypeOK
    <2> QED BY <2>2 DEF RtxArmed, TimerStates
  <1>3. state \in {"SYN_SENT", "SYN_RECV"} \/ state \in ClosingStates
    BY DEF Outstanding, Sending, OpenStates, ClosingStates
  <1> QED BY <1>1, <1>2, <1>3

\* When writes are sent whole and the peer keeps its window open, an unacknowledged SYN,
\* byte or FIN always has a running timer, a queued RTX, or a queued SEND that sends it:
\* no order of timers, restarts, ACKs and events forgets a retransmission.
THEOREM RetransmissionNeverForgotten ==
  ASSUME WholeWrites, OpenWindows
  PROVE  Spec => []RetransmitGuard
  <1>0. SndLimit < Half - 1
    BY DEF WholeWrites
  <1>1. Init => WndOpen /\ ClosingArmed
    BY DEF Init, WndOpen, ClosingArmed
  <1>2. TypeOK /\ Opening /\ OpenInv /\ CloseInv /\ WndOpen /\ ClosingArmed /\ [Next]_vars
           => WndOpen' /\ ClosingArmed'
    BY <1>0, OpenFlight, WndOpenStep, ClosingArmedStep
  <1>3. TypeOK /\ Opening /\ RtxArmed /\ ClosingArmed
           /\ (state \in OpenStates => StreamAligned /\ NothingBeyondMax /\ RetransmitGuard)
           => RetransmitGuard
    BY GuardFacts
  <1> QED BY <1>0, <1>1, <1>2, <1>3, TypeCorrect, OpeningInvariant, RtxArmedAlways, OpenAlways,
             AlignedUntilFin, WholeAlways, PTL DEF Spec
=============================================================================
