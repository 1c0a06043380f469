--------------------------- MODULE DatagramProofs ---------------------------
(***************************************************************************)
(* The way of a datagram out (ArpResolve) and in (IpInput).                *)
(*                                                                         *)
(* Out, for any number of threads that call tx_ip, any number of datagrams *)
(* and of timers: no datagram is transmitted twice, and neither an address *)
(* in the wait list nor an entry learnt from a reply is without a timer.   *)
(*                                                                         *)
(* In, for any set of threads that call recv() and any number of frames:   *)
(* the queue of a socket is a FIFO, and a reader that was woken finds a    *)
(* datagram in it.                                                         *)
(***************************************************************************)
EXTENDS ArpResolve, IpInput, FiniteSetTheorems, SequenceTheorems, TLAPS

\* The provers, and their seconds, for a leaf that names none
USE SMTT(30), ZenonT(30)

\* The steps at which a sender has a datagram in hand that nobody else has
Holding == {"hit", "miss", "wait_test", "wait_add", "wait_timer", "request", "put", "append", "create"}
Holds(s) == snd[s].pc \in Holding

SndSteps == Holding \cup {"idle", "log", "dead"}
SndType == [Senders -> [pc : SndSteps, d : 0 .. MaxDatagrams]]
RxSteps == {"idle", "flush", "release", "loop", "pop", "dead"}

ArpType ==
    /\ made \in 0 .. MaxDatagrams
    /\ snd \in SndType
    /\ waitTimers \in Nat /\ flushTimers \in Nat
    /\ lists \in Seq(Seq(Datagrams)) /\ cur \in 0 .. Len(lists)
    /\ rx \in [pc : RxSteps, list : Nat, i : Nat]
    /\ wire \in [Datagrams -> Nat]

\* A datagram in hand has not been transmitted, and one sender has it
InHand ==
    /\ \A s \in Senders : Holds(s) => snd[s].d \in 1 .. made /\ wire[snd[s].d] = 0
    /\ \A s, t \in Senders : Holds(s) /\ Holds(t) /\ snd[s].d = snd[t].d => s = t
    /\ \A d \in Datagrams : d > made => wire[d] = 0

\* A datagram that was queued is in nobody's hand, and once in its list
Queued ==
    \A k \in 1 .. Len(lists) : \A j \in 1 .. Len(lists[k]) :
        /\ lists[k][j] \in 1 .. made
        /\ \A s \in Senders : Holds(s) => snd[s].d # lists[k][j]
        /\ \A m \in 1 .. Len(lists[k]) : lists[k][m] = lists[k][j] => m = j

\* Nothing that a release may still reach has been transmitted: the rest of the list
\* being released, or the list in the dictionary while none is being released.
Unreleased ==
    /\ rx.pc = "loop" =>
         /\ rx.list \in 1 .. Len(lists) /\ rx.i > 0
         /\ \A j \in 1 .. Len(lists[rx.list]) : j >= rx.i => wire[lists[rx.list][j]] = 0
    /\ rx.pc \notin {"loop", "pop"} /\ cur # 0 =>
         \A j \in 1 .. Len(lists[cur]) : wire[lists[cur][j]] = 0

ArpInv == ArpType /\ InHand /\ Queued /\ Unreleased

-----------------------------------------------------------------------------
(* Types *)

\* A step of a sender leaves its datagram and the other senders alone.
LEMMA GotoKeeps ==
    ASSUME snd \in SndType, NEW s \in Senders, NEW pc \in SndSteps, Goto(s, pc)
    PROVE  /\ snd' \in SndType
           /\ snd'[s] = [pc |-> pc, d |-> snd[s].d]
           /\ \A t \in Senders \ {s} : snd'[t] = snd[t]
BY DEF SndType, Goto

\* Transmit counts one datagram.
LEMMA TransmitCounts ==
    ASSUME wire \in [Datagrams -> Nat], NEW d \in Datagrams, Transmit(d)
    PROVE  /\ wire' \in [Datagrams -> Nat]
           /\ wire'[d] = wire[d] + 1
           /\ \A e \in Datagrams \ {d} : wire'[e] = wire[e]
BY DEF Transmit

\* The loop of dequeue goes to the next datagram of the same list.
LEMMA LoopGoesOn ==
    ASSUME rx \in [pc : RxSteps, list : Nat, i : Nat], rx' = [rx EXCEPT !.i = @ + 1]
    PROVE  /\ rx' \in [pc : RxSteps, list : Nat, i : Nat]
           /\ rx'.pc = rx.pc /\ rx'.list = rx.list /\ rx'.i = rx.i + 1
OBVIOUS

\* Types, step by step
LEMMA ArpTypeStep == ArpInv /\ [Next]_vars => ArpType'
<1> SUFFICES ASSUME ArpInv, [Next]_vars PROVE ArpType'
  OBVIOUS
<1> USE ArpAssumption DEF ArpInv, ArpType
<1>1. ASSUME NEW s \in Senders, TxIp(s) PROVE ArpType'
  BY <1>1 DEF TxIp, SndType, SndSteps, Holding, arpVars, queueVars
<1>2. ASSUME NEW s \in Senders, TxEther(s) PROVE ArpType'
  <2>1. snd[s].d \in Datagrams
    BY <1>2 DEF TxEther, At, InHand, Holds, Holding, Datagrams
  <2>2. wire' \in [Datagrams -> Nat]
    BY <1>2, <2>1 DEF TxEther, Transmit
  <2> QED BY <1>2, <2>2, GotoKeeps, Zenon DEF TxEther, SndSteps, arpVars, queueVars
<1>3. ASSUME NEW s \in Senders, Unresolved(s) \/ ArpWaitTest(s) \/ PutTest(s) PROVE ArpType'
  <2>1. PICK pc \in SndSteps : Goto(s, pc)
    BY <1>3 DEF Unresolved, ArpWaitTest, PutTest, Holding, SndSteps
  <2>2. UNCHANGED <<made, arpVars, queueVars, rx, wire>>
    BY <1>3 DEF Unresolved, ArpWaitTest, PutTest
  <2> QED BY <2>1, <2>2, GotoKeeps, Zenon DEF arpVars, queueVars
<1>4. ASSUME NEW s \in Senders, ArpWaitAdd(s) \/ ArpWaitTimer(s) \/ TxArp(s) PROVE ArpType'
  <2>1. PICK pc \in SndSteps : Goto(s, pc)
    BY <1>4 DEF ArpWaitAdd, ArpWaitTimer, TxArp, Holding, SndSteps
  <2>2. snd' \in SndType
    BY <2>1, GotoKeeps, Zenon
  <2>4. waitTimers' \in Nat
    BY <1>4 DEF ArpWaitAdd, ArpWaitTimer, TxArp
  <2>3. UNCHANGED <<made, flushTimers, lists, cur, rx, wire>>
    BY <1>4 DEF ArpWaitAdd, ArpWaitTimer, TxArp, queueVars
  <2> QED BY <2>2, <2>3, <2>4, Zenon
<1>5. ASSUME NEW s \in Senders, PutAppend(s) PROVE ArpType'
  <2>1. UNCHANGED <<made, arpVars, cur, rx, wire>>
    BY <1>5 DEF PutAppend
  <2>2. snd[s].d \in Datagrams
    BY <1>5 DEF PutAppend, At, InHand, Holds, Holding, Datagrams
  <2>3. CASE cur = 0
    <3>1. PICK pc \in SndSteps : Goto(s, pc)
      BY <1>5, <2>3 DEF PutAppend, Fail, SndSteps
    <3>2. UNCHANGED lists
      BY <1>5, <2>3 DEF PutAppend
    <3> QED BY <2>1, <3>1, <3>2, GotoKeeps, Zenon DEF arpVars
  <2>4. CASE cur # 0
    <3>1. lists' = [lists EXCEPT ![cur] = Append(lists[cur], snd[s].d)]
      BY <1>5, <2>4 DEF PutAppend
    <3>2. cur \in 1 .. Len(lists) /\ lists[cur] \in Seq(Datagrams)
      BY <2>4
    <3>3. Append(lists[cur], snd[s].d) \in Seq(Datagrams)
      BY <2>2, <3>2
    <3>4. lists' \in Seq(Seq(Datagrams)) /\ Len(lists') = Len(lists)
      BY <3>1, <3>2, <3>3, ExceptSeq
    <3>5. snd' \in SndType
      BY <1>5, <2>4, GotoKeeps, Zenon DEF PutAppend, SndSteps
    <3> QED BY <2>1, <3>4, <3>5 DEF arpVars
  <2> QED BY <2>3, <2>4
<1>6. ASSUME NEW s \in Senders, PutLog(s) PROVE ArpType'
  <2>1. PICK pc \in SndSteps : Goto(s, pc)
    BY <1>6 DEF PutLog, Fail, SndSteps
  <2> QED BY <1>6, <2>1, GotoKeeps, Zenon DEF PutLog, arpVars, queueVars
<1>7. ASSUME NEW s \in Senders, PutCreate(s) PROVE ArpType'
  <2>1. snd[s].d \in Datagrams
    BY <1>7 DEF PutCreate, At, InHand, Holds, Holding, Datagrams
  <2>2. <<snd[s].d>> \in Seq(Datagrams)
    BY <2>1
  <2>3. lists' \in Seq(Seq(Datagrams)) /\ cur' \in 0 .. Len(lists')
    BY <1>7, <2>2 DEF PutCreate
  <2> QED BY <1>7, <2>3, GotoKeeps, Zenon DEF PutCreate, SndSteps, arpVars
<1>8. CASE RxReply \/ RxFlush \/ RxPop \/ RxRequest
  BY <1>8 DEF RxSteps, RxReply, RxFlush, StartFlush, RxPop, RxRequest, RxGoto, arpVars, queueVars
<1>12. CASE RxRelease
  <2>1. cur \in Nat
    BY DEF ArpType
  <2>2. rx' \in [pc : RxSteps, list : Nat, i : Nat]
    BY <1>12, <2>1, Zenon DEF RxRelease, RxSteps
  <2> QED BY <1>12, <2>2, Zenon DEF RxRelease, arpVars, queueVars
<1>9. CASE RxLoop
  <2>1. CASE rx.i <= Len(lists[rx.list])
    <3>0. rx.list \in 1 .. Len(lists) /\ rx.i \in 1 .. Len(lists[rx.list])
      BY <1>9, <2>1 DEF RxLoop, Unreleased
    <3>1. lists[rx.list][rx.i] \in Datagrams
      BY <3>0
    <3>2. Transmit(lists[rx.list][rx.i]) /\ rx' = [rx EXCEPT !.i = @ + 1]
      BY <1>9, <2>1 DEF RxLoop
    <3>3. wire' \in [Datagrams -> Nat]
      BY <3>1, <3>2, TransmitCounts, Zenon
    <3>4. rx' \in [pc : RxSteps, list : Nat, i : Nat]
      BY <3>2, LoopGoesOn
    <3> QED BY <1>9, <3>3, <3>4, Zenon DEF RxLoop, arpVars, queueVars
  <2>2. CASE ~ (rx.i <= Len(lists[rx.list]))
    BY <1>9, <2>2 DEF RxSteps, RxLoop, RxGoto, arpVars, queueVars
  <2> QED BY <2>1, <2>2
<1>10. CASE WaitTimeout \/ FlushTimeout
  BY <1>10 DEF WaitTimeout, FlushTimeout, queueVars
<1>11. CASE UNCHANGED vars
  BY <1>11 DEF vars, arpVars, queueVars
<1> QED BY <1>1, <1>2, <1>3, <1>4, <1>5, <1>6, <1>7, <1>8, <1>9, <1>10, <1>11, <1>12, ZenonT(30)
        DEF Next, Sender
-----------------------------------------------------------------------------
(* Where datagrams are *)

\* The invariant but for the types
Placed == InHand /\ Queued /\ Unreleased

\* Senders only go on, or give their datagram up: nothing else moves.
LEMMA HandsOnlyLose ==
    ASSUME Placed, UNCHANGED <<made, lists, cur, rx, wire>>,
           \A s \in Senders : Holds(s)' => Holds(s) /\ snd'[s].d = snd[s].d
    PROVE  Placed'
<1>1. InHand'
  BY DEF Placed, InHand
<1>2. Queued'
  BY DEF Placed, Queued
<1>3. Unreleased'
  BY DEF Placed, Unreleased
<1> QED BY <1>1, <1>2, <1>3 DEF Placed

\* tx_ip: the sender's datagram is a new one
LEMMA TxIpPlaced ==
    ASSUME ArpInv, NEW s \in Senders, TxIp(s)
    PROVE  Placed'
<1>1. /\ made \in Nat /\ made + 1 \in Datagrams /\ made' = made + 1
      /\ UNCHANGED <<lists, cur, rx, wire>>
  BY ArpAssumption DEF ArpInv, ArpType, TxIp, Datagrams, queueVars
<1>2. snd'[s].d = made + 1 /\ \A t \in Senders \ {s} : snd'[t] = snd[t]
  BY DEF TxIp, ArpInv, ArpType, SndType
<1>3. \A t \in Senders : Holds(t)' =>
          \/ t = s /\ snd'[t].d = made + 1
          \/ t # s /\ snd'[t].d \in 1 .. made /\ snd'[t] = snd[t] /\ Holds(t)
  <2> SUFFICES ASSUME NEW t \in Senders, Holds(t)', t # s
               PROVE  snd'[t].d \in 1 .. made /\ snd'[t] = snd[t] /\ Holds(t)
    BY <1>2
  <2>1. snd'[t] = snd[t]
    BY <1>2
  <2>2. Holds(t)
    BY <2>1 DEF Holds
  <2> QED BY <2>1, <2>2 DEF ArpInv, InHand
<1>4. wire[made + 1] = 0 /\ \A n \in 1 .. made : n # made + 1
  BY <1>1 DEF ArpInv, InHand
<1>5. InHand'
  <2>1. \A t \in Senders : Holds(t)' => snd'[t].d \in 1 .. made' /\ wire'[snd'[t].d] = 0
    BY <1>1, <1>3, <1>4 DEF ArpInv, InHand
  <2>2. \A t, u \in Senders : Holds(t)' /\ Holds(u)' /\ snd'[t].d = snd'[u].d => t = u
    BY <1>3, <1>4 DEF ArpInv, InHand
  <2>3. \A d \in Datagrams : d > made' => wire'[d] = 0
    BY <1>1 DEF ArpInv, InHand, Datagrams
  <2> QED BY <2>1, <2>2, <2>3 DEF InHand
<1>6. Queued'
  <2> SUFFICES ASSUME NEW k \in 1 .. Len(lists), NEW j \in 1 .. Len(lists[k])
               PROVE  /\ lists[k][j] \in 1 .. made'
                      /\ \A t \in Senders : Holds(t)' => snd'[t].d # lists[k][j]
                      /\ \A m \in 1 .. Len(lists[k]) : lists[k][m] = lists[k][j] => m = j
    BY <1>1 DEF Queued
  <2>1. /\ lists[k][j] \in 1 .. made
        /\ \A t \in Senders : Holds(t) => snd[t].d # lists[k][j]
        /\ \A m \in 1 .. Len(lists[k]) : lists[k][m] = lists[k][j] => m = j
    BY DEF ArpInv, Queued
  <2>2. lists[k][j] \in 1 .. made' /\ lists[k][j] # made + 1
    BY <1>1, <2>1
  <2> QED BY <1>3, <2>1, <2>2
<1>7. Unreleased'
  BY <1>1 DEF ArpInv, Unreleased
<1> QED BY <1>5, <1>6, <1>7 DEF Placed

\* A datagram is transmitted that nobody holds any longer and no release can reach.
LEMMA TransmitPlaced ==
    ASSUME wire \in [Datagrams -> Nat], NEW d \in Datagrams, Transmit(d), Placed,
           UNCHANGED <<made, lists, cur>>, d \in 1 .. made, made \in Nat,
           \A s \in Senders : Holds(s)' => Holds(s) /\ snd'[s].d = snd[s].d /\ snd[s].d # d,
           Len(lists) \in Nat,
           \A k \in 1 .. Len(lists) : lists[k] \in Seq(Datagrams),
           cur \in 0 .. Len(lists),
           rx'.pc = "loop" =>
              /\ rx.pc = "loop" /\ rx'.list = rx.list /\ rx'.i > 0
              /\ \A j \in 1 .. Len(lists[rx.list]) : j >= rx'.i => j >= rx.i /\ lists[rx.list][j] # d,
           rx'.pc \notin {"loop", "pop"} =>
              /\ rx.pc \notin {"loop", "pop"}
              /\ cur # 0 => \A j \in 1 .. Len(lists[cur]) : lists[cur][j] # d
    PROVE  Placed'
<1>1. \A e \in Datagrams \ {d} : wire'[e] = wire[e]
  BY TransmitCounts
<1>2. InHand'
  <2>1. \A s \in Senders : Holds(s)' => snd'[s].d \in 1 .. made' /\ wire'[snd'[s].d] = 0
    <3> SUFFICES ASSUME NEW s \in Senders, Holds(s)'
                 PROVE  snd'[s].d \in 1 .. made' /\ wire'[snd'[s].d] = 0
      OBVIOUS
    <3>1. Holds(s) /\ snd'[s].d = snd[s].d /\ snd[s].d # d
      OBVIOUS
    <3>2. snd[s].d \in 1 .. made /\ wire[snd[s].d] = 0
      BY <3>1 DEF Placed, InHand
    <3> QED BY <1>1, <3>1, <3>2 DEF Transmit
  <2>2. \A s, t \in Senders : Holds(s)' /\ Holds(t)' /\ snd'[s].d = snd'[t].d => s = t
    BY DEF Placed, InHand
  <2>3. \A e \in Datagrams : e > made' => wire'[e] = 0
    BY <1>1 DEF Placed, InHand
  <2> QED BY <2>1, <2>2, <2>3 DEF InHand
<1>3. Queued'
  BY DEF Placed, Queued
<1>4. Unreleased'
  <2>1. ASSUME rx'.pc = "loop", NEW j \in 1 .. Len(lists[rx.list]), j >= rx'.i
        PROVE  wire'[lists[rx.list][j]] = 0
    <3>1. rx.list \in 1 .. Len(lists) /\ wire[lists[rx.list][j]] = 0 /\ lists[rx.list][j] # d
      BY <2>1, Zenon DEF Placed, Unreleased
    <3>2. lists[rx.list][j] \in Datagrams
      BY <3>1
    <3> QED BY <1>1, <3>1, <3>2, Zenon
  <2>2. ASSUME rx'.pc \notin {"loop", "pop"}, cur # 0, NEW j \in 1 .. Len(lists[cur])
        PROVE  wire'[lists[cur][j]] = 0
    <3>1. cur \in 1 .. Len(lists) /\ wire[lists[cur][j]] = 0 /\ lists[cur][j] # d
      BY <2>2 DEF Placed, Unreleased
    <3>2. lists[cur][j] \in Datagrams
      BY <3>1
    <3> QED BY <1>1, <3>1, <3>2, Zenon
  <2>3. rx'.pc = "loop" => rx'.list = rx.list /\ rx.list \in 1 .. Len(lists) /\ rx'.i > 0
    BY DEF Placed, Unreleased
  <2> QED BY <2>1, <2>2, <2>3 DEF Unreleased
<1> QED BY <1>2, <1>3, <1>4 DEF Placed
\* tx_ip with the address known
LEMMA TxEtherPlaced ==
    ASSUME ArpInv, NEW s \in Senders, TxEther(s)
    PROVE  Placed'
<1> DEFINE d == snd[s].d
<1>1. Transmit(d) /\ Goto(s, "idle") /\ UNCHANGED <<made, lists, cur, rx>> /\ Holds(s)
  BY DEF TxEther, queueVars, At, Holds, Holding
<1>2. d \in 1 .. made /\ d \in Datagrams /\ made \in Nat
  BY <1>1, ArpAssumption DEF ArpInv, ArpType, InHand, Datagrams
<1>3. snd'[s].pc = "idle" /\ \A t \in Senders \ {s} : snd'[t] = snd[t]
  <2>1. snd \in SndType /\ "idle" \in SndSteps
    BY DEF ArpInv, ArpType, SndSteps
  <2>2. /\ snd'[s] = [pc |-> "idle", d |-> snd[s].d]
        /\ \A t \in Senders \ {s} : snd'[t] = snd[t]
    BY <1>1, <2>1, GotoKeeps
  <2> QED BY <2>2
<1>4. \A t \in Senders : Holds(t)' => Holds(t) /\ snd'[t].d = snd[t].d /\ snd[t].d # d
  <2> SUFFICES ASSUME NEW t \in Senders, Holds(t)'
               PROVE  Holds(t) /\ snd'[t].d = snd[t].d /\ snd[t].d # d
    OBVIOUS
  <2>1. t # s
    BY <1>3 DEF Holds, Holding
  <2>2. snd'[t] = snd[t] /\ Holds(t)
    BY <1>3, <2>1 DEF Holds
  <2> QED BY <1>1, <2>1, <2>2 DEF ArpInv, InHand
<1>5. \A k \in 1 .. Len(lists) : \A j \in 1 .. Len(lists[k]) : lists[k][j] # d
  BY <1>1 DEF ArpInv, Queued
<1>6. Len(lists) \in Nat /\ (\A k \in 1 .. Len(lists) : lists[k] \in Seq(Datagrams))
      /\ cur \in 0 .. Len(lists) /\ wire \in [Datagrams -> Nat]
  BY DEF ArpInv, ArpType
<1>7. rx.pc = "loop" => rx.list \in 1 .. Len(lists) /\ rx.i > 0
  BY DEF ArpInv, Unreleased
<1>8. Placed
  BY DEF ArpInv, Placed
<1> HIDE DEF d
<1>9. rx'.pc = "loop" =>
        /\ rx.pc = "loop" /\ rx'.list = rx.list /\ rx'.i > 0
        /\ \A j \in 1 .. Len(lists[rx.list]) : j >= rx'.i => j >= rx.i /\ lists[rx.list][j] # d
  BY <1>1, <1>5, <1>7
<1>10. rx'.pc \notin {"loop", "pop"} =>
        /\ rx.pc \notin {"loop", "pop"}
        /\ cur # 0 => \A j \in 1 .. Len(lists[cur]) : lists[cur][j] # d
  BY <1>1, <1>5, <1>6
<1> QED BY <1>1, <1>2, <1>4, <1>6, <1>8, <1>9, <1>10, TransmitPlaced, ZenonT(30)

\* The loop of ip_cache.dequeue
LEMMA RxLoopPlaced ==
    ASSUME ArpInv, RxLoop
    PROVE  Placed'
<1>1. Placed /\ rx.list \in 1 .. Len(lists) /\ rx.i > 0 /\ rx.i \in Nat
  BY DEF ArpInv, ArpType, Placed, Unreleased, RxLoop
<1>2. UNCHANGED <<made, snd, lists, cur>> /\ rx.pc = "loop"
  BY DEF RxLoop, queueVars
<1>3. Len(lists) \in Nat /\ (\A k \in 1 .. Len(lists) : lists[k] \in Seq(Datagrams))
      /\ cur \in 0 .. Len(lists) /\ wire \in [Datagrams -> Nat]
  BY DEF ArpInv, ArpType
<1>4. CASE rx.i <= Len(lists[rx.list])
  <2> DEFINE d == lists[rx.list][rx.i]
  <2>1. Transmit(d) /\ rx' = [rx EXCEPT !.i = @ + 1]
    BY <1>4 DEF RxLoop
  <2>2. rx'.pc = "loop" /\ rx'.list = rx.list /\ rx'.i = rx.i + 1
    BY <1>2, <2>1, LoopGoesOn DEF ArpInv, ArpType
  <2>3. rx.i \in 1 .. Len(lists[rx.list]) /\ lists[rx.list] \in Seq(Datagrams)
    BY <1>1, <1>3, <1>4
  <2>4. d \in Datagrams /\ d \in 1 .. made
    BY <1>1, <2>3 DEF ArpInv, Queued
  <2>5. \A s \in Senders : Holds(s)' => Holds(s) /\ snd'[s].d = snd[s].d /\ snd[s].d # d
    BY <1>1, <1>2, <2>3 DEF ArpInv, Queued, Holds
  <2>6. \A j \in 1 .. Len(lists[rx.list]) : lists[rx.list][j] = d => j = rx.i
    BY <1>1, <2>3 DEF ArpInv, Queued
  <2>7. \A j \in 1 .. Len(lists[rx.list]) : j >= rx'.i => j >= rx.i /\ j # rx.i
    BY <1>1, <2>2, <2>3
  <2>8. made \in Nat /\ rx'.i > 0
    BY <1>1, <2>2, ArpAssumption DEF ArpInv, ArpType
  <2> HIDE DEF d
  <2> QED BY <1>1, <1>2, <1>3, <2>1, <2>2, <2>4, <2>5, <2>6, <2>7, <2>8, TransmitPlaced, ZenonT(30)
<1>5. CASE ~ (rx.i <= Len(lists[rx.list]))
  <2>1. rx'.pc = "pop" /\ wire' = wire
    BY <1>5 DEF RxLoop, RxGoto, ArpInv, ArpType
  <2>2. InHand' /\ Queued'
    BY <1>1, <1>2, <2>1 DEF Placed, InHand, Queued, Holds
  <2> QED BY <2>1, <2>2 DEF Placed, Unreleased
<1> QED BY <1>4, <1>5

\* ip_cache.enqueue, in a list that is there
LEMMA PutAppendPlaced ==
    ASSUME ArpInv, NEW s \in Senders, PutAppend(s), cur # 0
    PROVE  Placed'
<1> DEFINE d == snd[s].d
<1>1. /\ Goto(s, "log") /\ lists' = [lists EXCEPT ![cur] = Append(lists[cur], d)]
      /\ UNCHANGED <<made, cur, rx, wire>> /\ Holds(s)
  BY DEF PutAppend, At, Holds, Holding
<1>2. d \in 1 .. made /\ d \in Datagrams /\ made \in Nat /\ wire[d] = 0
  BY <1>1, ArpAssumption DEF ArpInv, ArpType, InHand, Datagrams
<1>3. snd'[s].pc = "log" /\ \A t \in Senders \ {s} : snd'[t] = snd[t]
  <2>1. snd \in SndType /\ "log" \in SndSteps
    BY DEF ArpInv, ArpType, SndSteps
  <2>2. /\ snd'[s] = [pc |-> "log", d |-> snd[s].d]
        /\ \A t \in Senders \ {s} : snd'[t] = snd[t]
    BY <1>1, <2>1, GotoKeeps
  <2> QED BY <2>2
<1>4. \A t \in Senders : Holds(t)' => Holds(t) /\ snd'[t].d = snd[t].d /\ snd[t].d # d
  <2> SUFFICES ASSUME NEW t \in Senders, Holds(t)'
               PROVE  Holds(t) /\ snd'[t].d = snd[t].d /\ snd[t].d # d
    OBVIOUS
  <2>1. t # s
    BY <1>3 DEF Holds, Holding
  <2>2. snd'[t] = snd[t] /\ Holds(t)
    BY <1>3, <2>1 DEF Holds
  <2> QED BY <1>1, <2>1, <2>2 DEF ArpInv, InHand
<1>5. cur \in 1 .. Len(lists) /\ lists \in Seq(Seq(Datagrams)) /\ lists[cur] \in Seq(Datagrams)
  BY DEF ArpInv, ArpType
<1> DEFINE n == Len(lists[cur])
<1>6. /\ Len(lists') = Len(lists) /\ n \in Nat
      /\ \A k \in 1 .. Len(lists) \ {cur} : lists'[k] = lists[k]
      /\ lists'[cur] = Append(lists[cur], d)
  BY <1>1, <1>5
<1>7. /\ Len(lists'[cur]) = n + 1 /\ lists'[cur][n + 1] = d
      /\ \A j \in 1 .. n : lists'[cur][j] = lists[cur][j]
  BY <1>2, <1>5, <1>6
<1>8. \A k \in 1 .. Len(lists) : \A j \in 1 .. Len(lists[k]) :
          /\ lists[k][j] \in 1 .. made /\ lists[k][j] # d
          /\ \A t \in Senders : Holds(t) => snd[t].d # lists[k][j]
          /\ \A m \in 1 .. Len(lists[k]) : lists[k][m] = lists[k][j] => m = j
  BY <1>1 DEF ArpInv, Queued
<1> HIDE DEF d, n
<1>9. InHand'
  BY <1>1, <1>4 DEF ArpInv, InHand
<1>10. Queued'
  <2> SUFFICES ASSUME NEW k \in 1 .. Len(lists), NEW j \in 1 .. Len(lists'[k])
               PROVE  /\ lists'[k][j] \in 1 .. made
                      /\ \A t \in Senders : Holds(t)' => snd'[t].d # lists'[k][j]
                      /\ \A m \in 1 .. Len(lists'[k]) : lists'[k][m] = lists'[k][j] => m = j
    BY <1>1, <1>6 DEF Queued
  <2>1. CASE k # cur
    BY <1>4, <1>6, <1>8, <2>1
  <2>2. CASE k = cur
    <3>1. j \in 1 .. n \/ j = n + 1
      BY <1>6, <1>7, <2>2
    <3>2. \A i \in 1 .. n : lists'[cur][i] = lists[cur][i] /\ lists[cur][i] # d
      BY <1>5, <1>7, <1>8 DEF n
    <3>3. lists'[k][j] \in 1 .. made
      BY <1>2, <1>5, <1>7, <1>8, <2>2, <3>1, ZenonT(30) DEF n
    <3>4. \A t \in Senders : Holds(t)' => snd'[t].d # lists'[k][j]
      <4>1. CASE j \in 1 .. n
        <5>1. lists'[k][j] = lists[cur][j]
          BY <2>2, <3>2, <4>1
        <5>2. \A t \in Senders : Holds(t) => snd[t].d # lists[cur][j]
          BY <1>5, <1>8, <4>1, ZenonT(30) DEF n
        <5> QED BY <1>4, <5>1, <5>2
      <4>2. CASE j = n + 1
        BY <1>4, <1>7, <2>2, <4>2
      <4> QED BY <3>1, <4>1, <4>2
    <3>5. ASSUME NEW m \in 1 .. Len(lists'[k]), lists'[k][m] = lists'[k][j] PROVE m = j
      <4>1. m \in 1 .. n \/ m = n + 1
        BY <1>6, <1>7, <2>2
      <4>2. CASE m \in 1 .. n /\ j \in 1 .. n
        BY <1>5, <1>8, <2>2, <3>2, <3>5, <4>2 DEF n
      <4>3. CASE m = n + 1 \/ j = n + 1
        BY <1>7, <2>2, <3>1, <3>2, <3>5, <4>1, <4>3
      <4> QED BY <3>1, <4>1, <4>2, <4>3
    <3> QED BY <3>3, <3>4, <3>5
  <2> QED BY <2>1, <2>2
<1>11. \A k \in 1 .. Len(lists) : \A j \in 1 .. Len(lists'[k]) :
           (j \in 1 .. Len(lists[k]) /\ lists'[k][j] = lists[k][j]) \/ lists'[k][j] = d
  BY <1>6, <1>7 DEF n
<1>12. Unreleased'
  <2>1. rx.pc = "loop" => rx.list \in 1 .. Len(lists) /\ rx.i > 0
    BY DEF ArpInv, Unreleased
  <2>2. ASSUME rx.pc = "loop", NEW j \in 1 .. Len(lists'[rx.list]), j >= rx.i
        PROVE  wire[lists'[rx.list][j]] = 0
    BY <1>2, <1>11, <2>1, <2>2, Zenon DEF ArpInv, Unreleased
  <2>3. ASSUME rx.pc \notin {"loop", "pop"}, NEW j \in 1 .. Len(lists'[cur])
        PROVE  wire[lists'[cur][j]] = 0
    BY <1>2, <1>5, <1>11, <2>3, ZenonT(30) DEF ArpInv, Unreleased
  <2> QED BY <1>1, <1>6, <2>1, <2>2, <2>3 DEF Unreleased
<1> QED BY <1>9, <1>10, <1>12 DEF Placed
\* ip_cache.enqueue, with a list of its own
LEMMA PutCreatePlaced ==
    ASSUME ArpInv, NEW s \in Senders, PutCreate(s)
    PROVE  Placed'
<1> DEFINE d == snd[s].d
           n == Len(lists)
<1>1. /\ Goto(s, "idle") /\ lists' = Append(lists, <<d>>) /\ cur' = n + 1
      /\ UNCHANGED <<made, rx, wire>> /\ Holds(s)
  BY DEF PutCreate, At, Holds, Holding
<1>2. d \in 1 .. made /\ d \in Datagrams /\ made \in Nat /\ wire[d] = 0
  <2>1. d \in 1 .. made /\ wire[d] = 0
    BY <1>1, Zenon DEF ArpInv, InHand
  <2>2. made \in 0 .. MaxDatagrams
    BY DEF ArpInv, ArpType
  <2> QED BY <2>1, <2>2, ArpAssumption DEF Datagrams
<1>3. snd'[s].pc = "idle" /\ \A t \in Senders \ {s} : snd'[t] = snd[t]
  <2>1. snd \in SndType /\ "idle" \in SndSteps
    BY DEF ArpInv, ArpType, SndSteps
  <2>2. /\ snd'[s] = [pc |-> "idle", d |-> snd[s].d]
        /\ \A t \in Senders \ {s} : snd'[t] = snd[t]
    BY <1>1, <2>1, GotoKeeps
  <2> QED BY <2>2
<1>4. \A t \in Senders : Holds(t)' => Holds(t) /\ snd'[t].d = snd[t].d /\ snd[t].d # d
  <2> SUFFICES ASSUME NEW t \in Senders, Holds(t)'
               PROVE  Holds(t) /\ snd'[t].d = snd[t].d /\ snd[t].d # d
    OBVIOUS
  <2>1. t # s
    BY <1>3 DEF Holds, Holding
  <2>2. snd'[t] = snd[t] /\ Holds(t)
    BY <1>3, <2>1 DEF Holds
  <2> QED BY <1>1, <2>1, <2>2 DEF ArpInv, InHand
<1>5. lists \in Seq(Seq(Datagrams)) /\ n \in Nat /\ <<d>> \in Seq(Datagrams)
  BY <1>2 DEF ArpInv, ArpType
<1>6. /\ Len(lists') = n + 1 /\ lists'[n + 1] = <<d>>
      /\ \A k \in 1 .. n : lists'[k] = lists[k]
  BY <1>1, <1>5
<1>7. Len(lists'[n + 1]) = 1 /\ lists'[n + 1][1] = d
  BY <1>6
<1>8. \A k \in 1 .. Len(lists) : \A j \in 1 .. Len(lists[k]) :
          /\ lists[k][j] \in 1 .. made
          /\ \A t \in Senders : Holds(t) => snd[t].d # lists[k][j]
          /\ \A m \in 1 .. Len(lists[k]) : lists[k][m] = lists[k][j] => m = j
  BY DEF ArpInv, Queued
<1> HIDE DEF d
<1>9. InHand'
  BY <1>1, <1>4 DEF ArpInv, InHand
<1>10. Queued'
  <2> SUFFICES ASSUME NEW k \in 1 .. n + 1, NEW j \in 1 .. Len(lists'[k])
               PROVE  /\ lists'[k][j] \in 1 .. made
                      /\ \A t \in Senders : Holds(t)' => snd'[t].d # lists'[k][j]
                      /\ \A m \in 1 .. Len(lists'[k]) : lists'[k][m] = lists'[k][j] => m = j
    BY <1>1, <1>6 DEF Queued
  <2>1. CASE k \in 1 .. n
    BY <1>4, <1>6, <1>8, <2>1
  <2>2. CASE k = n + 1
    <3>0. Len(lists'[k]) = 1
      BY <1>7, <2>2
    <3>1. j = 1 /\ \A m \in 1 .. Len(lists'[k]) : m = 1
      BY <3>0
    <3> QED BY <1>2, <1>4, <1>7, <2>2, <3>1
  <2> QED BY <1>5, <2>1, <2>2
<1>11. Unreleased'
  <2>1. rx.pc = "loop" =>
          /\ rx.list \in 1 .. n /\ rx.i > 0
          /\ \A j \in 1 .. Len(lists[rx.list]) : j >= rx.i => wire[lists[rx.list][j]] = 0
    BY DEF ArpInv, Unreleased
  <2>2. rx.pc = "loop" => rx.list \in 1 .. n + 1 /\ lists'[rx.list] = lists[rx.list]
    BY <1>5, <1>6, <2>1
  <2>3. \A j \in 1 .. Len(lists'[n + 1]) : wire[lists'[n + 1][j]] = 0
    BY <1>2, <1>7
  <2> HIDE DEF n
  <2> QED BY <1>1, <1>6, <2>1, <2>2, <2>3 DEF Unreleased
<1> QED BY <1>9, <1>10, <1>11 DEF Placed

\* The places of datagrams, step by step
LEMMA PlacedStep == ArpInv /\ [Next]_vars => Placed'
<1> SUFFICES ASSUME ArpInv, [Next]_vars PROVE Placed'
  OBVIOUS
<1>0. Placed /\ snd \in SndType /\ rx \in [pc : RxSteps, list : Nat, i : Nat]
  BY DEF ArpInv, ArpType, Placed
<1>1. ASSUME NEW s \in Senders, NEW pc \in SndSteps, Goto(s, pc), pc \in Holding => Holds(s),
             UNCHANGED <<made, lists, cur, rx, wire>>
      PROVE  Placed'
  <2>1. /\ snd'[s] = [pc |-> pc, d |-> snd[s].d]
        /\ \A t \in Senders \ {s} : snd'[t] = snd[t]
    BY <1>0, <1>1, GotoKeeps
  <2>2. \A t \in Senders : Holds(t)' => Holds(t) /\ snd'[t].d = snd[t].d
    <3> SUFFICES ASSUME NEW t \in Senders, Holds(t)' PROVE Holds(t) /\ snd'[t].d = snd[t].d
      OBVIOUS
    <3>1. CASE t = s
      BY <1>1, <2>1, <3>1 DEF Holds
    <3>2. CASE t # s
      BY <2>1, <3>2 DEF Holds
    <3> QED BY <3>1, <3>2
  <2> QED BY <1>0, <1>1, <2>2, HandsOnlyLose
<1>2. ASSUME NEW s \in Senders, Sender(s) PROVE Placed'
  <2>1. CASE TxIp(s)
    BY <2>1, TxIpPlaced
  <2>2. CASE TxEther(s)
    BY <2>2, TxEtherPlaced
  <2>3. CASE Unresolved(s) \/ ArpWaitTest(s) \/ ArpWaitAdd(s) \/ ArpWaitTimer(s) \/ TxArp(s) \/ PutTest(s)
    <3>1. \E pc \in Holding : Goto(s, pc)
      BY <2>3 DEF Unresolved, ArpWaitTest, ArpWaitAdd, ArpWaitTimer, TxArp, PutTest, Holding
    <3>2. Holds(s)
      BY <2>3 DEF Unresolved, ArpWaitTest, ArpWaitAdd, ArpWaitTimer, TxArp, PutTest, At, Holds, Holding
    <3>3. UNCHANGED <<made, lists, cur, rx, wire>>
      BY <2>3 DEF Unresolved, ArpWaitTest, ArpWaitAdd, ArpWaitTimer, TxArp, PutTest, queueVars
    <3>4. Holding \subseteq SndSteps
      BY DEF SndSteps
    <3> QED BY <1>1, <3>1, <3>2, <3>3, <3>4
  <2>4. CASE (PutAppend(s) /\ cur = 0) \/ PutLog(s)
    <3>1. \E pc \in SndSteps \ Holding : Goto(s, pc)
      BY <2>4 DEF PutAppend, PutLog, Fail, SndSteps, Holding
    <3>2. UNCHANGED <<made, lists, cur, rx, wire>>
      BY <2>4 DEF PutAppend, PutLog, queueVars
    <3> QED BY <1>1, <3>1, <3>2
  <2>5. CASE PutAppend(s) /\ cur # 0
    BY <2>5, PutAppendPlaced
  <2>6. CASE PutCreate(s)
    BY <2>6, PutCreatePlaced
  <2> QED BY <1>2, <2>1, <2>2, <2>3, <2>4, <2>5, <2>6 DEF Sender
<1>3. CASE RxLoop
  BY <1>3, RxLoopPlaced
<1>4. CASE UNCHANGED <<made, snd, lists, wire>> /\ Unreleased'
  BY <1>0, <1>4 DEF Placed, InHand, Queued, Holds
<1>5. CASE RxReply \/ RxFlush
  <2>1. rx.pc \notin {"loop", "pop"} /\ rx'.pc \notin {"loop", "pop"}
    BY <1>0, <1>5 DEF RxReply, RxFlush, RxGoto
  <2>2. UNCHANGED <<made, snd, lists, cur, wire>>
    BY <1>5 DEF RxReply, RxFlush, queueVars
  <2> QED BY <1>0, <1>4, <2>1, <2>2 DEF Placed, Unreleased
<1>6. CASE RxRelease
  <2>1. UNCHANGED <<made, snd, lists, cur, wire>> /\ rx.pc = "release"
    BY <1>6 DEF RxRelease, queueVars
  <2>2. CASE cur = 0
    BY <1>0, <1>4, <1>6, <2>1, <2>2 DEF RxRelease, Unreleased
  <2>3. CASE cur # 0
    <3>1. rx'.pc = "loop" /\ rx'.list = cur /\ rx'.i = 1 /\ cur \in 1 .. Len(lists)
      BY <1>6, <2>3 DEF RxRelease, ArpInv, ArpType
    <3>2. \A j \in 1 .. Len(lists[cur]) : wire[lists[cur][j]] = 0
      BY <2>1, <2>3 DEF ArpInv, Unreleased
    <3> QED BY <1>4, <2>1, <3>1, <3>2 DEF Unreleased
  <2> QED BY <2>2, <2>3
<1>7. CASE RxPop
  <2>1. UNCHANGED <<made, snd, lists, wire>> /\ cur' = 0 /\ rx'.pc = "idle"
    BY <1>0, <1>7 DEF RxPop, RxGoto
  <2> QED BY <1>4, <2>1 DEF Unreleased
<1>8. CASE RxRequest \/ WaitTimeout \/ FlushTimeout \/ UNCHANGED vars
  <2>1. UNCHANGED <<made, snd, lists, cur, wire, rx>>
    BY <1>8 DEF RxRequest, WaitTimeout, FlushTimeout, vars, queueVars
  <2> QED BY <1>0, <1>4, <2>1 DEF Placed, Unreleased
<1> QED BY <1>2, <1>3, <1>5, <1>6, <1>7, <1>8, Zenon DEF Next

\* What is transmitted had not been.
LEMMA OnceStep == ArpInv /\ AtMostOnce /\ [Next]_vars => AtMostOnce'
<1> SUFFICES ASSUME ArpInv, AtMostOnce, [Next]_vars PROVE AtMostOnce'
  OBVIOUS
<1>1. ASSUME NEW d \in Datagrams, Transmit(d), wire[d] = 0 PROVE AtMostOnce'
  <2>1. wire'[d] = 1 /\ \A e \in Datagrams \ {d} : wire'[e] = wire[e]
    BY <1>1, TransmitCounts DEF ArpInv, ArpType
  <2> QED BY <2>1 DEF AtMostOnce
<1>2. ASSUME NEW s \in Senders, TxEther(s) PROVE AtMostOnce'
  <2>1. Holds(s) /\ Transmit(snd[s].d)
    BY <1>2 DEF TxEther, At, Holds, Holding
  <2>2. snd[s].d \in Datagrams /\ wire[snd[s].d] = 0
    BY <2>1, ArpAssumption DEF ArpInv, ArpType, InHand, Datagrams
  <2> QED BY <1>1, <2>1, <2>2
<1>3. CASE RxLoop
  <2>1. CASE rx.i <= Len(lists[rx.list])
    <3>1. rx.list \in 1 .. Len(lists) /\ rx.i \in 1 .. Len(lists[rx.list])
      BY <1>3, <2>1 DEF RxLoop, ArpInv, ArpType, Unreleased
    <3>2. lists[rx.list][rx.i] \in Datagrams
      BY <3>1 DEF ArpInv, ArpType
    <3>3. wire[lists[rx.list][rx.i]] = 0
      BY <1>3, <3>1 DEF RxLoop, ArpInv, Unreleased
    <3>4. Transmit(lists[rx.list][rx.i])
      BY <1>3, <2>1 DEF RxLoop
    <3> QED BY <1>1, <3>2, <3>3, <3>4
  <2>2. CASE ~ (rx.i <= Len(lists[rx.list]))
    BY <1>3, <2>2 DEF RxLoop, AtMostOnce
  <2> QED BY <2>1, <2>2
<1>4. CASE wire' = wire
  BY <1>4 DEF AtMostOnce
<1>5. (\E s \in Senders : TxEther(s)) \/ RxLoop \/ wire' = wire
  BY Zenon DEF Next, Sender, TxIp, Unresolved, ArpWaitTest, ArpWaitAdd, ArpWaitTimer, TxArp, PutTest,
     PutAppend, PutLog, PutCreate, RxReply, RxFlush, RxRelease, RxPop, RxRequest, WaitTimeout, FlushTimeout, vars
<1> QED BY <1>2, <1>3, <1>4, <1>5

\* Nothing is in hand or queued initially.
LEMMA ArpInitial == Init => ArpInv
<1> SUFFICES ASSUME Init PROVE ArpInv
  OBVIOUS
<1>1. ArpType
  BY ArpAssumption DEF Init, ArpType, SndType, SndSteps, RxSteps
<1>2. InHand /\ Queued /\ Unreleased
  BY DEF Init, InHand, Queued, Unreleased, Holds, Holding
<1> QED BY <1>1, <1>2 DEF ArpInv

\* No interleaving of any number of senders, replies, releases and time-outs transmits
\* a datagram twice: tx_ip hands it either to the wire or to one list of ip_cache, and
\* dequeue goes through a list once.
THEOREM NoDatagramTwice == Spec => []AtMostOnce
<1>1. Init => ArpInv /\ AtMostOnce
  BY ArpInitial DEF Init, AtMostOnce
<1>2. ArpInv /\ AtMostOnce /\ [Next]_vars => ArpInv' /\ AtMostOnce'
  BY ArpTypeStep, PlacedStep, OnceStep DEF ArpInv, Placed
<1> QED BY <1>1, <1>2, PTL DEF Spec
-----------------------------------------------------------------------------
(* The timers of cache entries *)

\* A timer that fires takes the entry with it, and a reply that keeps an entry starts one
\* more: the timers that are left never fall short of the entry.
LEMMA TimersStep == ArpInv /\ ReplyEntryHasTimer /\ [Next]_vars => ReplyEntryHasTimer'
<1> SUFFICES ASSUME ArpInv, ReplyEntryHasTimer, [Next]_vars PROVE ReplyEntryHasTimer'
  OBVIOUS
<1>0. flushTimers \in Nat /\ rx \in [pc : RxSteps, list : Nat, i : Nat]
  BY DEF ArpInv, ArpType
<1> USE DEF ReplyEntryHasTimer
<1>1. CASE UNCHANGED <<cache, flushTimers>> /\ (rx.pc = "flush" => rx' = rx)
  BY <1>1
<1>2. ASSUME NEW s \in Senders, Sender(s) PROVE ReplyEntryHasTimer'
  <2>1. UNCHANGED <<cache, flushTimers, rx>>
    BY <1>2, Zenon DEF Sender, TxIp, TxEther, Unresolved, ArpWaitTest, ArpWaitAdd, ArpWaitTimer,
       TxArp, PutTest, PutAppend, PutLog, PutCreate, arpVars
  <2> QED BY <1>1, <2>1
<1>3. CASE RxReply
  BY <1>0, <1>3 DEF RxReply, RxGoto
<1>4. CASE RxFlush
  BY <1>0, <1>4 DEF RxFlush, StartFlush, RxGoto
<1>5. CASE RxRelease \/ RxLoop \/ RxPop
  <2>1. UNCHANGED <<cache, flushTimers>> /\ rx.pc # "flush"
    BY <1>5 DEF RxRelease, RxLoop, RxPop, arpVars
  <2> QED BY <1>1, <2>1
<1>6. CASE RxRequest
  BY <1>0, <1>6 DEF RxRequest, Learn
<1>7. CASE WaitTimeout \/ FlushTimeout
  BY <1>0, <1>7 DEF WaitTimeout, FlushTimeout
<1>8. CASE UNCHANGED vars
  BY <1>1, <1>8 DEF vars, arpVars
<1> QED BY <1>2, <1>3, <1>4, <1>5, <1>6, <1>7, <1>8, ZenonT(30) DEF Next

\* An entry learnt from a reply has a timer that flushes it, however often the address was
\* asked for and learnt before.
THEOREM LearntExpires == Spec => []ReplyEntryHasTimer
<1>1. Init => ArpInv /\ ReplyEntryHasTimer
  BY ArpInitial DEF Init, ReplyEntryHasTimer
<1>2. ArpInv /\ ReplyEntryHasTimer /\ [Next]_vars => ArpInv' /\ ReplyEntryHasTimer'
  BY ArpTypeStep, PlacedStep, TimersStep DEF ArpInv, Placed
<1> QED BY <1>1, <1>2, PTL DEF Spec
-----------------------------------------------------------------------------
(* The receive path *)

ReaderSteps == {"out", "wait", "woken", "raised"}
ReaderType == [Readers -> [pc : ReaderSteps, so : Sockets]]
InputSteps ==
    {"idle", "rx_udp", "rx_icmp", "raw", "use", "get_data", "notify", "reass", "dead"}
InputType == [pc : InputSteps, f : Frames, so : Sockets]

\* A frame on its way to or through a raw socket is one for a raw socket
InputOK ==
    /\ input \in InputType
    /\ input.pc \in {"raw", "reass"} => input.f.kind \in RawKinds
    /\ input.pc \in {"use", "get_data", "notify"} /\ input.so = "raw"
         => input.f.kind \in RawKinds

QueueType == [Sockets -> Seq(Nat)]

InType ==
    /\ seen \in Nat
    /\ InputOK
    /\ queue \in QueueType /\ accepted \in QueueType /\ returned \in QueueType
    /\ readers \in ReaderType

\* Readers that were notified and have not taken the lock again
Woken(s) == {r \in Readers : readers[r].pc = "woken" /\ readers[r].so = s}

\* What get_data has appended and not yet told anybody of
Untold(s) == IF input.pc = "notify" /\ input.so = s THEN 1 ELSE 0

\* There is a datagram in the queue for every reader that was woken for it
Promised ==
    \A s \in Sockets :
        /\ IsFiniteSet(Woken(s))
        /\ Cardinality(Woken(s)) + Untold(s) <= Len(queue[s])

\* Appending to the end of a concatenation
LEMMA AppendConcat ==
    ASSUME NEW a \in Seq(Nat), NEW q \in Seq(Nat), NEW x \in Nat
    PROVE  a \o Append(q, x) = Append(a \o q, x)
OBVIOUS

\* Moving the head of the second sequence to the end of the first
LEMMA HeadConcat ==
    ASSUME NEW a \in Seq(Nat), NEW q \in Seq(Nat), q # <<>>
    PROVE  /\ Append(a, Head(q)) \in Seq(Nat) /\ Tail(q) \in Seq(Nat)
           /\ Append(a, Head(q)) \o Tail(q) = a \o q
<1>1. Head(q) \in Nat /\ Tail(q) \in Seq(Nat) /\ Len(q) \in Nat \ {0} /\ Len(a) \in Nat
  OBVIOUS
<1>2. Append(a, Head(q)) \in Seq(Nat)
  BY <1>1
<1> DEFINE u == Append(a, Head(q)) \o Tail(q)
           v == a \o q
<1>3. u \in Seq(Nat) /\ v \in Seq(Nat) /\ Len(u) = Len(a) + Len(q) /\ Len(v) = Len(a) + Len(q)
  BY <1>1, <1>2
<1>4. ASSUME NEW i \in 1 .. Len(a) + Len(q) PROVE u[i] = v[i]
  <2>1. CASE i <= Len(a)
    BY <1>1, <1>2, <2>1
  <2>2. CASE i = Len(a) + 1
    BY <1>1, <1>2, <2>2
  <2>3. CASE i > Len(a) + 1
    BY <1>1, <1>2, <2>3
  <2> QED BY <1>1, <2>1, <2>2, <2>3
<1>5. u = v
  <2> HIDE DEF u, v
  <2> QED BY <1>3, <1>4, SeqEqual, ZenonT(30)
<1> QED BY <1>1, <1>2, <1>5

InInv == InType /\ Promised /\ QueueIsFifo /\ RecvFindsDatagram

\* A step that touches no queue and no reader
LEMMA InQuiet ==
    ASSUME InInv, UNCHANGED <<queue, accepted, returned, readers>>, seen' \in Nat,
           InputOK', input'.pc = "notify" => input' = input
    PROVE  InInv'
<1>1. InType'
  BY DEF InInv, InType
<1>2. \A s \in Sockets : Woken(s)' = Woken(s) /\ Untold(s)' <= Untold(s) /\ Untold(s) \in Nat
                            /\ Untold(s)' \in Nat
  BY DEF Woken, Untold
<1>3. Promised'
  <2> SUFFICES ASSUME NEW s \in Sockets
               PROVE  IsFiniteSet(Woken(s)') /\ Cardinality(Woken(s)') + Untold(s)' <= Len(queue[s])
    BY DEF Promised
  <2>1. IsFiniteSet(Woken(s)) /\ Cardinality(Woken(s)) + Untold(s) <= Len(queue[s])
    BY DEF InInv, Promised
  <2>2. Cardinality(Woken(s)) \in Nat /\ Len(queue[s]) \in Nat
    BY <2>1, FS_CardinalityType DEF InInv, InType, QueueType
  <2> QED BY <1>2, <2>1, <2>2
<1>4. QueueIsFifo' /\ RecvFindsDatagram'
  BY Zenon DEF InInv, QueueIsFifo, RecvFindsDatagram
<1> QED BY <1>1, <1>3, <1>4 DEF InInv

\* The handler a frame goes to
LEMMA NextLayerType ==
    \A k \in NextKinds :
        /\ NextLayer(k) \in InputSteps \ {"reass", "use", "get_data", "notify"}
        /\ NextLayer(k) = "raw" => k \in RawKinds
<1> TAKE k \in NextKinds
<1>1. CASE k \in UdpKinds
  BY <1>1 DEF NextLayer, UdpKinds, InputSteps
<1>2. CASE k \in IcmpKinds
  BY <1>2 DEF NextLayer, IcmpKinds, UdpKinds, InputSteps
<1>3. CASE k \in RawKinds
  BY <1>3 DEF NextLayer, RawKinds, IcmpKinds, UdpKinds, InputSteps
<1>4. CASE k \in {"tcp", "proto_255"}
  BY <1>4 DEF NextLayer, RawKinds, IcmpKinds, UdpKinds, InputSteps
<1> QED BY <1>1, <1>2, <1>3, <1>4 DEF NextKinds

\* The RX thread goes on with the frame it has
LEMMA InputGoto ==
    ASSUME InputOK, NEW pc \in InputSteps \ {"raw", "reass"}, NEW so \in Sockets,
           \/ RxToSocket(pc, so)
           \/ RxTo(pc) /\ so = input.so,
           pc \in {"use", "get_data", "notify"} /\ so = "raw" => input.f.kind \in RawKinds
    PROVE  InputOK' /\ input'.pc = pc /\ input'.so = so
<1>1. input' = [pc |-> pc, f |-> input.f, so |-> so]
  BY Zenon DEF InputOK, InputType, RxTo, RxToSocket
<1>2. input' \in InputType
  BY <1>1 DEF InputOK, InputType
<1> QED BY <1>1, <1>2 DEF InputOK

\* The RX thread goes on with another frame
LEMMA InputFrame ==
    ASSUME InputOK, NEW f \in Frames, NEW pc \in InputSteps,
           input' = [input EXCEPT !.f = f, !.pc = pc],
           pc \notin {"reass", "use", "get_data", "notify"}, pc = "raw" => f.kind \in RawKinds
    PROVE  InputOK' /\ input'.pc # "notify"
<1>1. input' = [pc |-> pc, f |-> f, so |-> input.so]
  BY Zenon DEF InputOK, InputType
<1>2. input' \in InputType
  BY <1>1 DEF InputOK, InputType
<1> QED BY <1>1, <1>2 DEF InputOK

\* rx_ip and its handlers, up to get_data
LEMMA RxQuiet ==
    ASSUME InInv,
           \/ \E f \in Frames : RxIp(f)
           \/ RxUdp \/ RxIcmp \/ UseSocket \/ RxRaw \/ RawFallThrough
    PROVE  InInv'
<1>0. InputOK /\ seen \in Nat /\ input.so \in Sockets
  BY DEF InInv, InType, InputOK, InputType
<1>1. {"idle", "dead", "use", "get_data"} \subseteq InputSteps \ {"raw", "reass"}
      /\ {"udp", "ping", "raw"} = Sockets
  BY DEF InputSteps, Sockets
<1>2. ASSUME NEW f \in Frames, RxIp(f) PROVE InInv'
  <2>0. UNCHANGED <<queue, accepted, returned, readers>> /\ seen' \in Nat
    <3>1. UNCHANGED <<queue, accepted, returned, readers>> /\ seen' = seen + 1
      BY <1>2, Zenon DEF RxIp, appVars
    <3> QED BY <1>0, <3>1
  <2>1. CASE f.kind \in NextKinds
    <3>1. PICK pc : pc = NextLayer(f.kind)
      OBVIOUS
    <3>2. /\ pc \in InputSteps /\ pc \notin {"reass", "use", "get_data", "notify"}
          /\ pc = "raw" => f.kind \in RawKinds
      BY <2>1, <3>1, NextLayerType
    <3>3. input' = [input EXCEPT !.f = f, !.pc = pc]
      BY <1>2, <2>1, <3>1, ZenonT(30) DEF RxIp
    <3>4. InputOK' /\ input'.pc # "notify"
      BY <1>0, <3>2, <3>3, InputFrame, ZenonT(30)
    <3> QED BY <2>0, <3>4, InQuiet
  <2>2. CASE f.kind \notin NextKinds
    <3>1. input' = [input EXCEPT !.f = f, !.pc = "idle"]
      BY <1>2, <2>2, ZenonT(30) DEF RxIp
    <3>2. InputOK' /\ input'.pc # "notify"
      BY <1>0, <1>1, <3>1, InputFrame, ZenonT(30)
    <3> QED BY <2>0, <3>2, InQuiet
  <2> QED BY <2>1, <2>2
<1>3. CASE RxUdp \/ RxIcmp \/ UseSocket \/ RxRaw
  <2>1. UNCHANGED <<seen, queue, accepted, returned, readers>>
    BY <1>3 DEF RxUdp, RxIcmp, UseSocket, RxRaw, appVars
  <2>2. \/ RxTo("idle") \/ RxTo("dead")
        \/ RxToSocket("get_data", "udp") \/ RxToSocket("use", "ping")
        \/ input.pc = "use" /\ RxTo("get_data")
        \/ input.pc = "raw" /\ RxToSocket("get_data", "raw")
    BY <1>3 DEF RxUdp, RxIcmp, UseSocket, RxRaw, Answer
  <2>3. InputOK' /\ input'.pc # "notify"
    <3>1. CASE RxTo("idle") \/ RxTo("dead")
      BY <1>0, <1>1, <3>1, InputGoto
    <3>2. CASE RxToSocket("get_data", "udp")
      BY <1>0, <1>1, <3>2, InputGoto
    <3>5. CASE RxToSocket("use", "ping")
      BY <1>0, <1>1, <3>5, InputGoto
    <3>3. CASE input.pc = "use" /\ RxTo("get_data")
      <4>1. input.so = "raw" => input.f.kind \in RawKinds
        BY <1>0, <3>3 DEF InputOK
      <4> QED BY <1>0, <1>1, <3>3, <4>1, InputGoto
    <3>4. CASE input.pc = "raw" /\ RxToSocket("get_data", "raw")
      <4>1. input.f.kind \in RawKinds
        BY <1>0, <3>4 DEF InputOK
      <4> QED BY <1>0, <1>1, <3>4, <4>1, InputGoto
    <3> QED BY <2>2, <3>1, <3>2, <3>3, <3>4, <3>5
  <2> QED BY <1>0, <2>1, <2>3, InQuiet
<1>4. CASE RawFallThrough
  <2>1. UNCHANGED <<seen, queue, accepted, returned, readers>>
    BY <1>4, ZenonT(30) DEF RawFallThrough, appVars
  <2>2. CASE RxTo("idle") \/ RxTo("dead")
    <3>1. InputOK' /\ input'.pc # "notify"
      BY <1>0, <1>1, <2>2, InputGoto
    <3> QED BY <1>0, <2>1, <3>1, InQuiet
  <2>3. CASE \E g \in {f \in Frames : ~ f.whole} :
                 input' = [input EXCEPT !.f = g, !.pc = NextLayer(g.kind)]
    <3>1. PICK g \in Frames : ~ g.whole /\ input' = [input EXCEPT !.f = g, !.pc = NextLayer(g.kind)]
      BY <2>3, Zenon
    <3>2. g.kind \in NextKinds
      BY <3>1, ZenonT(30) DEF Frames
    <3>3. PICK pc : pc = NextLayer(g.kind)
      OBVIOUS
    <3>4. /\ pc \in InputSteps /\ pc \notin {"reass", "use", "get_data", "notify"}
          /\ pc = "raw" => g.kind \in RawKinds
      BY <3>2, <3>3, NextLayerType
    <3>5. InputOK' /\ input'.pc # "notify"
      BY <1>0, <3>1, <3>3, <3>4, InputFrame, ZenonT(30)
    <3> QED BY <1>0, <2>1, <3>5, InQuiet
  <2>4. input.f.kind \in RawKinds
    BY <1>0, <1>4, ZenonT(30) DEF RawFallThrough, InputOK
  <2>5. \/ RxTo("idle") \/ RxTo("dead")
        \/ \E g \in {f \in Frames : ~ f.whole} :
               input' = [input EXCEPT !.f = g, !.pc = NextLayer(g.kind)]
    <3>1. CASE input.f.kind = "raw_empty"
      BY <1>4, <3>1, ZenonT(30) DEF RawFallThrough
    <3>2. CASE input.f.kind = "raw_short"
      BY <1>4, <3>2, ZenonT(30) DEF RawFallThrough
    <3>3. CASE input.f.kind = "raw_long"
      BY <1>4, <3>3, ZenonT(30) DEF RawFallThrough
    <3> QED BY <2>4, <3>1, <3>2, <3>3, ZenonT(30) DEF RawKinds
  <2> QED BY <2>2, <2>3, <2>5, ZenonT(30)
<1> QED BY <1>2, <1>3, <1>4
\* The counts that the promise compares
LEMMA PromiseCounts ==
    ASSUME InInv, NEW s \in Sockets
    PROVE  /\ IsFiniteSet(Woken(s)) /\ Cardinality(Woken(s)) \in Nat
           /\ queue[s] \in Seq(Nat) /\ Len(queue[s]) \in Nat
           /\ accepted[s] \in Seq(Nat) /\ returned[s] \in Seq(Nat)
           /\ Cardinality(Woken(s)) + Untold(s) <= Len(queue[s])
           /\ returned[s] \o queue[s] = accepted[s]
<1>1. IsFiniteSet(Woken(s)) /\ Cardinality(Woken(s)) + Untold(s) <= Len(queue[s])
  BY DEF InInv, Promised
<1>2. Cardinality(Woken(s)) \in Nat
  BY <1>1, FS_CardinalityType
<1>3. queue[s] \in Seq(Nat) /\ accepted[s] \in Seq(Nat) /\ returned[s] \in Seq(Nat)
  BY DEF InInv, InType, QueueType
<1>4. returned[s] \o queue[s] = accepted[s]
  BY Zenon DEF InInv, QueueIsFifo
<1> QED BY <1>1, <1>2, <1>3, <1>4

\* get_data: a datagram is queued, and somebody will be told of it
LEMMA GetDataStep ==
    ASSUME InInv, GetData
    PROVE  InInv'
<1> DEFINE so == input.so
<1>1. InputOK /\ so \in Sockets /\ seen \in Nat /\ input.pc = "get_data"
  BY DEF InInv, InType, InputOK, InputType, GetData
<1>2. InputOK' /\ input'.pc = "notify" /\ input'.so = so
  <2>1. "notify" \in InputSteps \ {"raw", "reass"} /\ RxTo("notify")
    BY DEF InputSteps, GetData
  <2>2. so = "raw" => input.f.kind \in RawKinds
    BY <1>1 DEF InputOK
  <2> QED BY <1>1, <2>1, <2>2, InputGoto
<1>3. /\ queue' = [queue EXCEPT ![so] = Append(queue[so], seen)]
      /\ accepted' = [accepted EXCEPT ![so] = Append(accepted[so], seen)]
      /\ seen' = seen /\ readers' = readers /\ returned' = returned
  BY DEF GetData, appVars
<1>4. queue \in QueueType /\ accepted \in QueueType /\ returned \in QueueType
      /\ readers \in ReaderType
  BY DEF InInv, InType
<1> HIDE DEF so
<1>5. /\ queue'[so] = Append(queue[so], seen) /\ accepted'[so] = Append(accepted[so], seen)
      /\ \A s \in Sockets \ {so} : queue'[s] = queue[s] /\ accepted'[s] = accepted[s]
  BY <1>1, <1>3, <1>4 DEF QueueType
<1>6. InType'
  <2>1. Append(queue[so], seen) \in Seq(Nat) /\ Append(accepted[so], seen) \in Seq(Nat)
    BY <1>1, <1>4 DEF QueueType
  <2>2. queue' \in QueueType /\ accepted' \in QueueType
    BY <1>1, <1>3, <1>4, <2>1 DEF QueueType
  <2> QED BY <1>1, <1>2, <1>3, <1>4, <2>2 DEF InType
<1>7. \A s \in Sockets : Woken(s)' = Woken(s)
  BY <1>3 DEF Woken
<1>8. ASSUME NEW s \in Sockets
      PROVE  /\ IsFiniteSet(Woken(s)') /\ Cardinality(Woken(s)') + Untold(s)' <= Len(queue'[s])
             /\ returned'[s] \o queue'[s] = accepted'[s]
  <2>1. CASE s = so
    <3>0. /\ Cardinality(Woken(s)) \in Nat /\ Len(queue[s]) \in Nat /\ IsFiniteSet(Woken(s))
          /\ Cardinality(Woken(s)) + Untold(s) <= Len(queue[s])
      BY PromiseCounts, Zenon
    <3>1. Untold(s) = 0 /\ Untold(s)' = 1
      BY <1>1, <1>2, <2>1, ZenonT(30) DEF Untold
    <3>2. Len(queue'[s]) = Len(queue[s]) + 1
      BY <1>1, <1>5, <2>1, PromiseCounts
    <3>3. returned'[s] \o queue'[s] = accepted'[s]
      <4>1. queue[s] \in Seq(Nat) /\ returned[s] \in Seq(Nat) /\ returned[s] \o queue[s] = accepted[s]
        BY PromiseCounts, Zenon
      <4>2. returned[s] \o Append(queue[s], seen) = Append(returned[s] \o queue[s], seen)
        BY <1>1, <4>1, AppendConcat, ZenonT(30)
      <4> QED BY <1>3, <1>5, <2>1, <4>1, <4>2, ZenonT(30)
    <3>4. Cardinality(Woken(s)') + Untold(s)' <= Len(queue'[s])
      BY <1>7, <3>0, <3>1, <3>2
    <3> QED BY <1>7, <3>0, <3>3, <3>4
  <2>2. CASE s # so
    <3>1. Untold(s) = 0 /\ Untold(s)' = 0
      BY <1>1, <1>2, <2>2 DEF Untold
    <3>2. queue'[s] = queue[s] /\ accepted'[s] = accepted[s]
      BY <1>5, <2>2
    <3> QED BY <1>3, <1>7, <3>1, <3>2, PromiseCounts, ZenonT(30)
  <2> QED BY <2>1, <2>2, ZenonT(30)
<1>9. Promised' /\ QueueIsFifo'
  BY <1>8, ZenonT(30) DEF Promised, QueueIsFifo
<1>10. RecvFindsDatagram'
  BY <1>3 DEF InInv, RecvFindsDatagram
<1> QED BY <1>6, <1>9, <1>10 DEF InInv

\* Nothing but readers changes, and one of them at most is woken, for what was untold
LEMMA ReadersStep ==
    ASSUME InInv, UNCHANGED <<seen, queue, accepted, returned>>, InputOK', readers' \in ReaderType,
           \A r \in Readers : readers'[r].pc # "raised",
           \A s \in Sockets :
              \/ Woken(s)' \subseteq Woken(s) /\ Untold(s)' <= Untold(s)
              \/ Untold(s) = 1 /\ Untold(s)' = 0 /\ \E r : Woken(s)' \subseteq Woken(s) \cup {r}
    PROVE  InInv'
<1>1. InType'
  BY DEF InInv, InType
<1>2. ASSUME NEW s \in Sockets
      PROVE  IsFiniteSet(Woken(s)') /\ Cardinality(Woken(s)') + Untold(s)' <= Len(queue[s])
  <2>0. Untold(s) \in Nat /\ Untold(s)' \in Nat
    BY DEF Untold
  <2>1. CASE Woken(s)' \subseteq Woken(s) /\ Untold(s)' <= Untold(s)
    <3>0. /\ Cardinality(Woken(s)) \in Nat /\ Len(queue[s]) \in Nat /\ IsFiniteSet(Woken(s))
          /\ Cardinality(Woken(s)) + Untold(s) <= Len(queue[s])
      BY PromiseCounts, ZenonT(30)
    <3>1. IsFiniteSet(Woken(s)') /\ Cardinality(Woken(s)') <= Cardinality(Woken(s))
      BY <2>1, <3>0, FS_Subset, ZenonT(30)
    <3>2. Cardinality(Woken(s)') \in Nat
      BY <3>1, FS_CardinalityType, ZenonT(30)
    <3> QED BY <2>0, <2>1, <3>0, <3>1, <3>2
  <2>2. ASSUME Untold(s) = 1, Untold(s)' = 0, NEW r, Woken(s)' \subseteq Woken(s) \cup {r}
        PROVE  IsFiniteSet(Woken(s)') /\ Cardinality(Woken(s)') + Untold(s)' <= Len(queue[s])
    <3>0. /\ Cardinality(Woken(s)) \in Nat /\ Len(queue[s]) \in Nat /\ IsFiniteSet(Woken(s))
          /\ Cardinality(Woken(s)) + Untold(s) <= Len(queue[s])
      BY PromiseCounts, ZenonT(30)
    <3>1. /\ IsFiniteSet(Woken(s) \cup {r})
          /\ Cardinality(Woken(s) \cup {r}) <= Cardinality(Woken(s)) + 1
      <4>1. /\ IsFiniteSet(Woken(s) \cup {r})
            /\ \/ Cardinality(Woken(s) \cup {r}) = Cardinality(Woken(s))
               \/ Cardinality(Woken(s) \cup {r}) = Cardinality(Woken(s)) + 1
        BY <3>0, FS_AddElement, ZenonT(30)
      <4> QED BY <3>0, <4>1
    <3>2. /\ IsFiniteSet(Woken(s)')
          /\ Cardinality(Woken(s)') <= Cardinality(Woken(s) \cup {r})
      BY <2>2, <3>1, FS_Subset, ZenonT(30)
    <3>3. Cardinality(Woken(s)') \in Nat /\ Cardinality(Woken(s) \cup {r}) \in Nat
      BY <3>1, <3>2, FS_CardinalityType, ZenonT(30)
    <3> QED BY <2>2, <3>0, <3>1, <3>2, <3>3
  <2> QED BY <2>1, <2>2, ZenonT(30)
<1>3. Promised'
  BY <1>2 DEF Promised
<1>4. QueueIsFifo' /\ RecvFindsDatagram'
  BY Zenon DEF InInv, QueueIsFifo, RecvFindsDatagram
<1> QED BY <1>1, <1>3, <1>4 DEF InInv
\* A reader other than the one that moves is as it was
LEMMA ReaderMoves ==
    ASSUME readers \in ReaderType, NEW r \in Readers, NEW pc \in ReaderSteps, NEW so \in Sockets,
           \/ readers' = [readers EXCEPT ![r] = [pc |-> pc, so |-> so]]
           \/ readers' = [readers EXCEPT ![r].pc = pc] /\ so = readers[r].so
    PROVE  /\ readers' \in ReaderType /\ readers'[r] = [pc |-> pc, so |-> so]
           /\ \A q \in Readers \ {r} : readers'[q] = readers[q]
BY DEF ReaderType

\* notify() with somebody waiting or not
LEMMA NotifyStep ==
    ASSUME InInv, GetDataNotify
    PROVE  InInv'
<1> DEFINE so == input.so
<1>1. InputOK /\ so \in Sockets /\ input.pc = "notify" /\ readers \in ReaderType
      /\ \A r \in Readers : readers[r].pc # "raised"
  BY DEF InInv, InType, InputOK, InputType, GetDataNotify, RecvFindsDatagram
<1>2. UNCHANGED <<seen, queue, accepted, returned>>
  BY DEF GetDataNotify
<1>3. InputOK' /\ input'.pc # "notify"
  <2>1. CASE RxTo("idle")
    <3>1. "idle" \in InputSteps \ {"raw", "reass"}
      BY DEF InputSteps
    <3> QED BY <1>1, <2>1, <3>1, InputGoto
  <2>2. CASE input.so = "raw" /\ RxTo("reass")
    <3>1. input' = [pc |-> "reass", f |-> input.f, so |-> input.so] /\ input.f.kind \in RawKinds
      BY <1>1, <2>2 DEF InputOK, InputType, RxTo
    <3>2. input' \in InputType
      BY <1>1, <3>1 DEF InputOK, InputType, InputSteps
    <3> QED BY <3>1, <3>2 DEF InputOK
  <2> QED BY <2>1, <2>2 DEF GetDataNotify
<1>4. \A s \in Sockets : Untold(s)' = 0 /\ Untold(s) = IF s = so THEN 1 ELSE 0
  BY <1>1, <1>3, Zenon DEF Untold
<1>5. CASE readers' = readers
  <2>1. \A s \in Sockets : Woken(s)' \subseteq Woken(s) /\ Untold(s)' <= Untold(s)
    BY <1>4, <1>5 DEF Woken
  <2> QED BY <1>1, <1>2, <1>3, <1>5, <2>1, ReadersStep, ZenonT(30)
<1>6. ASSUME NEW r \in Waiting(so), readers' = [readers EXCEPT ![r].pc = "woken"] PROVE InInv'
  <2>1. r \in Readers /\ readers[r].so = so
    BY <1>6 DEF Waiting
  <2>2. /\ readers' \in ReaderType /\ readers'[r] = [pc |-> "woken", so |-> so]
        /\ \A q \in Readers \ {r} : readers'[q] = readers[q]
    <3>1. "woken" \in ReaderSteps
      BY ZenonT(30) DEF ReaderSteps
    <3> QED BY <1>1, <1>6, <2>1, <3>1, ReaderMoves, ZenonT(30)
  <2>3. \A q \in Readers : readers'[q].pc # "raised"
    BY <1>1, <2>2
  <2>4. ASSUME NEW s \in Sockets
        PROVE  \/ Woken(s)' \subseteq Woken(s) /\ Untold(s)' <= Untold(s)
               \/ Untold(s) = 1 /\ Untold(s)' = 0 /\ \E q : Woken(s)' \subseteq Woken(s) \cup {q}
    <3>1. CASE s = so
      <4>1. Woken(s)' \subseteq Woken(s) \cup {r}
        BY <2>1, <2>2 DEF Woken
      <4> QED BY <1>4, <3>1, <4>1, ZenonT(30)
    <3>2. CASE s # so
      <4>1. Woken(s)' \subseteq Woken(s)
        BY <2>1, <2>2, <3>2 DEF Woken
      <4> QED BY <1>4, <3>2, <4>1
    <3> QED BY <3>1, <3>2
  <2> QED BY <1>2, <1>3, <2>2, <2>3, <2>4, ReadersStep
<1> QED BY <1>5, <1>6 DEF GetDataNotify, Notify

\* recv() begins to wait, or gives up
LEMMA ReaderQuiet ==
    ASSUME InInv, NEW r \in Readers, RecvTimeout(r) \/ \E s \in Sockets : Recv(r, s)
    PROVE  InInv'
<1>1. InputOK /\ readers \in ReaderType /\ \A q \in Readers : readers[q].pc # "raised"
  BY DEF InInv, InType, RecvFindsDatagram
<1>2. UNCHANGED <<seen, queue, accepted, returned, input>>
  BY DEF Recv, RecvTimeout
<1>3. PICK pc \in {"out", "wait"}, so \in Sockets :
          \/ readers' = [readers EXCEPT ![r] = [pc |-> pc, so |-> so]]
          \/ readers' = [readers EXCEPT ![r].pc = pc] /\ so = readers[r].so
  <2>1. readers[r].so \in Sockets
    BY <1>1 DEF ReaderType
  <2> QED BY <2>1 DEF Recv, RecvTimeout
<1>4. /\ readers' \in ReaderType /\ readers'[r] = [pc |-> pc, so |-> so]
      /\ \A q \in Readers \ {r} : readers'[q] = readers[q]
  <2>1. pc \in ReaderSteps
    BY ZenonT(30) DEF ReaderSteps
  <2> QED BY <1>1, <1>3, <2>1, ReaderMoves
<1>5. readers'[r].pc = pc /\ pc # "raised" /\ pc # "woken"
  BY <1>4
<1>6. \A q \in Readers : readers'[q].pc # "raised"
  BY <1>1, <1>4, <1>5
<1>7. \A s \in Sockets : Woken(s)' \subseteq Woken(s) /\ Untold(s)' <= Untold(s)
  <2>1. \A s \in Sockets : Untold(s)' = Untold(s) /\ Untold(s) \in Nat
    BY <1>2 DEF Untold
  <2>2. \A s \in Sockets : Woken(s)' \subseteq Woken(s)
    BY <1>4, <1>5, ZenonT(30) DEF Woken
  <2> QED BY <2>1, <2>2
<1>8. InputOK'
  BY <1>1, <1>2 DEF InputOK
<1> QED BY <1>2, <1>4, <1>6, <1>7, <1>8, ReadersStep, ZenonT(30)
\* popleft(): one reader less that was woken, one datagram less in the queue
LEMMA RecvPopStep ==
    ASSUME InInv, NEW r \in Readers, RecvPop(r)
    PROVE  InInv'
<1>0. PICK so \in Sockets : so = readers[r].so
  BY DEF InInv, InType, ReaderType
<1>1. InputOK /\ readers \in ReaderType /\ so \in Sockets /\ readers[r].pc = "woken"
      /\ \A q \in Readers : readers[q].pc # "raised"
  BY DEF InInv, InType, RecvFindsDatagram, RecvPop
<1>2. queue \in QueueType /\ accepted \in QueueType /\ returned \in QueueType /\ seen \in Nat
  BY DEF InInv, InType
<1>3. /\ r \in Woken(so) /\ IsFiniteSet(Woken(so)) /\ Cardinality(Woken(so)) \in Nat
      /\ queue[so] \in Seq(Nat) /\ returned[so] \in Seq(Nat) /\ Len(queue[so]) \in Nat
      /\ Cardinality(Woken(so)) + Untold(so) <= Len(queue[so])
      /\ returned[so] \o queue[so] = accepted[so]
  <2>1. r \in Woken(so)
    BY <1>0, <1>1, ZenonT(30) DEF Woken
  <2> QED BY <2>1, PromiseCounts, Zenon
<1>4. /\ IsFiniteSet(Woken(so) \ {r})
      /\ Cardinality(Woken(so) \ {r}) = Cardinality(Woken(so)) - 1
      /\ Cardinality(Woken(so) \ {r}) \in Nat
  BY <1>3, FS_RemoveElement, FS_CardinalityType
<1>5. \A s \in Sockets : Untold(s) \in Nat
  BY DEF Untold
<1>6. queue[so] # <<>>
  <2>1. Len(queue[so]) > 0
    BY <1>1, <1>3, <1>4, <1>5
  <2> QED BY <2>1
<1>7. /\ readers' = [readers EXCEPT ![r].pc = "out"]
      /\ returned' = [returned EXCEPT ![so] = Append(returned[so], Head(queue[so]))]
      /\ queue' = [queue EXCEPT ![so] = Tail(queue[so])]
      /\ UNCHANGED <<input, seen, accepted>>
  BY <1>0, <1>6 DEF RecvPop
<1>8. /\ readers' \in ReaderType /\ readers'[r] = [pc |-> "out", so |-> so]
      /\ \A q \in Readers \ {r} : readers'[q] = readers[q]
  <2>1. "out" \in ReaderSteps
    BY DEF ReaderSteps
  <2>2. readers' = [readers EXCEPT ![r].pc = "out"] /\ so = readers[r].so
    BY <1>0, <1>7
  <2>3. readers \in ReaderType /\ so \in Sockets
    BY <1>1
  <2> QED BY <2>1, <2>2, <2>3, ReaderMoves, ZenonT(30)
<1>9. /\ Append(returned[so], Head(queue[so])) \in Seq(Nat) /\ Tail(queue[so]) \in Seq(Nat)
      /\ Append(returned[so], Head(queue[so])) \o Tail(queue[so]) = accepted[so]
      /\ Len(Tail(queue[so])) = Len(queue[so]) - 1
  <2>1. Len(Tail(queue[so])) = Len(queue[so]) - 1
    BY <1>3, <1>6
  <2>2. /\ Append(returned[so], Head(queue[so])) \in Seq(Nat) /\ Tail(queue[so]) \in Seq(Nat)
        /\ Append(returned[so], Head(queue[so])) \o Tail(queue[so]) = returned[so] \o queue[so]
    BY <1>3, <1>6, HeadConcat, Zenon
  <2> QED BY <1>3, <2>1, <2>2, ZenonT(30)
<1>10. /\ queue' \in QueueType /\ returned' \in QueueType
       /\ queue'[so] = Tail(queue[so]) /\ returned'[so] = Append(returned[so], Head(queue[so]))
       /\ \A s \in Sockets \ {so} : queue'[s] = queue[s] /\ returned'[s] = returned[s]
  BY <1>1, <1>2, <1>7, <1>9, Zenon DEF QueueType
<1>11. InType'
  BY <1>1, <1>2, <1>7, <1>8, <1>10, ZenonT(30) DEF InType, InputOK
<1>12. RecvFindsDatagram'
  BY <1>1, <1>8 DEF RecvFindsDatagram
<1>13. \A s \in Sockets : Untold(s)' = Untold(s)
  BY <1>7 DEF Untold
<1>14. Woken(so)' = Woken(so) \ {r} /\ \A s \in Sockets \ {so} : Woken(s)' \subseteq Woken(s)
  BY <1>0, <1>8 DEF Woken
<1>15. ASSUME NEW s \in Sockets
       PROVE  /\ IsFiniteSet(Woken(s)') /\ Cardinality(Woken(s)') + Untold(s)' <= Len(queue'[s])
              /\ returned'[s] \o queue'[s] = accepted'[s]
  <2>1. CASE s = so
    <3>1. IsFiniteSet(Woken(s)') /\ Cardinality(Woken(s)') = Cardinality(Woken(so)) - 1
      BY <1>4, <1>14, <2>1
    <3>2. Len(queue'[s]) = Len(queue[so]) - 1
      BY <1>9, <1>10, <2>1, ZenonT(30)
    <3>3. Untold(s)' = Untold(so) /\ Untold(so) \in Nat
      BY <1>5, <1>13, <2>1, ZenonT(30)
    <3>4. Cardinality(Woken(s)') + Untold(s)' <= Len(queue'[s])
      BY <1>3, <3>1, <3>2, <3>3
    <3>5. returned'[s] \o queue'[s] = accepted'[s]
      BY <1>7, <1>9, <1>10, <2>1, ZenonT(30)
    <3> QED BY <3>1, <3>4, <3>5
  <2>2. CASE s # so
    <3>0. /\ Cardinality(Woken(s)) \in Nat /\ Len(queue[s]) \in Nat /\ IsFiniteSet(Woken(s))
          /\ Cardinality(Woken(s)) + Untold(s) <= Len(queue[s])
          /\ returned[s] \o queue[s] = accepted[s]
      BY PromiseCounts, ZenonT(30)
    <3>1. IsFiniteSet(Woken(s)') /\ Cardinality(Woken(s)') <= Cardinality(Woken(s))
      BY <1>14, <2>2, <3>0, FS_Subset
    <3>2. Cardinality(Woken(s)') \in Nat
      BY <3>1, FS_CardinalityType
    <3>3. queue'[s] = queue[s] /\ returned'[s] = returned[s] /\ accepted'[s] = accepted[s]
      BY <1>7, <1>10, <2>2
    <3>4. Untold(s)' = Untold(s) /\ Untold(s) \in Nat
      BY <1>5, <1>13, ZenonT(30)
    <3>5. Cardinality(Woken(s)') + Untold(s)' <= Len(queue'[s])
      BY <3>0, <3>1, <3>2, <3>3, <3>4
    <3> QED BY <3>0, <3>1, <3>3, <3>5, Zenon
  <2> QED BY <2>1, <2>2, ZenonT(30)
<1>16. Promised' /\ QueueIsFifo'
  BY <1>15, ZenonT(30) DEF Promised, QueueIsFifo
<1> QED BY <1>11, <1>12, <1>16 DEF InInv

\* Initially no queue has anything and nobody was woken.
LEMMA InInitial == InputInit => InInv
<1> SUFFICES ASSUME InputInit PROVE InInv
  OBVIOUS
<1>1. /\ seen = 0 /\ input = [pc |-> "idle", f |-> [kind |-> "malformed", whole |-> TRUE], so |-> "udp"]
      /\ queue = [s \in Sockets |-> <<>>] /\ accepted = [s \in Sockets |-> <<>>]
      /\ readers = [r \in Readers |-> [pc |-> "out", so |-> "udp"]]
      /\ returned = [s \in Sockets |-> <<>>]
  BY DEF InputInit
<1>2. InType
  <2>1. InputOK
    <3>1. [kind |-> "malformed", whole |-> TRUE] \in Frames
      BY DEF Frames
    <3> QED BY <1>1, <3>1 DEF InputOK, InputType, InputSteps, Sockets
  <2>2. readers \in ReaderType /\ <<>> \in Seq(Nat)
    BY <1>1 DEF ReaderType, ReaderSteps, Sockets
  <2> QED BY <1>1, <2>1, <2>2 DEF InType, QueueType
<1>3. \A s \in Sockets : Woken(s) = {} /\ Untold(s) = 0 /\ Len(queue[s]) = 0
  BY <1>1 DEF Woken, Untold
<1>4. Promised
  BY <1>3, FS_EmptySet DEF Promised
<1>5. QueueIsFifo
  BY <1>1 DEF QueueIsFifo
<1>6. RecvFindsDatagram
  BY <1>1 DEF RecvFindsDatagram
<1> QED BY <1>2, <1>4, <1>5, <1>6, Zenon DEF InInv

\* The receive path, step by step
LEMMA InStep == InInv /\ [InputNext]_inputVars => InInv'
<1> SUFFICES ASSUME InInv, [InputNext]_inputVars PROVE InInv'
  OBVIOUS
<1>1. CASE \E f \in Frames : RxIp(f)
  BY <1>1, RxQuiet
<1>2. CASE RxThread
  BY <1>2, RxQuiet, GetDataStep, NotifyStep DEF RxThread
<1>3. CASE UNCHANGED <<input, seen, queue, accepted, returned, readers>>
  <2>1. InputOK' /\ seen' \in Nat
    BY <1>3 DEF InInv, InType, InputOK
  <2> QED BY <1>3, <2>1, InQuiet
<1>4. CASE App
  <2>1. ASSUME NEW s \in Sockets, Connect(s) \/ Close(s) PROVE InInv'
    BY <1>3, <2>1 DEF Connect, Close, appVars
  <2>2. ASSUME NEW r \in Readers, (\E s \in Sockets : Recv(r, s)) \/ RecvTimeout(r)
        PROVE  InInv'
    BY <2>2, ReaderQuiet
  <2>3. ASSUME NEW r \in Readers, RecvPop(r) PROVE InInv'
    BY <2>3, RecvPopStep
  <2> QED BY <1>4, <2>1, <2>2, <2>3 DEF App
<1>5. CASE UNCHANGED inputVars
  BY <1>3, <1>5 DEF inputVars, appVars
<1> QED BY <1>1, <1>2, <1>4, <1>5 DEF InputNext

\* With any set of readers: although get_data appends without the lock and any recv() may
\* time out, popleft() finds a datagram whenever a reader was woken.
THEOREM WokenFindDatagrams == InputSpec => []RecvFindsDatagram
<1>1. InInv => RecvFindsDatagram
  BY DEF InInv
<1> QED BY InInitial, InStep, <1>1, PTL DEF InputSpec

\* With any set of readers no datagram of a socket is lost, returned twice or overtaken
\* between get_data and recv().
THEOREM DatagramsStayInOrder == InputSpec => []QueueIsFifo
<1>1. InInv => QueueIsFifo
  BY DEF InInv
<1> QED BY InInitial, InStep, <1>1, PTL DEF InputSpec
=============================================================================
