----------------------------- MODULE ArpResolve -----------------------------
(***************************************************************************)
(* Resolution of one next hop: tx_ip, the ARP cache with its wait list and *)
(* timers, and the queue of datagrams that wait for the reply.             *)
(*                                                                         *)
(* Any thread that calls tx_ip (the TCP event loop, application threads) is *)
(* a sender.  The RX thread handles ARP frames, the timer thread the two   *)
(* time-outs.  The caches take no lock around a test and what follows from *)
(* it, so each test, update and transmission is a step of its own.  The    *)
(* network may lose, delay and duplicate replies.                          *)
(*                                                                         *)
(* An exception that no caller catches ends its thread ("dead").           *)
(***************************************************************************)
EXTENDS Naturals, Sequences

CONSTANTS
    Senders,        \* threads that call tx_ip
    MaxDatagrams,   \* bound on the datagrams sent
    MaxFlush        \* bound on the cache-entry timers running at once

ASSUME ArpAssumption == MaxDatagrams \in Nat /\ MaxFlush \in Nat

Datagrams == 1 .. MaxDatagrams

VARIABLES
    made,           \* datagrams handed to tx_ip so far
    snd,            \* per sender: its step and its datagram
    cache,          \* "none", or how the entry was learnt: "reply", "request"
    waiting,        \* the address is in _arp_wait_list
    waitTimers,     \* running timers that call _arp_wait_remove
    flushTimers,    \* running timers that call flush_entry
    requested,      \* an ARP request has been sent
    lists, cur,     \* list objects ever queued; the one in the dictionary, or 0
    rx,             \* RX thread: its step, the list it releases, the next index
    timer,          \* timer thread: "running" or "dead"
    wire            \* how often each datagram was transmitted

arpVars == <<cache, waiting, waitTimers, flushTimers, requested>>
queueVars == <<lists, cur>>
vars == <<made, snd, arpVars, queueVars, rx, timer, wire>>

Init ==
    /\ made = 0
    /\ snd = [s \in Senders |-> [pc |-> "idle", d |-> 0]]
    /\ cache = "none" /\ waiting = FALSE
    /\ waitTimers = 0 /\ flushTimers = 0
    /\ requested = FALSE
    /\ lists = <<>> /\ cur = 0
    /\ rx = [pc |-> "idle", list |-> 0, i |-> 0]
    /\ timer = "running"
    /\ wire = [d \in Datagrams |-> 0]

Transmit(d) == wire' = [wire EXCEPT ![d] = @ + 1]

-----------------------------------------------------------------------------
(* Senders *)

Goto(s, pc) == snd' = [snd EXCEPT ![s].pc = pc]
At(s, pc) == snd[s].pc = pc

\* tx_ip looks the next hop up
TxIp(s) ==
    /\ At(s, "idle")
    /\ made < MaxDatagrams
    /\ made' = made + 1
    /\ snd' = [snd EXCEPT ![s] = [pc |-> IF cache = "none" THEN "miss" ELSE "hit",
                                  d  |-> made + 1]]
    /\ UNCHANGED <<arpVars, queueVars, rx, timer, wire>>

\* The address was known: transmit
TxEther(s) ==
    /\ At(s, "hit")
    /\ Transmit(snd[s].d)
    /\ Goto(s, "idle")
    /\ UNCHANGED <<made, arpVars, queueVars, rx, timer>>

\* _h_unresolved_mac_datagrams: only the first datagram asks for the address
Unresolved(s) ==
    /\ At(s, "miss")
    /\ Goto(s, IF cur = 0 THEN "wait_test" ELSE "put")
    /\ UNCHANGED <<made, arpVars, queueVars, rx, timer, wire>>

\* arp_wait_add: the test
ArpWaitTest(s) ==
    /\ At(s, "wait_test")
    /\ Goto(s, IF waiting THEN "request" ELSE "wait_add")
    /\ UNCHANGED <<made, arpVars, queueVars, rx, timer, wire>>

\* arp_wait_add: add the address
ArpWaitAdd(s) ==
    /\ At(s, "wait_add")
    /\ waiting' = TRUE
    /\ Goto(s, "wait_timer")
    /\ UNCHANGED <<made, cache, waitTimers, flushTimers, requested, queueVars, rx, timer, wire>>

\* arp_wait_add: start the timer that removes the address
ArpWaitTimer(s) ==
    /\ At(s, "wait_timer")
    /\ waitTimers' = waitTimers + 1
    /\ Goto(s, "request")
    /\ UNCHANGED <<made, cache, waiting, flushTimers, requested, queueVars, rx, timer, wire>>

\* tx_arp: the request goes out
TxArp(s) ==
    /\ At(s, "request")
    /\ requested' = TRUE
    /\ Goto(s, "put")
    /\ UNCHANGED <<made, cache, waiting, waitTimers, flushTimers, queueVars, rx, timer, wire>>

\* ip_cache.enqueue: the test
PutTest(s) ==
    /\ At(s, "put")
    /\ Goto(s, IF cur = 0 THEN "create" ELSE "append")
    /\ UNCHANGED <<made, arpVars, queueVars, rx, timer, wire>>

\* A KeyError leaves tx_ip: it ends the TCP event loop, an application may carry on
Fail(s) == Goto(s, "dead") \/ Goto(s, "idle")

\* ip_cache.enqueue: append, a KeyError if the queue was released meanwhile
PutAppend(s) ==
    /\ At(s, "append")
    /\ IF cur = 0
       THEN Fail(s) /\ UNCHANGED lists
       ELSE Goto(s, "log") /\ lists' = [lists EXCEPT ![cur] = Append(@, snd[s].d)]
    /\ UNCHANGED <<made, arpVars, cur, rx, timer, wire>>

\* ip_cache.enqueue: the queue's length is read for the log, again by its key
PutLog(s) ==
    /\ At(s, "log")
    /\ IF cur = 0 THEN Fail(s) ELSE Goto(s, "idle")
    /\ UNCHANGED <<made, arpVars, queueVars, rx, timer, wire>>

\* ip_cache.enqueue: a new list, in the place of any list queued meanwhile
PutCreate(s) ==
    /\ At(s, "create")
    /\ lists' = Append(lists, <<snd[s].d>>)
    /\ cur' = Len(lists) + 1
    /\ Goto(s, "idle")
    /\ UNCHANGED <<made, arpVars, rx, timer, wire>>

-----------------------------------------------------------------------------
(* The RX thread: rx_arp *)

RxGoto(pc) == rx' = [rx EXCEPT !.pc = pc]

\* update_arp_cache never replaces an entry
Learn(how) == cache' = IF cache = "none" THEN how ELSE cache

\* A reply is taken while the address is in the wait list, else it is dropped
RxReply ==
    /\ rx.pc = "idle"
    /\ requested /\ waiting
    /\ Learn("reply")
    /\ RxGoto("flush")
    /\ UNCHANGED <<made, snd, waiting, waitTimers, flushTimers, requested, queueVars, timer, wire>>

\* Mutant: the reply's entry gets no timer
StartFlushNever == UNCHANGED flushTimers

\* Every reply taken starts a timer, whether it set the entry or not
StartFlush == flushTimers' = flushTimers + 1

RxFlush ==
    /\ rx.pc = "flush"
    /\ flushTimers < MaxFlush
    /\ StartFlush
    /\ RxGoto("release")
    /\ UNCHANGED <<made, snd, cache, waiting, waitTimers, requested, queueVars, timer, wire>>

\* ip_cache.dequeue: a KeyError if nothing is queued
RxRelease ==
    /\ rx.pc = "release"
    /\ rx' = IF cur = 0 THEN [rx EXCEPT !.pc = "dead"]
             ELSE [pc |-> "loop", list |-> cur, i |-> 1]
    /\ UNCHANGED <<made, snd, arpVars, queueVars, timer, wire>>

\* ip_cache.dequeue: transmit the next datagram, also one appended meanwhile
RxLoop ==
    /\ rx.pc = "loop"
    /\ IF rx.i <= Len(lists[rx.list])
       THEN Transmit(lists[rx.list][rx.i]) /\ rx' = [rx EXCEPT !.i = @ + 1]
       ELSE RxGoto("pop") /\ UNCHANGED wire
    /\ UNCHANGED <<made, snd, arpVars, queueVars, timer>>

\* Mutant: the queue stays after its release
RxPopKeeps ==
    /\ rx.pc = "pop"
    /\ RxGoto("idle")
    /\ UNCHANGED <<made, snd, arpVars, queueVars, timer, wire>>

\* ip_cache.dequeue: forget the queue, with whatever was appended since the loop ended
RxPop ==
    /\ rx.pc = "pop"
    /\ cur' = 0
    /\ RxGoto("idle")
    /\ UNCHANGED <<made, snd, arpVars, lists, timer, wire>>

\* A request of the next hop for our address also teaches us its own
RxRequest ==
    /\ rx.pc = "idle"
    /\ Learn("request")
    /\ UNCHANGED <<made, snd, waiting, waitTimers, flushTimers, requested, queueVars, rx,
                   timer, wire>>

-----------------------------------------------------------------------------
(* The timer thread *)

\* _arp_wait_remove: a KeyError if another timer was first
WaitTimeout ==
    /\ timer = "running"
    /\ waitTimers > 0
    /\ waitTimers' = waitTimers - 1
    /\ waiting' = FALSE
    /\ timer' = IF waiting THEN timer ELSE "dead"
    /\ UNCHANGED <<made, snd, cache, flushTimers, requested, queueVars, rx, wire>>

\* flush_entry
FlushTimeout ==
    /\ timer = "running"
    /\ flushTimers > 0
    /\ flushTimers' = flushTimers - 1
    /\ cache' = "none"
    /\ UNCHANGED <<made, snd, waiting, waitTimers, requested, queueVars, rx, timer, wire>>

Sender(s) ==
    \/ TxIp(s) \/ TxEther(s) \/ Unresolved(s)
    \/ ArpWaitTest(s) \/ ArpWaitAdd(s) \/ ArpWaitTimer(s) \/ TxArp(s)
    \/ PutTest(s) \/ PutAppend(s) \/ PutLog(s) \/ PutCreate(s)

Next ==
    \/ \E s \in Senders : Sender(s)
    \/ RxReply \/ RxFlush \/ RxRelease \/ RxLoop \/ RxPop \/ RxRequest
    \/ WaitTimeout \/ FlushTimeout

Spec == Init /\ [][Next]_vars

-----------------------------------------------------------------------------
(* Properties *)

\* No datagram goes out twice, whether it finds the address in the cache, waits in the
\* queue while several replies are released, or is queued during a release.
AtMostOnce == \A d \in Datagrams : wire[d] <= 1

\* An entry learnt from a reply is never permanent: whatever timers of earlier replies
\* fired meanwhile, one that flushes it is scheduled or about to be (rx_arp).
ReplyEntryHasTimer == cache = "reply" /\ rx.pc # "flush" => flushTimers > 0

-----------------------------------------------------------------------------
(* Statements of comments that the code does not keep *)

\* "If there was a pending normal ARP request for this IP", its datagrams are in the
\* temporary buffer and the reply releases them: handling a reply never ends the RX thread.
ReplyHandled == rx.pc # "dead"

\* "Upon expiration, the entry is removed from the list": no address is left in the wait
\* list without a thread that could remove it.
WaitExpires == waiting => timer = "running"
=============================================================================
