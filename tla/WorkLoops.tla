----------------------------- MODULE WorkLoops ------------------------------
(***************************************************************************)
(* The three threads that take work from a queue under a condition         *)
(* variable: the TX ring (components/tx_ring.py), the RX ring              *)
(* (components/rx_ring.py) and the TCP event loop (components/             *)
(* tcp_events.py).  They differ in how much they take at a time and in     *)
(* what they hold meanwhile: kind says which one a behaviour is about.     *)
(*                                                                         *)
(* Items are numbered in the order they are put into the queue.  Handling  *)
(* one is a step: the handlers are taken neither to raise nor to spin.     *)
(* TcpFsm and IpInput have the cases in which they do; an exception leaves *)
(* _process_events and _deque_batch uncaught and ends the thread.          *)
(***************************************************************************)
EXTENDS Naturals, Sequences

CONSTANTS
    MaxItems,     \* bound on the items put into the queue
    MaxEvents     \* MAX_EVENTS, the most the event loop takes at a time

ASSUME LoopsAssumption == MaxItems \in Nat /\ MaxEvents \in Nat \ {0}

VARIABLES
    kind,         \* "tx", "rx" or "events"
    queue,        \* _queue, _events_queue
    added,        \* number of items ever put into the queue
    batch,        \* rx: items taken; tx: the frame being written
    left,         \* events: pops still to do in this round
    handled,      \* items handled, in order (history)
    loop,         \* step of the thread
    woken,        \* its wait has been notified
    stop,         \* _stop_thread
    stopping      \* shutdown() has still to notify

loopsVars == <<kind, queue, added, batch, left, handled, loop, woken, stop, stopping>>

LoopsInit ==
    /\ kind \in {"tx", "rx", "events"}
    /\ queue = <<>> /\ added = 0 /\ batch = <<>> /\ left = 0 /\ handled = <<>>
    /\ loop = "test" /\ woken = FALSE
    /\ stop = FALSE /\ stopping = FALSE

Min(a, b) == IF a < b THEN a ELSE b

\* The TX thread builds and writes the frame with the lock held
LockFree == loop # "write"

-----------------------------------------------------------------------------
(* Putting work into the queue *)

\* Mutant: nobody is notified
EnqueueSilent ==
    /\ LockFree /\ added < MaxItems
    /\ added' = added + 1 /\ queue' = Append(queue, added')
    /\ UNCHANGED <<kind, batch, left, handled, loop, woken, stop, stopping>>

\* enqueue, schedule_event, and the reading thread of the RX ring
Enqueue ==
    /\ LockFree /\ added < MaxItems
    /\ added' = added + 1 /\ queue' = Append(queue, added')
    /\ woken' = (loop = "wait")
    /\ UNCHANGED <<kind, batch, left, handled, loop, stop, stopping>>

\* stop_stack; only the event loop is notified, in a step of its own
Shutdown ==
    /\ ~ stop
    /\ stop' = TRUE /\ stopping' = (kind = "events")
    /\ UNCHANGED <<kind, queue, added, batch, left, handled, loop, woken>>

ShutdownNotify ==
    /\ stopping
    /\ stopping' = FALSE /\ woken' = (loop = "wait")
    /\ UNCHANGED <<kind, queue, added, batch, left, handled, loop, stop>>

-----------------------------------------------------------------------------
(* The loop *)

TestStop ==
    /\ loop = "test"
    /\ loop' = IF stop THEN "done" ELSE "enter"
    /\ UNCHANGED <<kind, queue, added, batch, left, handled, woken, stop, stopping>>

\* Mutant: the most recent item is taken first
TakePops ==
    \/ /\ kind = "tx"
       /\ IF queue = <<>> THEN loop' = "IndexError" /\ UNCHANGED <<batch, queue>>
          ELSE /\ batch' = <<queue[Len(queue)]>> /\ queue' = SubSeq(queue, 1, Len(queue) - 1)
               /\ loop' = "write"
       /\ UNCHANGED left
    \/ /\ kind = "rx"
       /\ batch' = queue /\ queue' = <<>> /\ loop' = "handle" /\ UNCHANGED left
    \/ /\ kind = "events"
       /\ left' = Min(MaxEvents, Len(queue)) /\ loop' = "pop" /\ UNCHANGED <<batch, queue>>

\* What a round takes: one frame, all frames, or up to MAX_EVENTS events that stay in the queue
Take ==
    \/ /\ kind = "tx"
       /\ IF queue = <<>> THEN loop' = "IndexError" /\ UNCHANGED <<batch, queue>>
          ELSE batch' = <<Head(queue)>> /\ queue' = Tail(queue) /\ loop' = "write"
       /\ UNCHANGED left
    \/ /\ kind = "rx"
       /\ batch' = queue /\ queue' = <<>> /\ loop' = "handle" /\ UNCHANGED left
    \/ /\ kind = "events"
       /\ left' = Min(MaxEvents, Len(queue)) /\ loop' = "pop" /\ UNCHANGED <<batch, queue>>

\* with cond: if not queue: cond.wait()
Enter ==
    /\ loop = "enter"
    /\ IF queue = <<>> THEN loop' = "wait" /\ UNCHANGED <<batch, queue, left>> ELSE Take
    /\ UNCHANGED <<kind, added, handled, woken, stop, stopping>>

Wake ==
    /\ loop = "wait" /\ woken
    /\ woken' = FALSE
    /\ Take
    /\ UNCHANGED <<kind, added, handled, stop, stopping>>

WriteFrame ==
    /\ loop = "write"
    /\ handled' = handled \o batch /\ batch' = <<>>
    /\ loop' = "test"
    /\ UNCHANGED <<kind, queue, added, left, woken, stop, stopping>>

\* _deque_batch
HandlePacket ==
    /\ loop = "handle"
    /\ IF batch = <<>>
         THEN loop' = "test" /\ UNCHANGED <<handled, batch>>
         ELSE handled' = Append(handled, Head(batch)) /\ batch' = Tail(batch) /\ UNCHANGED loop
    /\ UNCHANGED <<kind, queue, added, left, woken, stop, stopping>>

\* Mutant: the queue is popped once more than it was long
PopEventPast ==
    /\ loop = "pop" /\ left >= 0
    /\ IF queue = <<>>
         THEN loop' = "IndexError" /\ UNCHANGED <<queue, handled, left>>
         ELSE /\ queue' = Tail(queue) /\ handled' = Append(handled, Head(queue))
              /\ left' = left - 1 /\ loop' = IF left = 0 THEN "test" ELSE "pop"
    /\ UNCHANGED <<kind, added, batch, woken, stop, stopping>>

\* One event is popped, without the lock, and handled
PopEvent ==
    /\ loop = "pop" /\ left > 0
    /\ IF queue = <<>>
         THEN loop' = "IndexError" /\ UNCHANGED <<queue, handled, left>>
         ELSE /\ queue' = Tail(queue) /\ handled' = Append(handled, Head(queue))
              /\ left' = left - 1 /\ UNCHANGED loop
    /\ UNCHANGED <<kind, added, batch, woken, stop, stopping>>

PopDone ==
    /\ loop = "pop" /\ left = 0
    /\ loop' = "test"
    /\ UNCHANGED <<kind, queue, added, batch, left, handled, woken, stop, stopping>>

Loop == TestStop \/ Enter \/ Wake \/ WriteFrame \/ HandlePacket \/ PopEvent \/ PopDone

LoopsNext == Enqueue \/ Shutdown \/ ShutdownNotify \/ Loop

LoopsSpec == LoopsInit /\ [][LoopsNext]_loopsVars

\* The thread runs when it can and shutdown() returns; calls come as they like
FairLoopsSpec == LoopsSpec /\ WF_loopsVars(Loop) /\ WF_loopsVars(ShutdownNotify)

-----------------------------------------------------------------------------
(* Properties *)

\* Frames, packets and events are handled once each and in the order in which they were
\* queued, whatever arrives during a round: nothing is overtaken, lost or taken twice.
HandledInOrder == handled \o batch \o queue = [i \in 1 .. added |-> i]

\* popleft() never meets an empty queue: a wake-up, also that of a shutdown, and the length
\* computed before the lock was released are good for what is popped after it.
PopFindsItem == loop # "IndexError"

\* Everything queued is handled unless the stack is shut down: no wake-up is lost between
\* the test of the queue and the wait (for handlers that return).
EveryItemHandled == \A n \in 1 .. MaxItems : (added >= n) ~> (Len(handled) >= n \/ stop)

-----------------------------------------------------------------------------
(* Statement that the code does not keep *)

\* shutdown() sets the flag and notifies the wait to end the event loop ("TCP Events
\* shutdown"); the flag is tested without the lock, so the notification may come too early.
ShutdownStopsLoop == (stop /\ kind = "events") ~> loop = "done"
=============================================================================
