----------------------------- MODULE TimerLoop ------------------------------
(***************************************************************************)
(* The timer thread (components/timer.py): a heap of tasks ordered by due  *)
(* time, a loop that pops and runs the tasks that are due and sleeps until *)
(* the next one, and any number of threads that schedule and remove tasks. *)
(*                                                                         *)
(* _cond is held by schedule_timer while it pushes, and by the loop while  *)
(* it looks at the heap; it is free while the loop waits, tests _deleted   *)
(* or runs a callback.  A notification is lost unless the loop waits.      *)
(* Callbacks return; one that raises ends the thread (see ArpResolve).     *)
(***************************************************************************)
EXTENDS Naturals, Sequences

CONSTANTS
    MaxTasks,    \* bound on the tasks scheduled
    Delays,      \* the delays they are scheduled with, in ms
    MaxTime      \* bound on the clock

ASSUME TimerAssumption == MaxTasks \in Nat /\ MaxTime \in Nat /\ Delays \subseteq Nat

Tasks == 1 .. MaxTasks

VARIABLES
    now,         \* monotonic_ns() // 1_000_000, from 1
    made,        \* tasks created so far
    at,          \* execute_at_ms() of each task
    pushing,     \* tasks created, not yet in the heap
    heap,        \* _tasks
    deleted,     \* tasks marked as deleted
    pc,          \* step of the timer thread
    ready,       \* ready_tasks, those not yet tested
    cur,         \* the task tested last
    deadline,    \* when the wait in progress ends by itself; 0 for never
    notified,    \* the wait in progress has been notified
    stop,        \* _stop_thread
    runs         \* how often each task's callback was called

taskVars == <<made, at, pushing, heap, deleted>>
loopVars == <<pc, ready, cur, deadline, notified>>
vars == <<now, taskVars, loopVars, stop, runs>>

Init ==
    /\ now = 1
    /\ made = 0 /\ at = [t \in Tasks |-> 0]
    /\ pushing = {} /\ heap = {} /\ deleted = {}
    /\ pc = "test" /\ ready = <<>> /\ cur = 0 /\ deadline = 0 /\ notified = FALSE
    /\ stop = FALSE
    /\ runs = [t \in Tasks |-> 0]

Tick ==
    /\ now < MaxTime
    /\ now' = now + 1
    /\ UNCHANGED <<taskVars, loopVars, stop, runs>>

-----------------------------------------------------------------------------
(* Threads that use the timer *)

\* _cond is free: the loop is not looking at the heap
CondFree == pc \notin {"pop"}

Notify == notified' = (notified \/ pc \in {"wait_task", "wait_due"})

\* schedule_timer: TimerTask takes the time before the lock is taken
CreateTask(d) ==
    /\ made < MaxTasks
    /\ now + d <= MaxTime
    /\ made' = made + 1
    /\ at' = [at EXCEPT ![made + 1] = now + d]
    /\ pushing' = pushing \cup {made + 1}
    /\ UNCHANGED <<now, heap, deleted, loopVars, stop, runs>>

\* schedule_timer: push and notify
ScheduleTimer(t) ==
    /\ t \in pushing
    /\ CondFree
    /\ pushing' = pushing \ {t}
    /\ heap' = heap \cup {t}
    /\ Notify
    /\ UNCHANGED <<now, made, at, deleted, pc, ready, cur, deadline, stop, runs>>

\* TimerTask.remove, by a thread that schedule_timer has returned to
Remove(t) ==
    /\ t \in 1 .. made /\ t \notin pushing
    /\ deleted' = deleted \cup {t}
    /\ UNCHANGED <<now, made, at, pushing, heap, loopVars, stop, runs>>

Shutdown ==
    /\ ~ stop
    /\ CondFree
    /\ stop' = TRUE
    /\ Notify
    /\ UNCHANGED <<now, taskVars, pc, ready, cur, deadline, runs>>

-----------------------------------------------------------------------------
(* The timer thread: _timer_loop *)

Goto(p) == pc' = p /\ UNCHANGED <<now, taskVars, stop>>

\* while not self._stop_thread, without the lock
TestStop ==
    /\ pc = "test"
    /\ Goto(IF stop THEN "ended" ELSE "look")
    /\ UNCHANGED <<ready, cur, deadline, notified, runs>>

\* An empty heap: wait for a task, then start over
Look ==
    /\ pc = "look"
    /\ Goto(IF heap = {} THEN "wait_task" ELSE "pop")
    /\ deadline' = 0 /\ notified' = FALSE
    /\ UNCHANGED <<ready, cur, runs>>

\* heap[0]: the earliest task; the counter breaks ties in the order of the pushes,
\* which is any order here
IsFirst(t) == t \in heap /\ \A u \in heap : at[t] <= at[u]

\* Mutant: a task of the next millisecond is taken too
DueEarly(t) == at[t] <= now + 1

Due(t) == at[t] <= now

\* Mutant: a task that is due stays in the heap
PopKeeps ==
    /\ pc = "pop"
    /\ \E t \in heap : IsFirst(t) /\ Due(t) /\ ready' = Append(ready, t)
    /\ pc' = "exec"
    /\ UNCHANGED <<now, taskVars, cur, deadline, notified, stop, runs>>

\* heappop while the first task is due
Pop ==
    /\ pc = "pop"
    /\ \E t \in heap : /\ IsFirst(t) /\ Due(t)
                       /\ heap' = heap \ {t}
                       /\ ready' = Append(ready, t)
    /\ UNCHANGED <<now, made, at, pushing, deleted, pc, cur, deadline, notified, stop, runs>>

PopDone ==
    /\ pc = "pop"
    /\ \A t \in heap : IsFirst(t) => ~ Due(t)
    /\ Goto("exec")
    /\ UNCHANGED <<ready, cur, deadline, notified, runs>>

\* TimerTask.execute: test _deleted
Execute ==
    /\ pc = "exec" /\ ready # <<>>
    /\ cur' = Head(ready)
    /\ ready' = Tail(ready)
    /\ Goto(IF cur' \in deleted THEN "exec" ELSE "call")
    /\ UNCHANGED <<deadline, notified, runs>>

\* TimerTask.execute: the callback
Call ==
    /\ pc = "call"
    /\ runs' = [runs EXCEPT ![cur] = @ + 1]
    /\ Goto("exec")
    /\ UNCHANGED <<ready, cur, deadline, notified>>

\* Mutant: the wait is computed before the callbacks run
SleepStale ==
    /\ pc = "exec" /\ ready = <<>>
    /\ Goto("wait_due")
    /\ notified' = FALSE
    /\ UNCHANGED <<ready, cur, deadline, runs>>

\* Wait until the first task is due, or for ever when there is none
Sleep ==
    /\ pc = "exec" /\ ready = <<>>
    /\ Goto("wait_due")
    /\ \/ heap = {} /\ deadline' = 0
       \/ \E t \in heap : IsFirst(t) /\ deadline' = IF Due(t) THEN now ELSE at[t]
    /\ notified' = FALSE
    /\ UNCHANGED <<ready, cur, runs>>

\* Mutant: a wait has no time-out
WakeNotified ==
    /\ pc \in {"wait_task", "wait_due"}
    /\ notified
    /\ Goto("test")
    /\ UNCHANGED <<ready, cur, deadline, notified, runs>>

\* A wait ends by notification or time-out
Wake ==
    /\ pc \in {"wait_task", "wait_due"}
    /\ notified \/ (deadline # 0 /\ deadline <= now)
    /\ Goto("test")
    /\ UNCHANGED <<ready, cur, deadline, notified, runs>>

Loop == TestStop \/ Look \/ Pop \/ PopDone \/ Execute \/ Call \/ Sleep \/ Wake

Next ==
    \/ Tick
    \/ \E d \in Delays : CreateTask(d)
    \/ \E t \in Tasks : ScheduleTimer(t) \/ Remove(t)
    \/ Shutdown
    \/ Loop

Spec == Init /\ [][Next]_vars

\* Time passes, the timer thread runs, and a thread that schedules a task finishes
FairSpec ==
    /\ Spec
    /\ WF_vars(Tick)
    /\ WF_vars(Loop)
    /\ \A t \in Tasks : WF_vars(ScheduleTimer(t))

-----------------------------------------------------------------------------
(* Properties *)

Steps == {"test", "look", "wait_task", "pop", "exec", "call", "wait_due", "ended"}

\* Type invariant; a task is in the heap or in the list of ready tasks only after it was
\* created.
TypeOK ==
    /\ now \in Nat \ {0}
    /\ made \in 0 .. MaxTasks /\ at \in [Tasks -> Nat]
    /\ pushing \subseteq 1 .. made /\ heap \subseteq 1 .. made /\ deleted \subseteq 1 .. made
    /\ pc \in Steps /\ ready \in Seq(1 .. made) /\ cur \in 0 .. made
    /\ (pc = "call" => cur # 0)
    /\ deadline \in Nat /\ notified \in BOOLEAN /\ stop \in BOOLEAN
    /\ runs \in [Tasks -> Nat]

\* The loop never sleeps past a task: while it waits and nobody has notified it, its
\* wait ends no later than the first task of the heap is due (or now, if that is later),
\* whatever was scheduled while it ran callbacks (the timeout is computed after them).
NeverOversleeps ==
    pc \in {"wait_task", "wait_due"} /\ ~ notified /\ heap # {} =>
        /\ deadline # 0
        /\ \A t \in heap : deadline <= at[t] \/ deadline <= now

\* No task runs before it is due, although the loop compares and pops under the lock and
\* calls much later, among tasks scheduled meanwhile.
NeverEarly == pc = "call" => at[cur] <= now

\* A task is called at most once (heappop and the list of ready tasks).
AtMostOnce == \A t \in Tasks : runs[t] <= 1

\* A task that is scheduled runs, unless it is removed or the timer is shut down.
EveryTaskRuns == \A t \in Tasks : t \in heap ~> runs[t] > 0 \/ t \in deleted \/ stop

-----------------------------------------------------------------------------
(* Statement of a comment that the code does not keep *)

\* "ignores it if it has been marked as deleted": the callback of a removed task is not
\* called.
RemovedNotCalled == [][\A t \in deleted : runs'[t] = runs[t]]_vars
=============================================================================
