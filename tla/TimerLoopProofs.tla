-------------------------- MODULE TimerLoopProofs --------------------------
(***************************************************************************)
(* For any number of tasks, delays and threads: the timer thread never     *)
(* sleeps past a task, runs none before it is due and none twice.          *)
(***************************************************************************)
EXTENDS TimerLoop, TLAPS

\* The provers, and their seconds, for a leaf that names none
USE SMTT(30), ZenonT(30)

\* What was popped is due
ReadyDue == /\ \A i \in 1 .. Len(ready) : at[ready[i]] <= now
            /\ NeverEarly

\* A task is in one place at a time, and has not run before it leaves the last one
Fresh(t) == runs[t] = 0

OnePlace ==
    /\ \A t \in Tasks : t > made => Fresh(t)
    /\ \A t \in pushing \cup heap : Fresh(t)
    /\ pushing \cap heap = {}
    /\ \A i \in 1 .. Len(ready) : Fresh(ready[i]) /\ ready[i] \notin pushing \cup heap
    /\ \A i, j \in 1 .. Len(ready) : ready[i] = ready[j] => i = j
    /\ pc = "call" => /\ Fresh(cur) /\ cur \notin pushing \cup heap
                      /\ \A i \in 1 .. Len(ready) : ready[i] # cur

\* Initially
LEMMA TypeInit == Init => TypeOK
<1> SUFFICES ASSUME Init PROVE TypeOK
  OBVIOUS
<1>1. /\ now \in Nat \ {0} /\ made \in 0 .. MaxTasks /\ at \in [Tasks -> Nat]
      /\ ready \in Seq(1 .. made) /\ cur \in 0 .. made
      /\ deadline \in Nat /\ runs \in [Tasks -> Nat]
  BY TimerAssumption DEF Init
<1> QED BY <1>1, Zenon DEF Init, TypeOK, Steps

\* No step of any thread leaves the types
LEMMA TypeStep == TypeOK /\ [Next]_vars => TypeOK'
<1> SUFFICES ASSUME TypeOK, [Next]_vars PROVE TypeOK'
  OBVIOUS
<1> USE DEF TypeOK, Steps
<1>1. CASE Tick
  BY <1>1 DEF Tick, taskVars, loopVars
<1>2. ASSUME NEW d \in Delays, CreateTask(d) PROVE TypeOK'
  <2>1. made' \in 0 .. MaxTasks /\ 1 .. made \subseteq 1 .. made' /\ made + 1 \in 1 .. made'
    BY <1>2, TimerAssumption DEF CreateTask
  <2>2. at' \in [Tasks -> Nat]
    BY <1>2, TimerAssumption DEF CreateTask, Tasks
  <2>3. pushing' \subseteq 1 .. made' /\ heap' \subseteq 1 .. made' /\ deleted' \subseteq 1 .. made'
    BY <1>2, <2>1 DEF CreateTask
  <2>4. ready' \in Seq(1 .. made') /\ cur' \in 0 .. made'
    BY <1>2, <2>1 DEF CreateTask, loopVars
  <2> QED BY <1>2, <2>1, <2>2, <2>3, <2>4 DEF CreateTask, loopVars
<1>3. ASSUME NEW t \in Tasks, ScheduleTimer(t) PROVE TypeOK'
  BY <1>3, Zenon DEF ScheduleTimer, Notify
<1>4. ASSUME NEW t \in Tasks, Remove(t) PROVE TypeOK'
  BY <1>4 DEF Remove, loopVars
<1>5. CASE Shutdown
  BY <1>5, Zenon DEF Shutdown, Notify, taskVars
<1>6. CASE TestStop
  BY <1>6 DEF TestStop, Goto, taskVars
<1>7. CASE Look
  BY <1>7, Zenon DEF Look, Goto, taskVars
<1>8. CASE Pop
  BY <1>8 DEF Pop
<1>9. CASE PopDone
  BY <1>9 DEF PopDone, Goto, taskVars
<1>10. CASE Execute
  <2>1. cur' \in 1 .. made /\ ready' \in Seq(1 .. made)
    BY <1>10 DEF Execute
  <2> QED BY <1>10, <2>1 DEF Execute, Goto, taskVars
<1>11. CASE Call
  <2>1. runs' \in [Tasks -> Nat]
    <3>1. cur \in Tasks
      BY <1>11, TimerAssumption DEF Call, Tasks
    <3>2. runs[cur] + 1 \in Nat
      BY <3>1
    <3> QED BY <1>11, <3>1, <3>2 DEF Call
  <2> QED BY <1>11, <2>1 DEF Call, Goto, taskVars
<1>12. CASE Sleep
  <2>1. heap \subseteq Tasks
    BY TimerAssumption DEF Tasks
  <2>2. deadline' \in Nat
    BY <1>12, <2>1 DEF Sleep
  <2> QED BY <1>12, <2>2, Zenon DEF Sleep, Goto, taskVars
<1>13. CASE Wake
  BY <1>13 DEF Wake, Goto, taskVars
<1>14. CASE UNCHANGED vars
  BY <1>14 DEF vars, taskVars, loopVars
<1> QED BY <1>1, <1>2, <1>3, <1>4, <1>5, <1>6, <1>7, <1>8, <1>9, <1>10, <1>11, <1>12, <1>13,
           <1>14 DEF Next, Loop

\* The wait, step by step: a task pushed while the loop waits notifies it, and the loop
\* takes its deadline from the heap it leaves behind
LEMMA SleepStep == TypeOK /\ NeverOversleeps /\ [Next]_vars => NeverOversleeps'
<1> SUFFICES ASSUME TypeOK, NeverOversleeps, [Next]_vars PROVE NeverOversleeps'
  OBVIOUS
<1> USE DEF NeverOversleeps
<1>0. heap \subseteq Tasks /\ at \in [Tasks -> Nat] /\ now \in Nat \ {0} /\ deadline \in Nat
  BY TimerAssumption DEF TypeOK, Tasks
<1>1. CASE Tick
  BY <1>0, <1>1 DEF Tick, taskVars, loopVars
<1>2. ASSUME NEW d \in Delays, CreateTask(d) PROVE NeverOversleeps'
  <2>1. \A t \in heap : at'[t] = at[t]
    <3>1. made + 1 \notin heap
      BY DEF TypeOK
    <3> QED BY <1>0, <1>2, <3>1 DEF CreateTask
  <2> QED BY <1>2, <2>1 DEF CreateTask, loopVars
<1>3. ASSUME NEW t \in Tasks, ScheduleTimer(t) PROVE NeverOversleeps'
  BY <1>3, Zenon DEF ScheduleTimer, Notify
<1>4. ASSUME NEW t \in Tasks, Remove(t) PROVE NeverOversleeps'
  BY <1>4 DEF Remove, loopVars
<1>5. CASE Shutdown
  BY <1>5, Zenon DEF Shutdown, Notify, taskVars
<1>6. CASE TestStop
  BY <1>6 DEF TestStop, Goto, taskVars
<1>7. CASE Look
  BY <1>7 DEF Look, Goto, taskVars
<1>8. CASE Pop
  BY <1>8 DEF Pop
<1>9. CASE PopDone
  BY <1>9 DEF PopDone, Goto, taskVars
<1>10. CASE Execute
  BY <1>10 DEF Execute, Goto, taskVars
<1>11. CASE Call
  BY <1>11 DEF Call, Goto, taskVars
<1>12. CASE Sleep
  <2>1. CASE heap = {}
    BY <1>12, <2>1 DEF Sleep, Goto, taskVars
  <2>2. CASE heap # {}
    <3>1. PICK t \in heap : IsFirst(t) /\ deadline' = IF Due(t) THEN now ELSE at[t]
      BY <1>12, <2>2 DEF Sleep
    <3>2. heap' = heap /\ at' = at /\ now' = now
      BY <1>12 DEF Sleep, Goto, taskVars
    <3>3. deadline' # 0 /\ \A u \in heap : deadline' <= at[u] \/ deadline' <= now
      BY <1>0, <3>1 DEF IsFirst, Due
    <3> QED BY <3>2, <3>3
  <2> QED BY <2>1, <2>2
<1>13. CASE Wake
  BY <1>13 DEF Wake, Goto, taskVars
<1>14. CASE UNCHANGED vars
  BY <1>14 DEF vars, taskVars, loopVars
<1> QED BY <1>1, <1>2, <1>3, <1>4, <1>5, <1>6, <1>7, <1>8, <1>9, <1>10, <1>11, <1>12, <1>13,
           <1>14 DEF Next, Loop

\* What was popped stays due, and what is called was popped
LEMMA DueStep == TypeOK /\ ReadyDue /\ [Next]_vars => ReadyDue'
<1> SUFFICES ASSUME TypeOK, ReadyDue, [Next]_vars PROVE ReadyDue'
  OBVIOUS
<1> USE DEF ReadyDue, NeverEarly
<1>0. /\ heap \subseteq Tasks /\ at \in [Tasks -> Nat] /\ now \in Nat /\ ready \in Seq(1 .. made)
      /\ made \in Nat /\ 1 .. made \subseteq Tasks /\ (pc = "call" => cur \in 1 .. made)
  BY TimerAssumption DEF TypeOK, Tasks
<1>1. CASE Tick
  <2>1. \A i \in 1 .. Len(ready) : at[ready[i]] \in Nat
    BY <1>0
  <2>2. pc = "call" => at[cur] \in Nat
    BY <1>0
  <2> QED BY <1>0, <1>1, <2>1, <2>2 DEF Tick, taskVars, loopVars
<1>2. ASSUME NEW d \in Delays, CreateTask(d) PROVE ReadyDue'
  <2>1. \A t \in 1 .. made : at'[t] = at[t]
    BY <1>0, <1>2 DEF CreateTask
  <2>2. ready' = ready /\ cur' = cur /\ pc' = pc /\ now' = now
    BY <1>2 DEF CreateTask, loopVars
  <2>3. \A i \in 1 .. Len(ready) : at'[ready[i]] = at[ready[i]]
    BY <1>0, <2>1
  <2>4. pc = "call" => at'[cur] = at[cur]
    BY <1>0, <2>1
  <2> QED BY <2>2, <2>3, <2>4
<1>3. ASSUME NEW t \in Tasks, ScheduleTimer(t) PROVE ReadyDue'
  BY <1>3 DEF ScheduleTimer
<1>4. ASSUME NEW t \in Tasks, Remove(t) PROVE ReadyDue'
  BY <1>4 DEF Remove, loopVars
<1>5. CASE Shutdown
  BY <1>5 DEF Shutdown, taskVars
<1>6. CASE TestStop
  BY <1>6 DEF TestStop, Goto, taskVars
<1>7. CASE Look
  BY <1>7 DEF Look, Goto, taskVars
<1>8. CASE Pop
  <2>1. PICK t \in heap : Due(t) /\ ready' = Append(ready, t)
    BY <1>8 DEF Pop
  <2>2. UNCHANGED <<now, at, pc, cur>> /\ at[t] <= now
    BY <1>8, <2>1 DEF Pop, Due
  <2>3. t \in Tasks /\ ready \in Seq(Tasks)
    BY <1>0
  <2>4. ASSUME NEW i \in 1 .. Len(ready') PROVE at[ready'[i]] <= now
    <3>1. (i \in 1 .. Len(ready) /\ ready'[i] = ready[i]) \/ ready'[i] = t
      BY <2>1, <2>3
    <3> QED BY <2>2, <3>1
  <2> QED BY <2>2, <2>4
<1>9. CASE PopDone
  BY <1>9 DEF PopDone, Goto, taskVars
<1>10. CASE Execute
  BY <1>0, <1>10 DEF Execute, Goto, taskVars
<1>11. CASE Call
  BY <1>11 DEF Call, Goto, taskVars
<1>12. CASE Sleep
  BY <1>12 DEF Sleep, Goto, taskVars
<1>13. CASE Wake
  BY <1>13 DEF Wake, Goto, taskVars
<1>14. CASE UNCHANGED vars
  BY <1>14 DEF vars, taskVars, loopVars
<1> QED BY <1>1, <1>2, <1>3, <1>4, <1>5, <1>6, <1>7, <1>8, <1>9, <1>10, <1>11, <1>12, <1>13,
           <1>14 DEF Next, Loop

\* A task moves from its scheduler to the heap, to the ready list and to its call
LEMMA PlaceStep == TypeOK /\ OnePlace /\ [Next]_vars => OnePlace'
<1> SUFFICES ASSUME TypeOK, OnePlace, [Next]_vars PROVE OnePlace'
  OBVIOUS
<1> USE DEF OnePlace, Fresh
<1>0. /\ ready \in Seq(1 .. made) /\ made \in Nat /\ 1 .. made \subseteq Tasks
      /\ pushing \subseteq 1 .. made /\ heap \subseteq 1 .. made /\ cur \in 0 .. made
      /\ runs \in [Tasks -> Nat]
  BY TimerAssumption DEF TypeOK, Tasks
<1>1. CASE Tick
  BY <1>1 DEF Tick, taskVars, loopVars
<1>2. ASSUME NEW d \in Delays, CreateTask(d) PROVE OnePlace'
  <2>1. made + 1 \in Tasks /\ runs[made + 1] = 0
    BY <1>0, <1>2, TimerAssumption DEF CreateTask, Tasks
  <2>2. \A i \in 1 .. Len(ready) : ready[i] # made + 1
    BY <1>0
  <2>3. made + 1 \notin heap /\ cur # made + 1
    BY <1>0
  <2>4. \A t \in Tasks : t > made + 1 => runs[t] = 0
    BY <1>0 DEF Tasks
  <2> QED BY <1>2, <2>1, <2>2, <2>3, <2>4 DEF CreateTask, loopVars
<1>3. ASSUME NEW t \in Tasks, ScheduleTimer(t) PROVE OnePlace'
  BY <1>3 DEF ScheduleTimer
<1>4. ASSUME NEW t \in Tasks, Remove(t) PROVE OnePlace'
  BY <1>4 DEF Remove, loopVars
<1>5. CASE Shutdown
  BY <1>5 DEF Shutdown, taskVars
<1>6. CASE TestStop
  BY <1>6 DEF TestStop, Goto, taskVars
<1>7. CASE Look
  BY <1>7 DEF Look, Goto, taskVars
<1>8. CASE Pop
  <2>1. PICK t \in heap : heap' = heap \ {t} /\ ready' = Append(ready, t)
    BY <1>8 DEF Pop
  <2>2. /\ Len(ready') = Len(ready) + 1 /\ ready'[Len(ready) + 1] = t
        /\ \A i \in 1 .. Len(ready) : ready'[i] = ready[i]
    BY <1>0, <2>1
  <2>3. /\ made' = made /\ pushing' = pushing /\ pc' = pc /\ cur' = cur /\ runs' = runs
        /\ pc = "pop"
    BY <1>8 DEF Pop
  <2>4. \A i \in 1 .. Len(ready') : ready'[i] = t \/ (i \in 1 .. Len(ready) /\ ready'[i] = ready[i])
    <3>1. Len(ready) \in Nat
      BY <1>0
    <3>2. \A i \in 1 .. Len(ready') : i = Len(ready) + 1 \/ i \in 1 .. Len(ready)
      BY <2>2, <3>1
    <3> QED BY <2>2, <3>2
  <2>5. \A i, j \in 1 .. Len(ready') : ready'[i] = ready'[j] => i = j
    BY <1>0, <2>1, <2>2
  <2>6. \A i \in 1 .. Len(ready') : runs[ready'[i]] = 0 /\ ready'[i] \notin pushing \cup heap'
    BY <2>1, <2>4
  <2> QED BY <2>1, <2>3, <2>5, <2>6
<1>9. CASE PopDone
  BY <1>9 DEF PopDone, Goto, taskVars
<1>10. CASE Execute
  <2>1. /\ cur' = ready[1] /\ Len(ready') = Len(ready) - 1 /\ 1 \in 1 .. Len(ready)
        /\ \A i \in 1 .. Len(ready') : i + 1 \in 1 .. Len(ready) /\ ready'[i] = ready[i + 1]
    BY <1>0, <1>10 DEF Execute
  <2>2. made' = made /\ pushing' = pushing /\ heap' = heap /\ runs' = runs
    BY <1>10 DEF Execute, Goto, taskVars
  <2>3. \A i \in 1 .. Len(ready') : /\ runs[ready'[i]] = 0 /\ ready'[i] \notin pushing \cup heap
                                   /\ ready'[i] # cur'
    <3> SUFFICES ASSUME NEW i \in 1 .. Len(ready')
                 PROVE  /\ runs[ready'[i]] = 0 /\ ready'[i] \notin pushing \cup heap
                        /\ ready'[i] # cur'
      OBVIOUS
    <3>1. i + 1 \in 1 .. Len(ready) /\ ready'[i] = ready[i + 1] /\ i + 1 # 1
      BY <2>1
    <3> QED BY <2>1, <3>1
  <2>4. \A i, j \in 1 .. Len(ready') : ready'[i] = ready'[j] => i = j
    <3> SUFFICES ASSUME NEW i \in 1 .. Len(ready'), NEW j \in 1 .. Len(ready'), ready'[i] = ready'[j]
                 PROVE  i = j
      OBVIOUS
    <3>1. i + 1 \in 1 .. Len(ready) /\ j + 1 \in 1 .. Len(ready) /\ ready[i + 1] = ready[j + 1]
      BY <2>1
    <3>2. i + 1 = j + 1
      BY <3>1
    <3> QED BY <3>2
  <2> QED BY <2>1, <2>2, <2>3, <2>4
<1>11. CASE Call
  <2>1. \A t \in Tasks : t # cur => runs'[t] = runs[t]
    BY <1>0, <1>11 DEF Call
  <2>2. /\ pc' = "exec" /\ made' = made /\ pushing' = pushing /\ heap' = heap /\ ready' = ready
    BY <1>11 DEF Call, Goto, taskVars
  <2>3. \A t \in Tasks : t > made => t # cur
    BY <1>0 DEF Tasks
  <2>4. \A i \in 1 .. Len(ready) : ready[i] \in Tasks /\ ready[i] # cur
    BY <1>0, <1>11 DEF Call
  <2>5. \A t \in pushing \cup heap : t \in Tasks /\ t # cur
    BY <1>0, <1>11 DEF Call
  <2> QED BY <2>1, <2>2, <2>3, <2>4, <2>5
<1>12. CASE Sleep
  BY <1>12 DEF Sleep, Goto, taskVars
<1>13. CASE Wake
  BY <1>13 DEF Wake, Goto, taskVars
<1>14. CASE UNCHANGED vars
  BY <1>14 DEF vars, taskVars, loopVars
<1> QED BY <1>1, <1>2, <1>3, <1>4, <1>5, <1>6, <1>7, <1>8, <1>9, <1>10, <1>11, <1>12, <1>13,
           <1>14 DEF Next, Loop

-----------------------------------------------------------------------------
(* Theorems *)

\* The wait of _timer_loop ends no later than the first task of the heap is due.
THEOREM TimerNeverOversleeps == Spec => []NeverOversleeps
<1>1. Init => TypeOK /\ NeverOversleeps
  BY TypeInit DEF Init, NeverOversleeps
<1>2. TypeOK /\ NeverOversleeps /\ [Next]_vars => (TypeOK /\ NeverOversleeps)'
  BY TypeStep, SleepStep
<1> QED BY <1>1, <1>2, PTL DEF Spec

\* TimerTask.execute calls no task before its time.
THEOREM TimerNeverEarly == Spec => []NeverEarly
<1>1. Init => TypeOK /\ ReadyDue
  BY TypeInit DEF Init, ReadyDue, NeverEarly
<1>2. TypeOK /\ ReadyDue /\ [Next]_vars => (TypeOK /\ ReadyDue)'
  BY TypeStep, DueStep
<1>3. ReadyDue => NeverEarly
  BY DEF ReadyDue
<1> QED BY <1>1, <1>2, <1>3, PTL DEF Spec

\* No interleaving of schedulers and the loop calls a task twice.
THEOREM TimerAtMostOnce == Spec => []AtMostOnce
<1>1. Init => TypeOK /\ OnePlace /\ AtMostOnce
  BY TypeInit DEF Init, OnePlace, Fresh, AtMostOnce
<1>2. TypeOK /\ OnePlace /\ AtMostOnce /\ [Next]_vars => AtMostOnce'
  <2> SUFFICES ASSUME TypeOK, OnePlace, AtMostOnce, [Next]_vars PROVE AtMostOnce'
    OBVIOUS
  <2>1. CASE Call
    BY <2>1 DEF Call, AtMostOnce, OnePlace, Fresh, TypeOK
  <2>2. CASE runs' = runs
    BY <2>2 DEF AtMostOnce
  <2>3. Call \/ runs' = runs
    BY Zenon DEF Next, Loop, Tick, CreateTask, ScheduleTimer, Remove, Shutdown, TestStop, Look,
                 Pop, PopDone, Execute, Sleep, Wake, vars
  <2> QED BY <2>1, <2>2, <2>3
<1>3. TypeOK /\ OnePlace /\ [Next]_vars => (TypeOK /\ OnePlace)'
  BY TypeStep, PlaceStep
<1> QED BY <1>1, <1>2, <1>3, PTL DEF Spec
=============================================================================
