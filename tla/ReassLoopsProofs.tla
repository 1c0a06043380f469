-------------------------- MODULE ReassLoopsProofs --------------------------
(***************************************************************************)
(* For every datagram, every way to cut it and every number of copies: the *)
(* buffers of an entry hold what its fragments brought, and the entry has  *)
(* a timer.  When the network delivers no fragment twice, only complete    *)
(* datagrams are passed on.                                                *)
(*                                                                         *)
(* For every number of items and every MAX_EVENTS: the work loops handle   *)
(* what is queued in order, and never pop from an empty queue.             *)
(***************************************************************************)
EXTENDS IpReass, WorkLoops, FiniteSetTheorems, TLAPS

\* The provers, and their seconds, for a leaf that names none
USE SMTT(30), ZenonT(30)

-----------------------------------------------------------------------------
(* Reassembly (IpReass) *)

AllCovered(fs) == UNION {Covered(f) : f \in fs}

\* The entry agrees with the fragments it was built from
EntryOK == live /\ rx.pc # "dead" => /\ (IF last THEN buf ELSE tmp) = AllCovered(got)
                                     /\ last => total = NBlocks

\* block_count counts the blocks received: true while no fragment comes twice
CountOK ==
    /\ \A f \in got : inflight[f] < Copies
    /\ rx.pc \in {"alloc", "body"} => inflight[rx.f] < Copies /\ rx.f \notin got
    /\ live /\ rx.pc # "dead" => count = Cardinality(AllCovered(got))

\* Fragments cover blocks of the datagram.
LEMMA CoveredType == \A f \in Fragments : Covered(f) \subseteq Blocks
BY ReassAssumption DEF Covered, Blocks

\* So do sets of fragments.
LEMMA AllCoveredType == \A fs \in SUBSET Fragments : AllCovered(fs) \subseteq Blocks
BY CoveredType DEF AllCovered

\* One more fragment adds its own blocks.
LEMMA AllCoveredAdd ==
    ASSUME NEW fs, NEW f
    PROVE  AllCovered(fs \cup {f}) = AllCovered(fs) \cup Covered(f)
BY DEF AllCovered

\* What one more fragment adds to the number of blocks covered, when it is new.
LEMMA CountAdd ==
    ASSUME NEW fs \in SUBSET Fragments, NEW f \in Fragments, f \notin fs
    PROVE  /\ Cardinality(AllCovered(fs)) \in Nat
           /\ Cardinality(AllCovered(fs \cup {f})) = Cardinality(AllCovered(fs)) + BlocksOf(f)
<1>1. IsFiniteSet(Blocks)
  BY FS_Interval, ReassAssumption DEF Blocks
<1>2. IsFiniteSet(AllCovered(fs)) /\ IsFiniteSet(Covered(f))
  BY <1>1, FS_Subset, AllCoveredType, CoveredType
<1>3. AllCovered(fs) \cap Covered(f) = {}
  BY ReassAssumption DEF AllCovered
<1>4. Cardinality(Covered(f)) = BlocksOf(f)
  <2>1. f.off \in Int /\ f.end \in Int /\ f.off < f.end
    BY ReassAssumption DEF Blocks
  <2>2. Cardinality(f.off .. f.end - 1) = IF f.off > f.end - 1 THEN 0 ELSE (f.end - 1) - f.off + 1
    BY <2>1, FS_Interval
  <2> QED BY <2>1, <2>2 DEF Covered, BlocksOf
<1>5. Cardinality(AllCovered(fs) \cup Covered(f))
        = Cardinality(AllCovered(fs)) + Cardinality(Covered(f)) - Cardinality({})
  BY <1>2, <1>3, FS_Union
<1>6. Cardinality({}) = 0
  BY FS_EmptySet
<1>7. Cardinality(AllCovered(fs)) \in Nat /\ Cardinality(Covered(f)) \in Nat
  BY <1>2, FS_CardinalityType
<1>8. AllCovered(fs \cup {f}) = AllCovered(fs) \cup Covered(f)
  BY AllCoveredAdd
<1>9. Cardinality(AllCovered(fs) \cup Covered(f)) = Cardinality(AllCovered(fs)) + BlocksOf(f)
  BY <1>4, <1>5, <1>6, <1>7
<1> QED BY <1>7, <1>8, <1>9, Zenon

\* A full count means that every block is there.
LEMMA CountFull ==
    ASSUME NEW fs \in SUBSET Fragments, Cardinality(AllCovered(fs)) = NBlocks
    PROVE  AllCovered(fs) = Blocks
<1>1. IsFiniteSet(Blocks) /\ Cardinality(Blocks) = NBlocks
  BY FS_Interval, ReassAssumption DEF Blocks
<1>2. AllCovered(fs) \subseteq Blocks
  BY AllCoveredType
<1> QED BY <1>1, <1>2, FS_Subset

-----------------------------------------------------------------------------
(* The type invariant *)

\* Initially
LEMMA TypeInit == Init => TypeOK
<1> SUFFICES ASSUME Init PROVE TypeOK
  OBVIOUS
<1>1. (CHOOSE f \in Fragments : TRUE) \in Fragments
  BY ReassAssumption
<1>2. rx \in [pc : Threads, f : Fragments] /\ inflight \in [Fragments -> 0 .. Copies]
  BY <1>1, ReassAssumption DEF Init, Threads
<1>3. 0 \in Nat /\ 0 \in 0 .. NBlocks
  BY ReassAssumption
<1> QED BY <1>2, <1>3, Zenon DEF Init, TypeOK

\* Reparsing only takes data away
LEMMA ReparsedType == \A h \in {"empty", "first", "whole"}, b \in SUBSET Blocks :
                          Reparsed(h, b) \in SUBSET Blocks
BY DEF Reparsed

\* No step of either thread leaves the types
LEMMA TypeStep == TypeOK /\ [Next]_vars => TypeOK'
<1> SUFFICES ASSUME TypeOK, [Next]_vars PROVE TypeOK'
  OBVIOUS
<1> USE DEF TypeOK, Threads
<1>1. ASSUME NEW f \in Fragments, RxIp(f) PROVE TypeOK'
  BY <1>1, ReassAssumption DEF RxIp, entryVars, timerVars
<1>2. CASE AllocIpReassMem
  <2>1. rx' \in [pc : Threads, f : Fragments]
    BY <1>2 DEF AllocIpReassMem, RxGoto
  <2>2. CASE live
    BY <1>2, <2>1, <2>2, Zenon DEF AllocIpReassMem, entryVars
  <2>3. CASE ~ live
    <3>1. 0 \in Nat /\ 0 \in 0 .. NBlocks
      BY ReassAssumption
    <3> QED BY <1>2, <2>1, <2>3, <3>1, Zenon DEF AllocIpReassMem
  <2> QED BY <2>2, <2>3
<1>3. CASE BufferMissing
  BY <1>3 DEF BufferMissing, RxGoto, entryVars, timerVars
<1>4. CASE ReassLast
  <2>1. rx.f \in Fragments /\ BlocksOf(rx.f) \in Nat /\ rx.f.end \in 1 .. NBlocks
    BY ReassAssumption DEF BlocksOf, Blocks
  <2>2. Covered(rx.f) \subseteq Blocks
    BY <2>1, CoveredType
  <2>3. /\ inflight' = inflight /\ orphans' = orphans /\ exceeded' = exceeded
        /\ total' \in 0 .. NBlocks /\ last' \in BOOLEAN /\ count' \in Nat
        /\ buf' \subseteq Blocks /\ tmp' \subseteq Blocks /\ got' \subseteq Fragments
        /\ hdr' \in {"empty", "first", "whole"}
    BY <1>4, <2>1, <2>2, ReassAssumption DEF ReassLast, Conclude
  <2>4. /\ rx' \in [pc : Threads, f : Fragments]
        /\ stale' \in BOOLEAN /\ live' \in BOOLEAN /\ timer' \in {"none", "pending", "running"}
    BY <1>4 DEF ReassLast, Conclude, RxGoto, RemoveTimer
  <2>5. delivered' \subseteq [buf : SUBSET Blocks, data : SUBSET Blocks]
    <3>1. Reparsed(hdr', buf') \in SUBSET Blocks
      BY <2>3, ReparsedType
    <3>2. [buf |-> buf', data |-> Reparsed(hdr', buf')] \in [buf : SUBSET Blocks, data : SUBSET Blocks]
      BY <2>3, <3>1
    <3>3. \/ delivered' = delivered
          \/ delivered' = delivered \cup {[buf |-> buf', data |-> Reparsed(hdr', buf')]}
      BY <1>4, Zenon DEF ReassLast, Conclude
    <3> QED BY <3>2, <3>3
  <2> QED BY <2>3, <2>4, <2>5
<1>5. CASE ReassLastFails
  <2>1. rx.f \in Fragments /\ rx.f.end \in 1 .. NBlocks
    BY ReassAssumption
  <2>2. Covered(rx.f) \subseteq Blocks
    BY <2>1, CoveredType
  <2> QED BY <1>5, <2>1, <2>2 DEF ReassLastFails, RxGoto, timerVars
<1>6. CASE ReassAfterLast
  <2>1. rx.f \in Fragments /\ BlocksOf(rx.f) \in Nat
    BY ReassAssumption DEF BlocksOf, Blocks
  <2>2. Covered(rx.f) \subseteq Blocks
    BY <2>1, CoveredType
  <2>3. /\ inflight' = inflight /\ orphans' = orphans /\ exceeded' = exceeded
        /\ total' \in 0 .. NBlocks /\ last' \in BOOLEAN /\ count' \in Nat
        /\ buf' \subseteq Blocks /\ tmp' \subseteq Blocks /\ got' \subseteq Fragments
        /\ hdr' \in {"empty", "first", "whole"}
    BY <1>6, <2>1, <2>2 DEF ReassAfterLast, Conclude
  <2>4. /\ rx' \in [pc : Threads, f : Fragments]
        /\ stale' \in BOOLEAN /\ live' \in BOOLEAN /\ timer' \in {"none", "pending", "running"}
    BY <1>6 DEF ReassAfterLast, Conclude, RxGoto, RemoveTimer
  <2>5. delivered' \subseteq [buf : SUBSET Blocks, data : SUBSET Blocks]
    <3>1. Reparsed(hdr', buf') \in SUBSET Blocks
      BY <2>3, ReparsedType
    <3>2. [buf |-> buf', data |-> Reparsed(hdr', buf')] \in [buf : SUBSET Blocks, data : SUBSET Blocks]
      BY <2>3, <3>1
    <3>3. \/ delivered' = delivered
          \/ delivered' = delivered \cup {[buf |-> buf', data |-> Reparsed(hdr', buf')]}
      BY <1>6, Zenon DEF ReassAfterLast, Conclude
    <3> QED BY <3>2, <3>3
  <2> QED BY <2>3, <2>4, <2>5
<1>7. CASE ReassBeforeLast
  <2>1. rx.f \in Fragments /\ BlocksOf(rx.f) \in Nat
    BY ReassAssumption DEF BlocksOf, Blocks
  <2>2. Covered(rx.f) \subseteq Blocks
    BY <2>1, CoveredType
  <2> QED BY <1>7, <2>1, <2>2 DEF ReassBeforeLast, RxGoto, RemoveTimer
<1>8. CASE TimerExpires
  <2>1. orphans' \in Nat
    BY <1>8 DEF TimerExpires
  <2> QED BY <1>8, <2>1, Zenon DEF TimerExpires, entryVars
<1>9. CASE ReassTimerExceeded
  <2>1. orphans' \in Nat
    BY <1>9 DEF ReassTimerExceeded
  <2> QED BY <1>9, <2>1, Zenon DEF ReassTimerExceeded, entryVars
<1>10. CASE UNCHANGED vars
  BY <1>10 DEF vars, entryVars, timerVars
<1> QED BY <1>1, <1>2, <1>3, <1>4, <1>5, <1>6, <1>7, <1>8, <1>9, <1>10
        DEF Next, RxThread, TimerThread

-----------------------------------------------------------------------------
(* The entry, for any number of copies *)

\* The entry's buffers and its timer, step by step
LEMMA EntryStep == TypeOK /\ EntryOK /\ EntryHasTimer /\ [Next]_vars => EntryOK' /\ EntryHasTimer'
<1> SUFFICES ASSUME TypeOK, EntryOK, EntryHasTimer, [Next]_vars
             PROVE  EntryOK' /\ EntryHasTimer'
  OBVIOUS
<1> USE DEF EntryOK, EntryHasTimer
<1>1. ASSUME NEW f \in Fragments, RxIp(f) PROVE EntryOK' /\ EntryHasTimer'
  BY <1>1 DEF RxIp, entryVars, timerVars, TypeOK
<1>2. CASE AllocIpReassMem
  <2>1. rx'.pc = "body" /\ rx.pc = "alloc"
    BY <1>2 DEF AllocIpReassMem, RxGoto, TypeOK
  <2>2. CASE live
    BY <1>2, <2>1, <2>2 DEF AllocIpReassMem, entryVars
  <2>3. CASE ~ live
    BY <1>2, <2>1, <2>3 DEF AllocIpReassMem, AllCovered
  <2> QED BY <2>2, <2>3
<1>3. CASE BufferMissing
  BY <1>3 DEF BufferMissing, RxGoto, entryVars, timerVars, TypeOK
<1>4. CASE ReassLast
  <2>1. /\ live /\ ~ last /\ rx.pc # "dead" /\ last' /\ total' = NBlocks
        /\ buf' = Covered(rx.f) \cup tmp /\ got' = got \cup {rx.f}
    BY <1>4 DEF ReassLast, MF
  <2>2. AllCovered(got') = AllCovered(got) \cup Covered(rx.f)
    BY <2>1, AllCoveredAdd
  <2>3. buf' = AllCovered(got')
    BY <2>1, <2>2
  <2>4. live' => timer' # "none"
    BY <1>4, Zenon DEF ReassLast, Conclude
  <2> QED BY <2>1, <2>3, <2>4
<1>5. CASE ReassLastFails
  BY <1>5 DEF ReassLastFails, RxGoto, timerVars, TypeOK
<1>6. CASE ReassAfterLast
  <2>1. /\ live /\ last /\ rx.pc # "dead" /\ last' = last /\ total' = total
        /\ buf' = buf \cup Covered(rx.f) /\ got' = got \cup {rx.f}
    BY <1>6 DEF ReassAfterLast
  <2>2. AllCovered(got') = AllCovered(got) \cup Covered(rx.f)
    BY <2>1, AllCoveredAdd
  <2>3. buf' = AllCovered(got')
    BY <2>1, <2>2
  <2>4. live' => timer' # "none"
    BY <1>6, Zenon DEF ReassAfterLast, Conclude
  <2> QED BY <2>1, <2>3, <2>4
<1>7. CASE ReassBeforeLast
  <2>1. /\ live /\ ~ last /\ rx.pc # "dead" /\ last' = last
        /\ tmp' = tmp \cup Covered(rx.f) /\ got' = got \cup {rx.f}
    BY <1>7 DEF ReassBeforeLast
  <2>2. AllCovered(got') = AllCovered(got) \cup Covered(rx.f)
    BY <2>1, AllCoveredAdd
  <2>3. tmp' = AllCovered(got')
    BY <2>1, <2>2
  <2>4. timer' # "none"
    BY <1>7 DEF ReassBeforeLast
  <2> QED BY <2>1, <2>3, <2>4
<1>8. CASE TimerExpires
  BY <1>8 DEF TimerExpires, entryVars
<1>9. CASE ReassTimerExceeded
  BY <1>9 DEF ReassTimerExceeded
<1>10. CASE UNCHANGED vars
  BY <1>10 DEF vars, entryVars, timerVars
<1> QED BY <1>1, <1>2, <1>3, <1>4, <1>5, <1>6, <1>7, <1>8, <1>9, <1>10
        DEF Next, RxThread, TimerThread

\* However often and in whatever order fragments arrive, an entry of fragments_cache
\* holds the blocks of its fragments and nothing else.
THEOREM ReassemblyPlacesData == Spec => []DataPlaced
<1>1. Init => TypeOK /\ EntryOK /\ EntryHasTimer
  BY TypeInit DEF Init, EntryOK, EntryHasTimer
<1>2. TypeOK /\ EntryOK /\ EntryHasTimer /\ [Next]_vars => (TypeOK /\ EntryOK /\ EntryHasTimer)'
  BY TypeStep, EntryStep
<1>3. EntryOK => DataPlaced
  BY DEF EntryOK, DataPlaced, AllCovered
<1> QED BY <1>1, <1>2, <1>3, PTL DEF Spec

\* No entry of fragments_cache is ever without a timer that releases it.
THEOREM EntriesExpire == Spec => []EntryHasTimer
<1>1. Init => TypeOK /\ EntryOK /\ EntryHasTimer
  BY TypeInit DEF Init, EntryOK, EntryHasTimer
<1>2. TypeOK /\ EntryOK /\ EntryHasTimer /\ [Next]_vars => (TypeOK /\ EntryOK /\ EntryHasTimer)'
  BY TypeStep, EntryStep
<1> QED BY <1>1, <1>2, PTL DEF Spec

-----------------------------------------------------------------------------
(* Completeness, when no fragment comes twice *)

\* block_count and the datagrams passed on, step by step
LEMMA CountStep ==
    TypeOK /\ EntryOK /\ CountOK /\ DefragmentationDone /\ [Next]_vars /\ NoDuplicates'
        => CountOK' /\ DefragmentationDone'
<1> SUFFICES ASSUME TypeOK, EntryOK, CountOK, DefragmentationDone, [Next]_vars,
                    NoDuplicates'
             PROVE  CountOK' /\ DefragmentationDone'
  OBVIOUS
<1> USE DEF CountOK, DefragmentationDone
<1>1. ASSUME NEW f \in Fragments, RxIp(f) PROVE CountOK' /\ DefragmentationDone'
  <2>1. /\ inflight[f] \in 0 .. Copies /\ inflight' = [inflight EXCEPT ![f] = inflight[f] - 1]
        /\ \A g \in Fragments : inflight[g] \in 0 .. Copies
    BY <1>1 DEF RxIp, TypeOK
  <2>2. inflight[f] = Copies /\ f \notin got
    <3>1. inflight'[f] = inflight[f] - 1
      BY <2>1 DEF TypeOK
    <3>2. inflight'[f] + 1 >= Copies
      BY DEF NoDuplicates
    <3> QED BY <2>1, <3>1, <3>2, ReassAssumption
  <2>3. /\ rx'.pc = "alloc" /\ rx'.f = f /\ got' = got /\ live' = live /\ count' = count
        /\ delivered' = delivered /\ rx.pc = "idle"
    BY <1>1 DEF RxIp, entryVars
  <2>4. \A g \in got' : inflight'[g] < Copies
    <3> SUFFICES ASSUME NEW g \in got' PROVE inflight'[g] < Copies
      OBVIOUS
    <3>1. g \in Fragments /\ g # f /\ inflight[g] < Copies
      BY <2>2, <2>3 DEF TypeOK
    <3> QED BY <2>1, <3>1 DEF TypeOK
  <2>5. inflight'[f] < Copies
    BY <2>1, <2>2, ReassAssumption DEF TypeOK
  <2> QED BY <2>2, <2>3, <2>4, <2>5
<1>2. CASE AllocIpReassMem
  <2>1. rx'.pc = "body" /\ rx.pc = "alloc" /\ rx'.f = rx.f /\ inflight' = inflight
        /\ delivered' = delivered
    BY <1>2 DEF AllocIpReassMem, RxGoto, TypeOK
  <2>2. CASE live
    BY <1>2, <2>1, <2>2 DEF AllocIpReassMem, entryVars
  <2>3. CASE ~ live
    <3>1. got' = {} /\ count' = 0
      BY <1>2, <2>3 DEF AllocIpReassMem
    <3>2. AllCovered({}) = {} /\ Cardinality({}) = 0
      BY FS_EmptySet DEF AllCovered
    <3> QED BY <2>1, <3>1, <3>2
  <2> QED BY <2>2, <2>3
<1>3. CASE BufferMissing
  BY <1>3 DEF BufferMissing, RxGoto, entryVars, TypeOK
<1>4. ASSUME rx.pc = "body", live, inflight' = inflight, rx' = [rx EXCEPT !.pc = "idle"],
             got' = got \cup {rx.f}, count' = count + BlocksOf(rx.f)
      PROVE  CountOK' /\ (count' = NBlocks => AllCovered(got') = Blocks)
  <2>1. rx.f \in Fragments /\ rx.f \notin got /\ got \subseteq Fragments /\ rx'.pc = "idle"
    BY <1>4 DEF TypeOK
  <2>2. count' = Cardinality(AllCovered(got'))
    BY <1>4, <2>1, CountAdd
  <2>3. \A f \in got' : inflight'[f] < Copies
    BY <1>4
  <2>4. CountOK'
    BY <2>1, <2>2, <2>3
  <2>5. count' = NBlocks => AllCovered(got') = Blocks
    <3>1. got' \in SUBSET Fragments
      BY <1>4, <2>1
    <3> QED BY <2>2, <3>1, CountFull, Zenon
  <2> QED BY <2>4, <2>5
<1>5. CASE ReassLast
  <2>1. /\ rx.pc = "body" /\ live /\ ~ last /\ inflight' = inflight
        /\ rx' = [rx EXCEPT !.pc = "idle"] /\ got' = got \cup {rx.f}
        /\ count' = count + BlocksOf(rx.f) /\ total' = NBlocks /\ buf' = Covered(rx.f) \cup tmp
    BY <1>5 DEF ReassLast, Conclude, RxGoto, MF
  <2>2. tmp = AllCovered(got)
    BY <2>1 DEF EntryOK
  <2>3. buf' = AllCovered(got')
    BY <2>1, <2>2, AllCoveredAdd
  <2>4. \A d \in delivered' : d \in delivered \/ (count' = NBlocks /\ d.buf = buf')
    BY <1>5, <2>1 DEF ReassLast, Conclude, IsReassembled
  <2> QED BY <1>4, <2>1, <2>3, <2>4, Zenon
<1>6. CASE ReassLastFails
  BY <1>6 DEF ReassLastFails, RxGoto, TypeOK
<1>7. CASE ReassAfterLast
  <2>1. /\ rx.pc = "body" /\ live /\ last /\ inflight' = inflight
        /\ rx' = [rx EXCEPT !.pc = "idle"] /\ got' = got \cup {rx.f}
        /\ count' = count + BlocksOf(rx.f) /\ buf' = buf \cup Covered(rx.f)
    BY <1>7 DEF ReassAfterLast, Conclude, RxGoto
  <2>2. buf = AllCovered(got) /\ total = NBlocks
    BY <2>1 DEF EntryOK
  <2>3. buf' = AllCovered(got')
    BY <2>1, <2>2, AllCoveredAdd
  <2>4. \A d \in delivered' : d \in delivered \/ (count' = NBlocks /\ d.buf = buf')
    BY <1>7, <2>2 DEF ReassAfterLast, Conclude, IsReassembled
  <2> QED BY <1>4, <2>1, <2>3, <2>4, Zenon
<1>8. CASE ReassBeforeLast
  <2>1. /\ rx.pc = "body" /\ live /\ inflight' = inflight
        /\ rx' = [rx EXCEPT !.pc = "idle"] /\ got' = got \cup {rx.f}
        /\ count' = count + BlocksOf(rx.f) /\ delivered' = delivered
    BY <1>8 DEF ReassBeforeLast, RxGoto
  <2> QED BY <1>4, <2>1
<1>9. CASE TimerExpires
  BY <1>9 DEF TimerExpires, entryVars
<1>10. CASE ReassTimerExceeded
  BY <1>10 DEF ReassTimerExceeded, entryVars
<1>11. CASE UNCHANGED vars
  BY <1>11 DEF vars, entryVars
<1> QED BY <1>1, <1>2, <1>3, <1>5, <1>6, <1>7, <1>8, <1>9, <1>10, <1>11
        DEF Next, RxThread, TimerThread

\* What the network has delivered twice stays delivered twice.
LEMMA DuplicatesStay == TypeOK /\ [Next]_vars /\ NoDuplicates' => NoDuplicates
<1> SUFFICES ASSUME TypeOK, [Next]_vars, NoDuplicates', NEW f \in Fragments
             PROVE  inflight[f] + 1 >= Copies
  BY DEF NoDuplicates
<1>1. inflight'[f] <= inflight[f] /\ inflight[f] \in 0 .. Copies /\ inflight'[f] \in 0 .. Copies
  <2>1. TypeOK'
    BY TypeStep
  <2>2. ASSUME NEW g \in Fragments, RxIp(g) PROVE inflight'[f] <= inflight[f]
    <3>1. /\ inflight' = [inflight EXCEPT ![g] = inflight[g] - 1]
          /\ inflight \in [Fragments -> 0 .. Copies] /\ inflight[f] \in Int
      BY <2>2 DEF RxIp, TypeOK
    <3>2. CASE f = g
      BY <3>1, <3>2
    <3>3. CASE f # g
      BY <3>1, <3>3
    <3> QED BY <3>2, <3>3
  <2>3. (\E g \in Fragments : RxIp(g)) \/ inflight' = inflight
    BY DEF Next, RxThread, TimerThread, vars, AllocIpReassMem, BufferMissing, ReassLast,
           ReassLastFails, ReassAfterLast, ReassBeforeLast, Conclude, TimerExpires,
           ReassTimerExceeded
  <2>4. inflight[f] \in 0 .. Copies /\ inflight'[f] \in 0 .. Copies
    BY <2>1 DEF TypeOK
  <2> QED BY <2>2, <2>3, <2>4
<1>2. inflight'[f] + 1 >= Copies
  BY DEF NoDuplicates
<1> QED BY <1>1, <1>2, ReassAssumption

\* As long as the network has delivered no fragment twice, the counts that
\* _is_reassembled compares agree only when every block of the datagram is in its buffer.
THEOREM ReassemblyComplete == Spec => []DeliveredComplete
<1> DEFINE Inv == /\ TypeOK /\ EntryOK /\ EntryHasTimer
                  /\ NoDuplicates => CountOK /\ DefragmentationDone
<1>1. Init => Inv
  <2> SUFFICES ASSUME Init PROVE CountOK /\ DefragmentationDone /\ EntryOK /\ EntryHasTimer
    BY TypeInit
  <2> QED BY DEF Init, EntryOK, EntryHasTimer, CountOK, DefragmentationDone
<1>2. Inv /\ [Next]_vars => Inv'
  BY TypeStep, EntryStep, CountStep, DuplicatesStay
<1>3. Inv => DeliveredComplete
  BY DEF DeliveredComplete, DefragmentationDone
<1> QED BY <1>1, <1>2, <1>3, PTL DEF Spec
-----------------------------------------------------------------------------
(* One verdict, when no fragment comes twice *)

\* g has been delivered, and neither the entry nor the fragment in hand has it
Lost(g) ==
    /\ inflight[g] < Copies
    /\ live => g \notin got
    /\ rx.pc = "alloc" \/ (rx.pc = "body" /\ live) => rx.f # g

\* After a time-out a fragment is lost for good, so no entry can be completed; after a
\* delivery every fragment has come, so there is no entry that could time out.
VerdictOK ==
    /\ live => got # {} \/ rx.pc = "body"
    /\ exceeded => \E g \in Fragments : Lost(g)
    /\ delivered # {} =>
         ~ live /\ rx.pc = "idle" /\ ~ exceeded /\ \A f \in Fragments : inflight[f] < Copies

\* Fragments do not overlap: whoever has all blocks has every fragment.
LEMMA AllBlocksAllFragments ==
    ASSUME NEW fs \in SUBSET Fragments, AllCovered(fs) = Blocks
    PROVE  fs = Fragments
<1> SUFFICES ASSUME NEW f \in Fragments PROVE f \in fs
  OBVIOUS
<1>1. f.off \in Int /\ f.end \in Int /\ f.off < f.end
  BY ReassAssumption DEF Blocks
<1>2. f.off \in Covered(f)
  BY <1>1 DEF Covered
<1>3. PICK g \in fs : f.off \in Covered(g)
  BY <1>2, CoveredType DEF AllCovered
<1> QED BY <1>2, <1>3, ReassAssumption

\* A fragment is put into the entry: nothing lost comes back, and if the entry is
\* complete there was no time-out and every fragment has come.
LEMMA VerdictConclude ==
    ASSUME TypeOK, EntryOK, CountOK, VerdictOK, rx.pc = "body", live,
           inflight' = inflight, rx' = [rx EXCEPT !.pc = "idle"], got' = got \cup {rx.f},
           count' = count + BlocksOf(rx.f), exceeded' = exceeded, delivered = {},
           \/ delivered' = delivered /\ live'
           \/ ~ live' /\ count' = NBlocks
    PROVE  VerdictOK'
<1>1. rx.f \in Fragments /\ rx.f \notin got /\ got \in SUBSET Fragments /\ rx'.pc = "idle"
      /\ inflight[rx.f] < Copies /\ count = Cardinality(AllCovered(got))
  BY DEF TypeOK, CountOK
<1>2. exceeded' => \E g \in Fragments : Lost(g)' /\ g \notin got'
  <2> SUFFICES ASSUME exceeded PROVE \E g \in Fragments : Lost(g)' /\ g \notin got'
    OBVIOUS
  <2>1. PICK g \in Fragments : Lost(g)
    BY DEF VerdictOK
  <2>2. g \notin got'
    BY <2>1 DEF Lost
  <2>3. Lost(g)'
    BY <1>1, <2>1, <2>2 DEF Lost
  <2> QED BY <2>2, <2>3
<1>3. CASE delivered' = delivered /\ live'
  BY <1>2, <1>3 DEF VerdictOK
<1>4. CASE ~ live' /\ count' = NBlocks
  <2>1. Cardinality(AllCovered(got')) = NBlocks /\ got' \in SUBSET Fragments
    BY <1>1, <1>4, CountAdd
  <2>2. got' = Fragments
    BY <2>1, CountFull, AllBlocksAllFragments
  <2>3. \A f \in Fragments : inflight'[f] < Copies
    BY <1>1, <2>2 DEF CountOK
  <2> QED BY <1>1, <1>2, <1>4, <2>2, <2>3 DEF VerdictOK
<1> QED BY <1>3, <1>4

\* The two verdicts, step by step
LEMMA VerdictStep ==
    TypeOK /\ EntryOK /\ CountOK /\ VerdictOK /\ [Next]_vars /\ NoDuplicates' => VerdictOK'
<1> SUFFICES ASSUME TypeOK, EntryOK, CountOK, VerdictOK, [Next]_vars, NoDuplicates'
             PROVE  VerdictOK'
  OBVIOUS
<1>1. ASSUME NEW f \in Fragments, RxIp(f) PROVE VerdictOK'
  <2>1. /\ inflight[f] \in 0 .. Copies /\ inflight' = [inflight EXCEPT ![f] = inflight[f] - 1]
        /\ \A g \in Fragments : inflight[g] \in 0 .. Copies
    BY <1>1 DEF RxIp, TypeOK
  <2>2. inflight[f] = Copies
    <3>1. inflight'[f] = inflight[f] - 1
      BY <2>1 DEF TypeOK
    <3>2. inflight'[f] + 1 >= Copies
      BY DEF NoDuplicates
    <3> QED BY <2>1, <3>1, <3>2, ReassAssumption
  <2>3. /\ rx'.pc = "alloc" /\ rx'.f = f /\ got' = got /\ live' = live /\ rx.pc = "idle"
        /\ delivered' = delivered /\ exceeded' = exceeded
    BY <1>1 DEF RxIp, entryVars
  <2>4. delivered = {}
    BY <2>1, <2>2, ReassAssumption DEF VerdictOK
  <2>5. ASSUME NEW g \in Fragments, Lost(g) PROVE Lost(g)'
    <3>1. g # f
      BY <2>1, <2>2, <2>5, ReassAssumption DEF Lost
    <3>2. inflight'[g] = inflight[g]
      BY <2>1, <3>1 DEF TypeOK
    <3> QED BY <2>3, <2>5, <3>1, <3>2 DEF Lost
  <2> QED BY <2>3, <2>4, <2>5, Zenon DEF VerdictOK
<1>2. CASE AllocIpReassMem
  <2>1. /\ rx'.pc = "body" /\ rx.pc = "alloc" /\ rx'.f = rx.f /\ inflight' = inflight
        /\ delivered' = delivered /\ exceeded' = exceeded /\ live'
        /\ (got' = got /\ live) \/ got' = {}
    BY <1>2 DEF AllocIpReassMem, RxGoto, TypeOK, entryVars
  <2>2. ASSUME NEW g \in Fragments, Lost(g) PROVE Lost(g)'
    BY <2>1, <2>2 DEF Lost
  <2>3. delivered = {}
    BY <2>1 DEF VerdictOK
  <2> QED BY <2>1, <2>2, <2>3, Zenon DEF VerdictOK
<1>3. CASE BufferMissing
  <2>1. /\ rx'.pc = "dead" /\ rx.pc = "body" /\ inflight' = inflight /\ ~ live
        /\ delivered' = delivered /\ exceeded' = exceeded /\ live' = live /\ got' = got
    BY <1>3 DEF BufferMissing, RxGoto, TypeOK, entryVars
  <2>2. ASSUME NEW g \in Fragments, Lost(g) PROVE Lost(g)'
    BY <2>1, <2>2 DEF Lost
  <2> QED BY <2>1, <2>2, Zenon DEF VerdictOK
<1>4. CASE ReassLast
  <2>1. /\ rx.pc = "body" /\ live /\ inflight' = inflight /\ exceeded' = exceeded
        /\ rx' = [rx EXCEPT !.pc = "idle"] /\ got' = got \cup {rx.f}
        /\ count' = count + BlocksOf(rx.f) /\ total' = NBlocks
    BY <1>4 DEF ReassLast, Conclude, RxGoto, MF
  <2>2. (delivered' = delivered /\ live') \/ (~ live' /\ count' = NBlocks)
    BY <1>4, <2>1, Zenon DEF ReassLast, Conclude, IsReassembled
  <2>3. delivered = {}
    BY <2>1 DEF VerdictOK
  <2> QED BY <2>1, <2>2, <2>3, VerdictConclude
<1>5. CASE ReassLastFails
  <2>1. /\ rx'.pc = "dead" /\ rx.pc = "body" /\ inflight' = inflight /\ live /\ rx'.f = rx.f
        /\ delivered' = delivered /\ exceeded' = exceeded /\ live' = live
        /\ got' = got \cup {rx.f}
    BY <1>5 DEF ReassLastFails, RxGoto, TypeOK
  <2>2. ASSUME NEW g \in Fragments, Lost(g) PROVE Lost(g)'
    BY <2>1, <2>2 DEF Lost
  <2>3. got' # {}
    BY <2>1
  <2> QED BY <2>1, <2>2, <2>3, Zenon DEF VerdictOK
<1>6. CASE ReassAfterLast
  <2>1. /\ rx.pc = "body" /\ live /\ inflight' = inflight /\ exceeded' = exceeded
        /\ rx' = [rx EXCEPT !.pc = "idle"] /\ got' = got \cup {rx.f}
        /\ count' = count + BlocksOf(rx.f) /\ last
    BY <1>6 DEF ReassAfterLast, Conclude, RxGoto
  <2>2. total = NBlocks
    BY <2>1 DEF EntryOK
  <2>3. (delivered' = delivered /\ live') \/ (~ live' /\ count' = NBlocks)
    BY <1>6, <2>2, Zenon DEF ReassAfterLast, Conclude, IsReassembled
  <2>4. delivered = {}
    BY <2>1 DEF VerdictOK
  <2> QED BY <2>1, <2>3, <2>4, VerdictConclude
<1>7. CASE ReassBeforeLast
  <2>1. /\ rx.pc = "body" /\ live /\ inflight' = inflight /\ exceeded' = exceeded
        /\ rx' = [rx EXCEPT !.pc = "idle"] /\ got' = got \cup {rx.f}
        /\ count' = count + BlocksOf(rx.f) /\ delivered' = delivered /\ live'
    BY <1>7 DEF ReassBeforeLast, RxGoto
  <2>2. delivered = {}
    BY <2>1 DEF VerdictOK
  <2> QED BY <2>1, <2>2, VerdictConclude
<1>8. CASE TimerExpires
  <2>1. rx' = rx /\ live' = live /\ got' = got /\ inflight' = inflight
        /\ delivered' = delivered /\ exceeded' = exceeded
    BY <1>8 DEF TimerExpires, entryVars
  <2> QED BY <2>1, Zenon DEF VerdictOK, Lost
<1>9. CASE ReassTimerExceeded
  <2>1. /\ rx' = rx /\ ~ live' /\ got' = got /\ inflight' = inflight
        /\ delivered' = delivered /\ exceeded' = (exceeded \/ live)
    BY <1>9 DEF ReassTimerExceeded, entryVars
  <2>2. CASE live
    <3>1. PICK g \in Fragments : g \in got \/ (g = rx.f /\ rx.pc = "body")
      BY <2>2 DEF VerdictOK, TypeOK
    <3>2. Lost(g)'
      BY <2>1, <3>1 DEF Lost, CountOK
    <3>3. delivered = {}
      BY <2>2 DEF VerdictOK
    <3> QED BY <2>1, <3>2, <3>3, Zenon DEF VerdictOK
  <2>3. CASE ~ live
    <3>1. ASSUME NEW g \in Fragments, Lost(g) PROVE Lost(g)'
      BY <2>1, <2>3, <3>1 DEF Lost
    <3> QED BY <2>1, <2>3, <3>1, Zenon DEF VerdictOK
  <2> QED BY <2>2, <2>3
<1>10. CASE UNCHANGED vars
  BY <1>10 DEF vars, entryVars, VerdictOK, Lost
<1> QED BY <1>1, <1>2, <1>3, <1>4, <1>5, <1>6, <1>7, <1>8, <1>9, <1>10
        DEF Next, RxThread, TimerThread

\* As long as the network has delivered no fragment twice, a datagram is not both passed
\* to the next layer and reported to its sender by _reass_timer_exceeded, in whatever
\* order the last fragment and the callback of a timer that was removed meet.
THEOREM ReassemblyOneVerdict == Spec => []OneVerdict
<1> DEFINE Inv == /\ TypeOK /\ EntryOK /\ EntryHasTimer
                  /\ NoDuplicates => CountOK /\ DefragmentationDone /\ VerdictOK
<1>1. Init => Inv
  <2> SUFFICES ASSUME Init
               PROVE  CountOK /\ DefragmentationDone /\ EntryOK /\ EntryHasTimer /\ VerdictOK
    BY TypeInit
  <2> QED BY DEF Init, EntryOK, EntryHasTimer, CountOK, DefragmentationDone, VerdictOK
<1>2. Inv /\ [Next]_vars => Inv'
  BY TypeStep, EntryStep, CountStep, VerdictStep, DuplicatesStay
<1>3. Inv => OneVerdict
  BY DEF OneVerdict, VerdictOK
<1> QED BY <1>1, <1>2, <1>3, PTL DEF Spec

-----------------------------------------------------------------------------
(* The work loops (WorkLoops).  The invariant numbers the items in the three places an *)
(* item can be, one after the other, and says what each step of the loop may rely on.  *)

TypeInv ==
    /\ kind \in {"tx", "rx", "events"}
    /\ queue \in Seq(Nat) /\ batch \in Seq(Nat) /\ handled \in Seq(Nat)
    /\ added \in Nat /\ left \in Nat
    /\ loop \in {"test", "enter", "wait", "write", "handle", "pop", "done"}
    /\ woken \in BOOLEAN /\ stop \in BOOLEAN /\ stopping \in BOOLEAN

\* The items handled, taken and queued carry consecutive numbers.
Numbered ==
    /\ \A i \in 1 .. Len(handled) : handled[i] = i
    /\ \A i \in 1 .. Len(batch) : batch[i] = Len(handled) + i
    /\ \A i \in 1 .. Len(queue) : queue[i] = Len(handled) + Len(batch) + i
    /\ Len(handled) + Len(batch) + Len(queue) = added

\* A batch exists only between a take and its handling.
Batches ==
    /\ loop = "write" => kind = "tx"
    /\ loop = "handle" => kind = "rx"
    /\ loop \notin {"write", "handle"} => batch = <<>>

\* Nobody else pops, so the length computed under the lock stays good, and only the event
\* loop is notified of anything but a new item.
Pops ==
    /\ loop = "pop" => left <= Len(queue)
    /\ stopping => kind = "events"
    /\ woken => loop = "wait"
    /\ loop = "wait" /\ woken /\ kind = "tx" => queue # <<>>

IInv == TypeInv /\ Numbered /\ Batches /\ Pops

-----------------------------------------------------------------------------
\* The lengths of the three queues are numbers.
LEMMA Lengths ==
    TypeInv => Len(handled) \in Nat /\ Len(batch) \in Nat /\ Len(queue) \in Nat
BY DEF TypeInv

\* The three loops start with nothing queued, taken or handled (the constructors).
LEMMA InitIInv == LoopsInit => IInv
<1> SUFFICES ASSUME LoopsInit PROVE IInv
  OBVIOUS
<1>1. TypeInv
  <2>1. queue \in Seq(Nat) /\ batch \in Seq(Nat) /\ handled \in Seq(Nat)
    BY DEF LoopsInit
  <2>2. added \in Nat /\ left \in Nat
    BY DEF LoopsInit
  <2>3. woken \in BOOLEAN /\ stop \in BOOLEAN /\ stopping \in BOOLEAN
    BY Zenon DEF LoopsInit
  <2> QED BY <2>1, <2>2, <2>3 DEF LoopsInit, TypeInv
<1>2. Numbered
  BY DEF LoopsInit, Numbered
<1>3. Batches /\ Pops
  BY DEF LoopsInit, Batches, Pops
<1> QED BY <1>1, <1>2, <1>3 DEF IInv

\* enqueue and schedule_event put the next number behind the others.
LEMMA EnqueueIInv == IInv /\ Enqueue => IInv'
<1> SUFFICES ASSUME IInv, Enqueue PROVE IInv'
  OBVIOUS
<1> USE DEF IInv
<1>1. TypeInv'
  BY DEF TypeInv, Enqueue
<1>2. /\ Len(queue') = Len(queue) + 1
      /\ \A i \in 1 .. Len(queue) : queue'[i] = queue[i]
      /\ queue'[Len(queue) + 1] = added + 1
  BY DEF TypeInv, Enqueue
<1>3. Numbered'
  <2>1. UNCHANGED <<handled, batch>> /\ added' = added + 1
    BY DEF Enqueue
  <2>2. \A i \in 1 .. Len(queue') : queue'[i] = Len(handled) + Len(batch) + i
    <3> SUFFICES ASSUME NEW i \in 1 .. Len(queue')
                 PROVE queue'[i] = Len(handled) + Len(batch) + i
      OBVIOUS
    <3>1. CASE i \in 1 .. Len(queue)
      BY <3>1, <1>2 DEF Numbered, TypeInv
    <3>2. CASE i = Len(queue) + 1
      BY <3>2, <1>2 DEF Numbered, TypeInv
    <3> QED BY <3>1, <3>2, <1>2 DEF TypeInv
  <2> QED BY <2>1, <2>2, <1>2 DEF Numbered, TypeInv
<1>4. Batches'
  BY DEF Batches, Enqueue
<1>5. Pops'
  <2>1. queue' # <<>>
    BY <1>2 DEF TypeInv
  <2>2. woken' => loop' = "wait"
    BY Zenon DEF Enqueue
  <2> QED BY <2>1, <2>2, <1>2 DEF Pops, Enqueue, TypeInv
<1> QED BY <1>1, <1>3, <1>4, <1>5

\* shutdown() touches no item; its notification reaches only the event loop.
LEMMA ShutdownIInv == IInv /\ (Shutdown \/ ShutdownNotify) => IInv'
<1> SUFFICES ASSUME IInv, Shutdown \/ ShutdownNotify PROVE IInv'
  OBVIOUS
<1> USE DEF IInv
<1>1. TypeInv'
  BY Zenon DEF TypeInv, Shutdown, ShutdownNotify
<1>2. Numbered'
  BY Zenon DEF Numbered, Shutdown, ShutdownNotify
<1>3. Batches'
  BY DEF Batches, Shutdown, ShutdownNotify
<1>4. Pops'
  <2>1. CASE Shutdown
    <3>1. UNCHANGED <<kind, queue, left, loop, woken>>
      BY <2>1 DEF Shutdown
    <3>2. stopping' => kind' = "events"
      BY <2>1, Zenon DEF Shutdown
    <3> QED BY <3>1, <3>2 DEF Pops
  <2>2. CASE ShutdownNotify
    <3>1. UNCHANGED <<kind, queue, left, loop>> /\ stopping' = FALSE /\ stopping
      BY <2>2 DEF ShutdownNotify
    <3>2. kind = "events"
      BY <3>1 DEF Pops
    <3>3. woken' => loop' = "wait"
      BY <2>2, Zenon DEF ShutdownNotify
    <3> QED BY <3>1, <3>2, <3>3 DEF Pops
  <2> QED BY <2>1, <2>2
<1> QED BY <1>1, <1>2, <1>3, <1>4

\* What a round takes, when the queue has an item or the loop is not the TX ring's.
LEMMA TakeIInv ==
    ASSUME IInv, Take, loop \in {"enter", "wait"}, kind = "tx" => queue # <<>>,
           UNCHANGED <<kind, added, handled, stop, stopping>>, woken' = FALSE
    PROVE  IInv'
<1> USE DEF IInv
<1>0. batch = <<>> /\ Len(batch) = 0
  BY DEF Batches
<1>00. woken' \in BOOLEAN
  BY Zenon
<1>1. CASE kind = "tx"
  <2>1. /\ queue # <<>>
        /\ batch' = <<Head(queue)>> /\ queue' = Tail(queue) /\ loop' = "write"
        /\ UNCHANGED left
    BY <1>1 DEF Take
  <2>2. /\ Len(queue) > 0 /\ Len(queue') = Len(queue) - 1
        /\ \A i \in 1 .. Len(queue') : queue'[i] = queue[i + 1]
        /\ batch' \in Seq(Nat) /\ Len(batch') = 1 /\ batch'[1] = queue[1]
        /\ queue' \in Seq(Nat)
    BY <2>1 DEF TypeInv
  <2>3. TypeInv'
    BY <1>1, <2>1, <2>2, Zenon DEF TypeInv
  <2>4. Numbered'
    <3>1. queue[1] = Len(handled) + 1
      BY <2>2, <1>0, Lengths DEF Numbered
    <3>2. \A i \in 1 .. Len(batch') : batch'[i] = Len(handled) + i
      BY <2>2, <3>1, Lengths
    <3>3. \A i \in 1 .. Len(queue') : queue'[i] = Len(handled) + Len(batch') + i
      BY <2>2, <1>0 DEF Numbered, TypeInv
    <3>4. Len(handled) + Len(batch') + Len(queue') = added
      BY <2>2, <1>0, Lengths DEF Numbered
    <3> QED BY <3>2, <3>3, <3>4 DEF Numbered
  <2> QED BY <1>1, <2>1, <2>3, <2>4 DEF Batches, Pops
<1>2. CASE kind = "rx"
  <2>1. batch' = queue /\ queue' = <<>> /\ loop' = "handle" /\ UNCHANGED left
    BY <1>2 DEF Take
  <2>2. TypeInv'
    BY <1>00, <1>2, <2>1 DEF TypeInv
  <2>3. Numbered'
    BY <2>1, <1>0 DEF Numbered, TypeInv
  <2> QED BY <1>2, <2>1, <2>2, <2>3 DEF Batches, Pops
<1>3. CASE kind = "events"
  <2>1. left' = Min(MaxEvents, Len(queue)) /\ loop' = "pop" /\ UNCHANGED <<batch, queue>>
    BY <1>3 DEF Take
  <2>2. left' \in Nat /\ left' <= Len(queue)
    BY <2>1, LoopsAssumption DEF Min, TypeInv
  <2>3. TypeInv'
    BY <1>3, <2>1, <2>2, Zenon DEF TypeInv
  <2>4. Numbered'
    BY <2>1 DEF Numbered
  <2> QED BY <1>3, <1>0, <2>1, <2>2, <2>3, <2>4 DEF Batches, Pops
<1> QED BY <1>1, <1>2, <1>3 DEF TypeInv

\* The loop's test, its wait and the take under the lock.
LEMMA EnterIInv == IInv /\ (TestStop \/ Enter \/ Wake) => IInv'
<1>1. ASSUME IInv, TestStop PROVE IInv'
  <2> USE DEF IInv
  <2>1. loop = "test" /\ loop' \in {"done", "enter"}
    BY <1>1 DEF TestStop
  <2>2. UNCHANGED <<kind, queue, added, batch, left, handled, woken, stop, stopping>>
    BY <1>1 DEF TestStop
  <2> QED BY <1>1, <2>1, <2>2 DEF TypeInv, Numbered, Batches, Pops
<1>2. ASSUME IInv, Enter PROVE IInv'
  <2>0. loop = "enter" /\ UNCHANGED <<kind, added, handled, woken, stop, stopping>>
    BY <1>2 DEF Enter
  <2>1. CASE queue = <<>>
    <3>1. loop' = "wait" /\ UNCHANGED <<batch, queue, left>>
      BY <1>2, <2>1 DEF Enter
    <3>2. ~ woken
      BY <1>2, <2>0 DEF IInv, Pops
    <3> QED BY <1>2, <2>0, <3>1, <3>2 DEF IInv, TypeInv, Numbered, Batches, Pops
  <2>2. CASE queue # <<>>
    <3>1. Take
      BY <1>2, <2>2 DEF Enter
    <3>2. woken' = FALSE
      BY <1>2, <2>0 DEF IInv, TypeInv, Pops
    <3> QED BY <1>2, <2>0, <2>2, <3>1, <3>2, TakeIInv, Zenon
  <2> QED BY <2>1, <2>2
<1>3. ASSUME IInv, Wake PROVE IInv'
  <2>1. /\ loop = "wait" /\ woken /\ woken' = FALSE /\ Take
        /\ UNCHANGED <<kind, added, handled, stop, stopping>>
    BY <1>3 DEF Wake
  <2>2. kind = "tx" => queue # <<>>
    BY <1>3, <2>1 DEF IInv, Pops
  <2> QED BY <1>3, <2>1, <2>2, TakeIInv, Zenon
<1> QED BY <1>1, <1>2, <1>3

\* Writing the frame, handling a packet and popping an event move one item on.
LEMMA HandleIInv == IInv /\ (WriteFrame \/ HandlePacket \/ PopEvent \/ PopDone) => IInv'
<1>1. ASSUME IInv, WriteFrame PROVE IInv'
  <2> USE DEF IInv
  <2>1. /\ handled' = handled \o batch /\ batch' = <<>> /\ loop' = "test"
        /\ UNCHANGED <<kind, queue, added, left, woken, stop, stopping>>
        /\ loop = "write"
    BY <1>1 DEF WriteFrame
  <2>2. /\ handled' \in Seq(Nat) /\ Len(handled') = Len(handled) + Len(batch)
        /\ \A i \in 1 .. Len(handled') :
             handled'[i] = IF i <= Len(handled) THEN handled[i] ELSE batch[i - Len(handled)]
    BY <1>1, <2>1 DEF TypeInv
  <2>3. TypeInv'
    BY <1>1, <2>1, <2>2 DEF TypeInv
  <2>4. Numbered'
    <3>1. \A i \in 1 .. Len(handled') : handled'[i] = i
      <4> SUFFICES ASSUME NEW i \in 1 .. Len(handled') PROVE handled'[i] = i
        OBVIOUS
      <4>1. CASE i <= Len(handled)
        BY <1>1, <2>2, <4>1, Lengths DEF Numbered
      <4>2. CASE i > Len(handled)
        <5>1. i - Len(handled) \in 1 .. Len(batch)
          BY <1>1, <2>2, <4>2, Lengths
        <5>2. batch[i - Len(handled)] = Len(handled) + (i - Len(handled))
          BY <1>1, <5>1 DEF Numbered
        <5>3. handled'[i] = batch[i - Len(handled)]
          BY <1>1, <2>2, <4>2, Lengths
        <5> QED BY <1>1, <5>2, <5>3, Lengths
      <4> QED BY <1>1, <2>2, <4>1, <4>2, Lengths
    <3>2. Len(batch') = 0
      BY <2>1
    <3> QED BY <1>1, <2>1, <2>2, <3>1, <3>2 DEF Numbered, TypeInv
  <2> QED BY <1>1, <2>1, <2>3, <2>4 DEF Batches, Pops
<1>2. ASSUME IInv, HandlePacket PROVE IInv'
  <2> USE DEF IInv
  <2>0. loop = "handle" /\ UNCHANGED <<kind, queue, added, left, woken, stop, stopping>>
    BY <1>2 DEF HandlePacket
  <2>1. CASE batch = <<>>
    <3>1. loop' = "test" /\ UNCHANGED <<handled, batch>>
      BY <1>2, <2>1 DEF HandlePacket
    <3> QED BY <1>2, <2>0, <2>1, <3>1 DEF TypeInv, Numbered, Batches, Pops
  <2>2. CASE batch # <<>>
    <3>1. handled' = Append(handled, Head(batch)) /\ batch' = Tail(batch) /\ UNCHANGED loop
      BY <1>2, <2>2 DEF HandlePacket
    <3>2. /\ Len(batch) > 0 /\ Len(batch') = Len(batch) - 1 /\ batch' \in Seq(Nat)
          /\ \A i \in 1 .. Len(batch') : batch'[i] = batch[i + 1]
          /\ handled' \in Seq(Nat) /\ Len(handled') = Len(handled) + 1
          /\ \A i \in 1 .. Len(handled) : handled'[i] = handled[i]
          /\ handled'[Len(handled) + 1] = batch[1]
      BY <1>2, <2>2, <3>1 DEF TypeInv
    <3>3. TypeInv'
      BY <1>2, <2>0, <3>1, <3>2 DEF TypeInv
    <3>4. Numbered'
      <4>0. batch[1] = Len(handled) + 1
        BY <1>2, <3>2, Lengths DEF Numbered
      <4>1. \A i \in 1 .. Len(handled') : handled'[i] = i
        <5> SUFFICES ASSUME NEW i \in 1 .. Len(handled') PROVE handled'[i] = i
          OBVIOUS
        <5>1. CASE i \in 1 .. Len(handled)
          BY <1>2, <3>2, <4>0, <5>1, Zenon DEF Numbered
        <5>2. CASE i = Len(handled) + 1
          BY <1>2, <3>2, <4>0, <5>2
        <5> QED BY <1>2, <3>2, <4>0, <5>1, <5>2, Lengths
      <4>2. \A i \in 1 .. Len(batch') : batch'[i] = Len(handled') + i
        BY <1>2, <3>2 DEF Numbered, TypeInv
      <4>3. \A i \in 1 .. Len(queue') : queue'[i] = Len(handled') + Len(batch') + i
        BY <1>2, <2>0, <3>2, Lengths DEF Numbered
      <4>4. Len(handled') + Len(batch') + Len(queue') = added'
        BY <1>2, <2>0, <3>2, Lengths DEF Numbered
      <4> QED BY <4>1, <4>2, <4>3, <4>4 DEF Numbered
    <3> QED BY <1>2, <2>0, <3>1, <3>3, <3>4 DEF Batches, Pops
  <2> QED BY <2>1, <2>2
<1>3. ASSUME IInv, PopEvent PROVE IInv'
  <2> USE DEF IInv
  <2>0. /\ loop = "pop" /\ left > 0 /\ Len(queue) > 0 /\ batch = <<>>
        /\ UNCHANGED <<kind, added, batch, woken, stop, stopping>>
    BY <1>3 DEF PopEvent, Pops, Batches, TypeInv
  <2>1. /\ queue' = Tail(queue) /\ handled' = Append(handled, Head(queue))
        /\ left' = left - 1 /\ UNCHANGED loop
    BY <1>3, <2>0 DEF PopEvent
  <2>2. /\ Len(queue') = Len(queue) - 1 /\ queue' \in Seq(Nat)
        /\ \A i \in 1 .. Len(queue') : queue'[i] = queue[i + 1]
        /\ handled' \in Seq(Nat) /\ Len(handled') = Len(handled) + 1
        /\ \A i \in 1 .. Len(handled) : handled'[i] = handled[i]
        /\ handled'[Len(handled) + 1] = queue[1]
    BY <1>3, <2>0, <2>1 DEF TypeInv
  <2>3. TypeInv'
    BY <1>3, <2>0, <2>1, <2>2 DEF TypeInv
  <2>4. Numbered'
    <3>0. Len(batch) = 0 /\ batch' = batch
      BY <2>0
    <3>a. queue[1] = Len(handled) + 1
      BY <1>3, <2>0, <3>0, Lengths DEF Numbered
    <3>1. \A i \in 1 .. Len(handled') : handled'[i] = i
      <4> SUFFICES ASSUME NEW i \in 1 .. Len(handled') PROVE handled'[i] = i
        OBVIOUS
      <4>1. CASE i \in 1 .. Len(handled)
        BY <1>3, <2>2, <3>a, <4>1, Zenon DEF Numbered
      <4>2. CASE i = Len(handled) + 1
        BY <1>3, <2>2, <3>a, <4>2
      <4> QED BY <1>3, <2>2, <3>a, <4>1, <4>2, Lengths
    <3>2. \A i \in 1 .. Len(queue') : queue'[i] = Len(handled') + Len(batch') + i
      BY <1>3, <2>2, <3>0 DEF Numbered, TypeInv
    <3>3. Len(handled') + Len(batch') + Len(queue') = added'
      BY <1>3, <2>0, <2>2, <3>0, Lengths DEF Numbered
    <3>4. \A i \in 1 .. Len(batch') : batch'[i] = Len(handled') + i
      BY <3>0
    <3> QED BY <3>1, <3>2, <3>3, <3>4 DEF Numbered
  <2>5. Pops'
    BY <1>3, <2>0, <2>1, <2>2 DEF Pops, TypeInv
  <2> QED BY <1>3, <2>0, <2>1, <2>3, <2>4, <2>5 DEF Batches
<1>4. ASSUME IInv, PopDone PROVE IInv'
  <2>1. /\ loop = "pop" /\ loop' = "test"
        /\ UNCHANGED <<kind, queue, added, batch, left, handled, woken, stop, stopping>>
    BY <1>4 DEF PopDone
  <2> QED BY <1>4, <2>1 DEF IInv, TypeInv, Numbered, Batches, Pops
<1> QED BY <1>1, <1>2, <1>3, <1>4

LEMMA Inductive == IInv /\ [LoopsNext]_loopsVars => IInv'
<1> SUFFICES ASSUME IInv, [LoopsNext]_loopsVars PROVE IInv'
  OBVIOUS
<1>1. CASE LoopsNext
  BY <1>1, EnqueueIInv, ShutdownIInv, EnterIInv, HandleIInv DEF LoopsNext, Loop
<1>2. CASE UNCHANGED loopsVars
  BY <1>2 DEF loopsVars, IInv, TypeInv, Numbered, Batches, Pops
<1> QED BY <1>1, <1>2

\* Items numbered one after the other make up the sequence of all items.
LEMMA NumberedIsOrder == TypeInv /\ Numbered => HandledInOrder
<1> SUFFICES ASSUME TypeInv, Numbered PROVE HandledInOrder
  OBVIOUS
<1> DEFINE hb == handled \o batch
           all == hb \o queue
           want == [i \in 1 .. added |-> i]
<1>1. /\ hb \in Seq(Nat) /\ Len(hb) = Len(handled) + Len(batch)
      /\ \A i \in 1 .. Len(hb) :
           hb[i] = IF i <= Len(handled) THEN handled[i] ELSE batch[i - Len(handled)]
  BY DEF TypeInv
<1>2. \A i \in 1 .. Len(hb) : hb[i] = i
  BY <1>1 DEF TypeInv, Numbered
<1> HIDE DEF hb
<1>3. /\ all \in Seq(Nat) /\ Len(all) = added
      /\ \A i \in 1 .. Len(all) :
           all[i] = IF i <= Len(hb) THEN hb[i] ELSE queue[i - Len(hb)]
  BY <1>1 DEF TypeInv, Numbered
<1>4. \A i \in 1 .. added : all[i] = i
  <2>1. Len(hb) + Len(queue) = added /\ Len(hb) \in Nat /\ Len(queue) \in Nat /\ added \in Nat
    BY <1>1, Lengths DEF TypeInv, Numbered
  <2>2. \A i \in 1 .. Len(queue) : queue[i] = Len(hb) + i
    BY <1>1 DEF Numbered
  <2> SUFFICES ASSUME NEW i \in 1 .. added PROVE all[i] = i
    BY Zenon
  <2>3. CASE i <= Len(hb)
    BY <1>2, <1>3, <2>1, <2>3
  <2>4. CASE i > Len(hb)
    <3>1. i - Len(hb) \in 1 .. Len(queue) /\ Len(hb) + (i - Len(hb)) = i
      BY <2>1, <2>4
    <3> QED BY <1>3, <2>1, <2>2, <2>4, <3>1
  <2> QED BY <2>1, <2>3, <2>4
<1> HIDE DEF all
<1>5. want \in Seq(Nat) /\ Len(want) = added /\ \A i \in 1 .. added : want[i] = i
  BY DEF TypeInv
<1>6. all = want
  BY <1>3, <1>4, <1>5
<1> QED BY <1>6 DEF HandledInOrder, all, hb

\* Frames, packets and events are handled once each and in the order they were queued,
\* whatever enqueue, schedule_event and shutdown() do during a round.
THEOREM WorkHandledInOrder == LoopsSpec => []HandledInOrder
<1>1. IInv => HandledInOrder
  BY NumberedIsOrder DEF IInv
<1> QED BY <1>1, InitIInv, Inductive, PTL DEF LoopsSpec

\* popleft() of the TX ring and of the event loop never meets an empty queue.
THEOREM PopsFindItems == LoopsSpec => []PopFindsItem
<1>1. IInv => PopFindsItem
  BY DEF IInv, TypeInv, PopFindsItem
<1> QED BY <1>1, InitIInv, Inductive, PTL DEF LoopsSpec
=============================================================================
