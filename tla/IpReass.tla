------------------------------ MODULE IpReass ------------------------------
(***************************************************************************)
(* Reassembly of one fragmented datagram: _ip_reass and the entry of its   *)
(* buffer id in ip_cache.fragments_cache (protocols/ip/rx.py).             *)
(*                                                                         *)
(* The RX thread handles one fragment after the other; the timer thread    *)
(* runs the callbacks of the entry's timers.  The lock covers the creation *)
(* of the entry, the handling of the fragment and the callback, each by    *)
(* itself, so each is one step.  Between the test of a task's _deleted     *)
(* flag and its call no lock is held: a callback may run although its      *)
(* timer was removed meanwhile.  Timers may expire at any time.            *)
(*                                                                         *)
(* The network loses and reorders fragments and delivers up to Copies of   *)
(* each.  Data is kept as the set of 8-byte blocks that hold the bytes     *)
(* sent.  An exception that nobody catches ends the RX thread ("dead").    *)
(*                                                                         *)
(* Fragments with MF are taken to fill their frames: of a shorter one, of  *)
(* 24 bytes of data or less, IPParser.data would also keep link padding,   *)
(* which is then stored over the bytes that follow it (not modelled).      *)
(***************************************************************************)
EXTENDS Naturals, FiniteSets

CONSTANTS
    NBlocks,      \* 8-byte blocks of data in the datagram
    Fragments,    \* its fragments: the first block of each, and the one after its last
    Copies,       \* how often the network may deliver each fragment
    PaddedLast    \* is the frame of the last fragment padded to the Ethernet minimum?

Blocks == 0 .. NBlocks - 1

Covered(f) == f.off .. f.end - 1

ASSUME ReassAssumption ==
    /\ NBlocks \in Nat \ {0}
    /\ Fragments # {}
    /\ Fragments \subseteq [off : Blocks, end : 1 .. NBlocks]
    /\ \A f \in Fragments : f.off < f.end
    /\ \A f, g \in Fragments : f # g => Covered(f) \cap Covered(g) = {}
    /\ Copies \in Nat
    /\ PaddedLast \in BOOLEAN

MF(f) == f.end # NBlocks
First(f) == f.off = 0

\* int((offset*8 + total_len - ihl + 7) // 8) - offset
BlocksOf(f) == f.end - f.off

VARIABLES
    inflight,     \* copies of each fragment the network may still deliver
    rx,           \* RX thread: "idle", "alloc", "body" or "dead", and its fragment
    live,         \* the buffer id is in fragments_cache
    count,        \* entry: block_count
    total,        \* entry: total_data_len, in blocks
    last,         \* entry: the last fragment was seen
    hdr,          \* entry: header_buffer is empty, or its total-length field is ...
    tmp,          \* entry: blocks in temporary_data_buffer
    buf,          \* entry: blocks in data_buffer
    got,          \* fragments put into the entry (history)
    timer,        \* entry's timer: "none", "pending", or "running" (callback about to run)
    stale,        \* a callback is about to run whose timer was removed, or lost its entry
    orphans,      \* timers still pending that no entry points to
    delivered,    \* datagrams handed to the next layer
    exceeded      \* an ICMP "reassembly time exceeded" was sent

entryVars == <<count, total, last, hdr, tmp, buf, got>>
timerVars == <<timer, stale, orphans>>
vars == <<inflight, rx, live, entryVars, timerVars, delivered, exceeded>>

Init ==
    /\ inflight = [f \in Fragments |-> Copies]
    /\ rx = [pc |-> "idle", f |-> CHOOSE f \in Fragments : TRUE]
    /\ live = FALSE
    /\ count = 0 /\ total = 0 /\ last = FALSE /\ hdr = "empty"
    /\ tmp = {} /\ buf = {} /\ got = {}
    /\ timer = "none" /\ stale = FALSE /\ orphans = 0
    /\ delivered = {} /\ exceeded = FALSE

RxGoto(pc) == rx' = [rx EXCEPT !.pc = pc]

\* rx_ip: a fragment with offset or MF set is passed to _ip_reass
RxIp(f) ==
    /\ rx.pc = "idle"
    /\ inflight[f] > 0
    /\ inflight' = [inflight EXCEPT ![f] = @ - 1]
    /\ rx' = [pc |-> "alloc", f |-> f]
    /\ UNCHANGED <<live, entryVars, timerVars, delivered, exceeded>>

\* Mutant: a new entry takes over the buffers of the last one
AllocIpReassMemKeeps ==
    /\ rx.pc = "alloc"
    /\ RxGoto("body")
    /\ live' = TRUE
    /\ IF live
       THEN UNCHANGED <<entryVars, timer>>
       ELSE /\ count' = 0 /\ total' = 0 /\ last' = FALSE /\ hdr' = "empty"
            /\ got' = {}
            /\ timer' = "pending"
            /\ UNCHANGED <<tmp, buf>>
    /\ UNCHANGED <<inflight, stale, orphans, delivered, exceeded>>

\* _alloc_ip_reass_mem, with a timer for a new entry
AllocIpReassMem ==
    /\ rx.pc = "alloc"
    /\ RxGoto("body")
    /\ live' = TRUE
    /\ IF live
       THEN UNCHANGED <<entryVars, timer>>
       ELSE /\ count' = 0 /\ total' = 0 /\ last' = FALSE /\ hdr' = "empty"
            /\ tmp' = {} /\ buf' = {} /\ got' = {}
            /\ timer' = "pending"
    /\ UNCHANGED <<inflight, stale, orphans, delivered, exceeded>>

\* fragments_cache[buffer_id] raises KeyError when the entry was released meanwhile
BufferMissing ==
    /\ rx.pc = "body" /\ ~ live
    /\ RxGoto("dead")
    /\ UNCHANGED <<inflight, live, entryVars, timerVars, delivered, exceeded>>

\* Mutant: complete when one block is still missing
IsReassembledEarly(n, len) == n + 1 >= len

\* _is_reassembled, once the last fragment was seen
IsReassembled(n, len) == n = len

\* t.remove(): a callback that has passed the test of _deleted still runs
RemoveTimer == stale' = (stale \/ timer = "running")

\* bytes(header_buffer + data_buffer), parsed again: the datagram ends where its
\* header says, and without a header its own data is taken for one
Reparsed(h, b) ==
    CASE h = "whole" -> b
      [] h = "first" -> b \cap UNION {Covered(f) : f \in {g \in Fragments : First(g)}}
      [] h = "empty" -> {}

\* Complete: remove the timer, release the entry and pass the datagram on
\* (_dealloc_ip_reass_mem).  Incomplete: restart the timer.
Conclude(len) ==
    LET done == IsReassembled(count', len) IN
    /\ RemoveTimer
    /\ timer' = IF done THEN "none" ELSE "pending"
    /\ live' = ~ done
    /\ delivered' = IF done THEN delivered \cup {[buf |-> buf', data |-> Reparsed(hdr', buf')]}
                    ELSE delivered
    /\ RxGoto("idle")
    /\ UNCHANGED <<inflight, orphans, exceeded>>

\* _ip_reass, last fragment: everything received before is copied to the data buffer
ReassLast ==
    LET f == rx.f IN
    /\ rx.pc = "body" /\ live /\ ~ MF(f)
    /\ ~ PaddedLast /\ ~ last
    /\ total' = f.end
    /\ last' = TRUE
    /\ buf' = Covered(f) \cup tmp
    /\ tmp' = {}
    /\ count' = count + BlocksOf(f)
    /\ hdr' = IF hdr = "empty" THEN hdr ELSE "whole"
    /\ got' = got \cup {f}
    /\ Conclude(total')

\* _ip_reass, last fragment: pack_into raises struct.error when padding makes the data
\* longer than the buffer, and the second time temporary_data_buffer is gone (KeyError)
ReassLastFails ==
    LET f == rx.f IN
    /\ rx.pc = "body" /\ live /\ ~ MF(f)
    /\ PaddedLast \/ last
    /\ total' = f.end
    /\ last' = TRUE
    /\ buf' = IF PaddedLast THEN {} ELSE Covered(f)
    /\ got' = got \cup {f}
    /\ RxGoto("dead")
    /\ UNCHANGED <<inflight, live, count, hdr, tmp, timerVars, delivered, exceeded>>

\* _ip_reass, a fragment after the last one.  The new total length is written over the
\* identification (offset 4), not over the length field of the header (offset 2).
ReassAfterLast ==
    LET f == rx.f IN
    /\ rx.pc = "body" /\ live /\ MF(f) /\ last
    /\ hdr' = IF First(f) THEN "first" ELSE hdr
    /\ count' = count + BlocksOf(f)
    /\ buf' = buf \cup Covered(f)
    /\ got' = got \cup {f}
    /\ Conclude(total)
    /\ UNCHANGED <<total, last, tmp>>

\* Mutant: the timer is removed and not started again
ReassBeforeLastNoTimer ==
    LET f == rx.f IN
    /\ rx.pc = "body" /\ live /\ MF(f) /\ ~ last
    /\ hdr' = IF First(f) THEN "first" ELSE hdr
    /\ count' = count + BlocksOf(f)
    /\ tmp' = tmp \cup Covered(f)
    /\ got' = got \cup {f}
    /\ RemoveTimer
    /\ timer' = "none"
    /\ RxGoto("idle")
    /\ UNCHANGED <<inflight, live, total, last, buf, orphans, delivered, exceeded>>

\* _ip_reass, a fragment before the last one: kept in temporary_data_buffer
ReassBeforeLast ==
    LET f == rx.f IN
    /\ rx.pc = "body" /\ live /\ MF(f) /\ ~ last
    /\ hdr' = IF First(f) THEN "first" ELSE hdr
    /\ count' = count + BlocksOf(f)
    /\ tmp' = tmp \cup Covered(f)
    /\ got' = got \cup {f}
    /\ RemoveTimer
    /\ timer' = "pending"
    /\ RxGoto("idle")
    /\ UNCHANGED <<inflight, live, total, last, buf, orphans, delivered, exceeded>>

\* Mutant: the timer of a live entry is never found due
TimerExpiresOrphans ==
    /\ timer # "running" /\ ~ stale
    /\ orphans > 0 /\ orphans' = orphans - 1 /\ stale' = TRUE /\ UNCHANGED timer
    /\ UNCHANGED <<inflight, rx, live, entryVars, delivered, exceeded>>

\* The timer loop takes the entry's timer, or one whose entry is gone
TimerExpires ==
    /\ timer # "running" /\ ~ stale
    /\ \/ timer = "pending" /\ timer' = "running" /\ UNCHANGED <<stale, orphans>>
       \/ orphans > 0 /\ orphans' = orphans - 1 /\ stale' = TRUE /\ UNCHANGED timer
    /\ UNCHANGED <<inflight, rx, live, entryVars, delivered, exceeded>>

\* Mutant: the report is sent whether there was an entry or not
ReassTimerExceededAlways ==
    /\ timer = "running" \/ stale
    /\ live' = FALSE
    /\ exceeded' = TRUE
    /\ orphans' = IF timer = "pending" THEN orphans + 1 ELSE orphans
    /\ timer' = "none" /\ stale' = FALSE
    /\ UNCHANGED <<inflight, rx, entryVars, delivered>>

\* _reass_timer_exceeded releases whatever entry the buffer id has by now
ReassTimerExceeded ==
    /\ timer = "running" \/ stale
    /\ live' = FALSE
    /\ exceeded' = (exceeded \/ live)
    /\ orphans' = IF timer = "pending" THEN orphans + 1 ELSE orphans
    /\ timer' = "none" /\ stale' = FALSE
    /\ UNCHANGED <<inflight, rx, entryVars, delivered>>

RxThread ==
    \/ AllocIpReassMem \/ BufferMissing
    \/ ReassLast \/ ReassLastFails \/ ReassAfterLast \/ ReassBeforeLast

TimerThread == TimerExpires \/ ReassTimerExceeded

Next ==
    \/ \E f \in Fragments : RxIp(f)
    \/ RxThread
    \/ TimerThread

Spec == Init /\ [][Next]_vars

\* Both threads run for ever, and a pending timer expires
FairSpec == Spec /\ WF_vars(RxThread) /\ WF_vars(TimerThread)

-----------------------------------------------------------------------------
(* Properties *)

Threads == {"idle", "alloc", "body", "dead"}

\* Type invariant: block_count is a number that no order of fragments makes negative.
TypeOK ==
    /\ inflight \in [Fragments -> 0 .. Copies]
    /\ rx \in [pc : Threads, f : Fragments]
    /\ live \in BOOLEAN /\ last \in BOOLEAN
    /\ count \in Nat /\ total \in 0 .. NBlocks
    /\ hdr \in {"empty", "first", "whole"}
    /\ tmp \subseteq Blocks /\ buf \subseteq Blocks /\ got \subseteq Fragments
    /\ timer \in {"none", "pending", "running"} /\ stale \in BOOLEAN /\ orphans \in Nat
    /\ delivered \subseteq [buf : SUBSET Blocks, data : SUBSET Blocks]
    /\ exceeded \in BOOLEAN

\* Data reaches its place: whatever order the fragments come in, the entry's buffers
\* hold exactly the blocks of the fragments received since it was created, and nothing
\* of an earlier entry with the same buffer id (temporary_data_buffer, data_buffer).
DataPlaced ==
    live /\ rx.pc # "dead" =>
        (IF last THEN buf ELSE tmp) = UNION {Covered(f) : f \in got}

\* The network has delivered no fragment twice
NoDuplicates == \A f \in Fragments : inflight[f] + 1 >= Copies

\* As long as nothing came twice, a datagram is passed on only when every block of it
\* has been received, although _is_reassembled only compares two counts.
DeliveredComplete == NoDuplicates => \A d \in delivered : d.buf = Blocks

\* No entry is kept for ever: as long as it is in fragments_cache its own timer is
\* pending or about to release it, whatever restarts and stale callbacks crossed.
EntryHasTimer == live => timer # "none"

\* Unless a fragment comes twice, a datagram is not both delivered and reported to its
\* sender as timed out: a callback that was already running when the last missing
\* fragment came finds the entry gone.
OneVerdict == NoDuplicates /\ delivered # {} => ~ exceeded

\* Memory is given back: every reassembly ends, by delivery or by time-out.
EntryReleased == live ~> ~ live

-----------------------------------------------------------------------------
(* Statements of comments that the code does not keep *)

\* "Defragmentation Done!": what is passed on has all its blocks, duplicates or not.
DefragmentationDone == \A d \in delivered : d.buf = Blocks

\* "Update the total len field": what the next layer gets is the whole datagram.
DeliveredWhole == \A d \in delivered : d.data = Blocks

\* "Create buffer-id if needed": the entry is there when the fragment is put into it.
BufferThere == rx.pc = "body" => live

\* "Put the last fragment data in 'data_buffer'": a last fragment is always stored.
LastFragmentStored == rx.pc # "dead" \/ rx.f.end # NBlocks \/ ~ live
=============================================================================
