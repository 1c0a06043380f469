---------------------------- MODULE BufferProofs ----------------------------
(***************************************************************************)
(* Proofs about the two ring buffers.  Offsets are stream positions modulo *)
(* the size of the ring, and every argument is about positions less than   *)
(* one turn apart.  Last, the send buffer with the network and the peer is *)
(* shown to be a reliable stream.                                          *)
(***************************************************************************)
EXTENDS RingBuffer, SendStream, Integers, SequenceTheorems, TLAPS

\* The provers, and their seconds, for a leaf that names none
USE SMTT(30), ZenonT(30)

-----------------------------------------------------------------------------
(* Positions and offsets *)

\* Division with remainder.
LEMMA ModQuotient ==
  ASSUME NEW M \in Nat \ {0}, NEW x \in Int
  PROVE  \E q \in Int : x = M * q + (x % M) /\ x % M \in 0 .. M - 1
  <1> DEFINE q == x \div M
             z == x - M * q
  <1>1. M \in Int /\ M > 0 /\ q \in Int /\ M * q \in Int
    OBVIOUS
  <1>2. M * q <= x /\ x < M * q + M
    BY <1>1
  <1> HIDE DEF q
  <1>3. z \in 0 .. M - 1 /\ x = M * q + z
    BY <1>1, <1>2
  <1> HIDE DEF z
  <1>4. x % M = z
    BY <1>1, <1>3
  <1>5. x = M * q + (x % M) /\ x % M \in 0 .. M - 1
    BY <1>3, <1>4, Zenon
  <1> QED BY <1>1, <1>5, Zenon

\* A number has only one remainder.
LEMMA ModUnique ==
  ASSUME NEW M \in Nat \ {0}, NEW q \in Int, NEW z \in 0 .. M - 1
  PROVE  (M * q + z) % M = z
  OBVIOUS

\* Numbers less than one turn apart have the same remainder only if they are equal.
LEMMA ModApart ==
  ASSUME NEW M \in Nat \ {0}, NEW x \in Int, NEW y \in Int, x < y, y - x < M
  PROVE  x % M # y % M
  <1> SUFFICES ASSUME x % M = y % M PROVE FALSE
    OBVIOUS
  <1>1. PICK p \in Int : x = M * p + (x % M) /\ x % M \in 0 .. M - 1
    BY ModQuotient, Zenon
  <1>2. PICK q \in Int : y = M * q + (y % M)
    BY ModQuotient, Zenon
  <1> DEFINE d == q - p
  <1>3. M * q - M * p = M * d /\ M * q \in Int /\ M * p \in Int /\ d \in Int
    OBVIOUS
  <1> HIDE DEF d
  <1>4. 0 < M * d /\ M * d < M
    BY <1>1, <1>2, <1>3
  <1> QED BY <1>3, <1>4

\* A sum may be reduced before or after a number is added.
LEMMA ModAdd ==
  ASSUME NEW M \in Nat \ {0}, NEW x \in Int, NEW k \in Int
  PROVE  ((x % M) + k) % M = (x + k) % M
  <1>1. PICK q \in Int : x = M * q + (x % M) /\ x % M \in 0 .. M - 1
    BY ModQuotient, Zenon
  <1> DEFINE c == x % M
             y == c + k
             z == y % M
  <1>2. c \in 0 .. M - 1 /\ x = M * q + c
    BY <1>1, Zenon
  <1> HIDE DEF c
  <1>3. y \in Int /\ M * q \in Int /\ x + k = M * q + y
    BY <1>2
  <1> HIDE DEF y
  <1>4. PICK p \in Int : y = M * p + (y % M) /\ y % M \in 0 .. M - 1
    BY <1>3, ModQuotient, Zenon
  <1>5. z \in 0 .. M - 1 /\ y = M * p + z
    BY <1>4, Zenon
  <1> HIDE DEF z
  <1> DEFINE s == q + p
  <1>6. M * s = M * q + M * p /\ s \in Int /\ M * p \in Int
    OBVIOUS
  <1> HIDE DEF s
  <1>7. x + k = M * s + z
    BY <1>3, <1>5, <1>6
  <1>8. (M * s + z) % M = z
    BY <1>5, <1>6, ModUnique
  <1> QED BY <1>7, <1>8 DEF z, y, c

\* The offsets of two positions less than one turn apart tell their distance: ready() is
\* what lies between them, free_space() the rest of the ring but one byte.
LEMMA ReadyFree ==
  ASSUME Size \in Nat \ {0}, NEW g \in Nat, NEW p \in Nat, g <= p, p - g < Size
  PROVE  /\ Ready(g % Size, p % Size) = p - g
         /\ FreeSpace(g % Size, p % Size) = Size - 1 - (p - g)
         /\ g % Size \in Offsets /\ p % Size \in Offsets
  <1>0. g \in Int /\ p \in Int
    OBVIOUS
  <1>1. PICK a \in Int : g = Size * a + (g % Size) /\ g % Size \in 0 .. Size - 1
    BY <1>0, ModQuotient, Zenon
  <1>2. PICK b \in Int : p = Size * b + (p % Size) /\ p % Size \in 0 .. Size - 1
    BY <1>0, ModQuotient, Zenon
  <1> DEFINE x == g % Size
             y == p % Size
             t == (a - b) + 1
             u == b - a
  <1>3. /\ Size * t = Size * a - Size * b + Size /\ t \in Int
        /\ Size * u = Size * b - Size * a /\ u \in Int
        /\ Size * a \in Int /\ Size * b \in Int
    OBVIOUS
  <1> HIDE DEF x, y, t, u
  <1>4. y + Size - x = Size * t + (p - g) /\ x + Size - y - 1 = Size * u + (Size - 1 - (p - g))
    <2>1. x \in 0 .. Size - 1 /\ y \in 0 .. Size - 1 /\ g = Size * a + x /\ p = Size * b + y
      BY <1>1, <1>2, Zenon DEF x, y
    <2> QED BY <1>3, <2>1
  <1>5. p - g \in 0 .. Size - 1 /\ Size - 1 - (p - g) \in 0 .. Size - 1
    BY <1>3
  <1>6. (y + Size - x) % Size = p - g
    BY <1>3, <1>4, <1>5, ModUnique, Zenon
  <1>7. (x + Size - y - 1) % Size = Size - 1 - (p - g)
    BY <1>3, <1>4, <1>5, ModUnique, Zenon
  <1> QED BY <1>1, <1>2, <1>6, <1>7 DEF Ready, FreeSpace, Offsets, x, y

-----------------------------------------------------------------------------
(* What the slice assignments of enqueue write *)

\* Bytes lo+1 .. hi of a call that started at position p, written into the ring rg.
Written(rg, p, lo, hi) ==
    [o \in Offsets |->
        IF \E k \in lo .. hi - 1 : o = ((p % Size) + k) % Size
        THEN p + 1 + CHOOSE k \in lo .. hi - 1 : o = ((p % Size) + k) % Size
        ELSE rg[o]]

\* In rg2 the bytes have arrived at their offsets, and the positions of the last turn
\* before them keep what they have in rg.
Extends(rg2, rg, p, lo, hi) ==
    /\ \A k \in lo .. hi - 1 : rg2[(p + k) % Size] = p + 1 + k
    /\ \A i \in Nat : i < p + lo /\ p + hi <= i + Size => rg2[i % Size] = rg[i % Size]

\* That is what the slice assignments do.
LEMMA WrittenAt ==
  ASSUME Size \in Nat \ {0}, NEW rg, NEW p \in Nat, NEW lo \in Nat, NEW hi \in Nat, hi <= Size
  PROVE  Extends(Written(rg, p, lo, hi), rg, p, lo, hi)
  <1>0. \A k \in Int : ((p % Size) + k) % Size = (p + k) % Size
    <2>1. p \in Int
      OBVIOUS
    <2> QED BY <2>1, ModAdd, Zenon
  <1>1. \A i \in Int : i % Size \in Offsets
    BY ModQuotient DEF Offsets
  <1>2. ASSUME NEW k \in lo .. hi - 1
        PROVE  Written(rg, p, lo, hi)[(p + k) % Size] = p + 1 + k
    <2> DEFINE o == (p + k) % Size
               c == CHOOSE j \in lo .. hi - 1 : o = ((p % Size) + j) % Size
    <2>1. k \in Int /\ p + k \in Int /\ o = ((p % Size) + k) % Size /\ o \in Offsets
      BY <1>0, <1>1
    <2>2. c \in lo .. hi - 1 /\ o = ((p % Size) + c) % Size
      BY <2>1, Zenon
    <2>3. Written(rg, p, lo, hi)[o] = p + 1 + c
      BY <2>1, Zenon DEF Written
    <2> HIDE DEF c
    <2>4. (p + c) % Size = (p + k) % Size /\ p + c \in Int /\ p + k \in Int
      BY <1>0, <2>2
    <2>5. c = k
      <3>1. CASE c < k
        <4>1. p + c < p + k /\ (p + k) - (p + c) < Size
          BY <2>2, <3>1
        <4> QED BY <2>4, <4>1, ModApart
      <3>2. CASE k < c
        <4>1. p + k < p + c /\ (p + c) - (p + k) < Size
          BY <2>2, <3>2
        <4> QED BY <2>4, <4>1, ModApart, Zenon
      <3> QED BY <2>2, <3>1, <3>2
    <2> QED BY <2>3, <2>5
  <1>3. ASSUME NEW i \in Nat, i < p + lo, p + hi <= i + Size
        PROVE  Written(rg, p, lo, hi)[i % Size] = rg[i % Size]
    <2>1. i % Size \in Offsets
      BY <1>1
    <2>2. ASSUME NEW k \in lo .. hi - 1 PROVE i % Size # ((p % Size) + k) % Size
      <3>1. k \in Int /\ i \in Int /\ p + k \in Int /\ i < p + k /\ (p + k) - i < Size
        BY <1>3
      <3> QED BY <1>0, <3>1, ModApart, Zenon
    <2> QED BY <2>1, <2>2, Zenon DEF Written
  <1> QED BY <1>2, <1>3 DEF Extends

-----------------------------------------------------------------------------
(* The receive buffer is a bounded FIFO *)

CallType(pcs) == [pc : pcs, r0 : Offsets, w0 : Offsets, n : Nat]

RingType ==
    /\ put \in Nat
    /\ enq \in CallType({"idle", "copy", "wrap", "commit"})
    /\ deq \in CallType({"idle", "commit", "read"})

\* g bytes were taken: the unread bytes are in their places, an enqueue fills free
\* space only, and a dequeue takes unread bytes only.
RingAt(g) ==
    /\ g <= put /\ put - g < Size
    /\ r = g % Size /\ w = put % Size
    /\ \A i \in g .. put - 1 : ring[i % Size] = i + 1
    /\ enq.pc # "idle" => enq.w0 = w /\ enq.n > 0 /\ put - g + enq.n < Size
    /\ enq.pc = "wrap" =>
           /\ Size - enq.w0 <= enq.n
           /\ \A k \in 0 .. Size - enq.w0 - 1 : ring[(put + k) % Size] = put + 1 + k
    /\ enq.pc = "commit" => \A k \in 0 .. enq.n - 1 : ring[(put + k) % Size] = put + 1 + k
    /\ deq.pc = "commit" => deq.r0 = r /\ deq.n \in 1 .. put - g

\* After the update of _r the views are those of the last deq.n bytes taken, and a byte is
\* there as long as the one that takes its place next is neither written nor claimed.
LateViews(g) ==
    /\ enq.pc = "idle" => enq.n = 0
    /\ deq.pc = "read" =>
           /\ deq.n <= g /\ deq.r0 = (g - deq.n) % Size
           /\ \A i \in g - deq.n .. g - 1 : Claimed <= i + Size => ring[i % Size] = i + 1

\* The inductive invariant of RingBuffer
RingInv == RingType /\ \E g \in Nat : RingAt(g) /\ LateViews(g)

\* Every step but the update of _r keeps the unread bytes in their places.
LEMMA RingStay ==
  ASSUME RingType, NEW g \in Nat, RingAt(g), [Next]_vars, ~ DequeueCommit
  PROVE  RingType' /\ RingAt(g)'
  <1> USE RingAssumption
  <1>0. /\ put \in Nat /\ enq.n \in Nat /\ deq.n \in Nat /\ g <= put /\ put - g < Size
        /\ r = g % Size /\ w = put % Size /\ r \in Offsets /\ w \in Offsets
        /\ Ready(r, w) = put - g /\ FreeSpace(r, w) = Size - 1 - (put - g)
    BY ReadyFree, Zenon DEF RingType, CallType, RingAt
  <1>1. ASSUME NEW len \in 1 .. Size, EnqueueStart(len) PROVE RingType' /\ RingAt(g)'
    <2>1. /\ enq' = Call("copy", r, w, Least(len, FreeSpace(r, w))) /\ FreeSpace(r, w) # 0
          /\ UNCHANGED <<ring, w, r, deq, put>>
      BY <1>1 DEF EnqueueStart
    <2>2. Least(len, FreeSpace(r, w)) \in 1 .. Size - 1 - (put - g)
      BY <1>0, <2>1 DEF Least
    <2>3. enq'.pc = "copy" /\ enq'.w0 = w /\ enq'.n \in 1 .. Size - 1 - (put - g)
      BY <2>1, <2>2 DEF Call
    <2>4. RingType'
      BY <1>0, <2>1, <2>2 DEF RingType, CallType, Call
    <2> QED BY <1>0, <2>1, <2>3, <2>4 DEF RingAt
  <1>2. ASSUME EnqueueCopy PROVE RingType' /\ RingAt(g)'
    <2>1. /\ enq.pc = "copy" /\ enq.w0 = put % Size /\ enq.n > 0 /\ put - g + enq.n < Size
          /\ UNCHANGED <<w, r, deq, put>> /\ enq.w0 \in Offsets
      BY <1>0, <1>2 DEF EnqueueCopy, RingAt
    <2> DEFINE hi == IF enq.w0 + enq.n <= Size - 1 THEN enq.n ELSE Size - enq.w0
    <2>2. /\ ring' = Copied(0, hi)
          /\ enq' = [enq EXCEPT !.pc = IF enq.w0 + enq.n <= Size - 1 THEN "commit" ELSE "wrap"]
      BY <1>2 DEF EnqueueCopy
    <2>3. ring' = Written(ring, put, 0, hi)
      BY <2>1, <2>2 DEF Copied, Written
    <2>4. hi \in Nat /\ hi <= enq.n /\ hi <= Size
      BY <1>0, <2>1 DEF Offsets
    <2>5. /\ enq'.w0 = enq.w0 /\ enq'.n = enq.n
          /\ enq'.pc = IF enq.w0 + enq.n <= Size - 1 THEN "commit" ELSE "wrap"
      BY <2>2 DEF RingType, CallType
    <2>6. /\ enq'.pc = "commit" => hi = enq.n
          /\ enq'.pc = "wrap" => hi = Size - enq.w0
      BY <2>5
    <2>7. RingType'
      BY <2>1, <2>2 DEF RingType, CallType
    <2> HIDE DEF hi
    <2>10. Extends(ring', ring, put, 0, hi)
      BY <1>0, <2>3, <2>4, WrittenAt
    <2>8. \A k \in 0 .. hi - 1 : ring'[(put + k) % Size] = put + 1 + k
      BY <2>10 DEF Extends
    <2>9. ASSUME NEW i \in g .. put - 1 PROVE ring'[i % Size] = i + 1
      <3>1. i \in Nat /\ i < put + 0 /\ put + hi <= i + Size
        BY <1>0, <2>1, <2>4
      <3>2. ring'[i % Size] = ring[i % Size]
        BY <2>10, <3>1 DEF Extends
      <3> QED BY <3>2 DEF RingAt
    <2> QED BY <1>0, <2>1, <2>4, <2>5, <2>6, <2>7, <2>8, <2>9, Zenon DEF RingAt
  <1>3. ASSUME EnqueueWrap PROVE RingType' /\ RingAt(g)'
    <2> DEFINE lo == Size - enq.w0
    <2>1. /\ enq.pc = "wrap" /\ enq.w0 = put % Size /\ enq.n > 0 /\ put - g + enq.n < Size
          /\ UNCHANGED <<w, r, deq, put>> /\ enq.w0 \in Offsets /\ lo <= enq.n
          /\ ring' = Copied(lo, enq.n) /\ enq' = [enq EXCEPT !.pc = "commit"]
          /\ \A k \in 0 .. lo - 1 : ring[(put + k) % Size] = put + 1 + k
      BY <1>0, <1>3 DEF EnqueueWrap, RingAt
    <2>2. ring' = Written(ring, put, lo, enq.n)
      BY <2>1 DEF Copied, Written
    <2>3. lo \in Nat /\ enq.n <= Size
      BY <1>0, <2>1 DEF Offsets
    <2>4. enq'.w0 = enq.w0 /\ enq'.n = enq.n /\ enq'.pc = "commit" /\ RingType'
      BY <2>1 DEF RingType, CallType
    <2> HIDE DEF lo
    <2>10. Extends(ring', ring, put, lo, enq.n)
      BY <1>0, <2>2, <2>3, WrittenAt
    <2>6. ASSUME NEW i \in g .. put - 1 PROVE ring'[i % Size] = i + 1
      <3>1. i \in Nat /\ i < put + lo /\ put + enq.n <= i + Size
        BY <1>0, <2>1, <2>3
      <3> QED BY <2>10, <3>1 DEF RingAt, Extends
    <2>7. ASSUME NEW k \in 0 .. enq.n - 1 PROVE ring'[(put + k) % Size] = put + 1 + k
      <3>1. CASE k < lo
        <4>1. put + k \in Nat /\ put + k < put + lo /\ put + enq.n <= (put + k) + Size /\ k \in 0 .. lo - 1
          BY <1>0, <2>1, <2>3, <3>1
        <4> QED BY <2>1, <2>10, <4>1 DEF Extends
      <3>2. CASE k >= lo
        <4>1. k \in lo .. enq.n - 1
          BY <1>0, <2>3, <3>2
        <4> QED BY <2>10, <4>1 DEF Extends
      <3> QED BY <1>0, <2>3, <3>1, <3>2
    <2> QED BY <1>0, <2>1, <2>4, <2>6, <2>7 DEF RingAt
  <1>4. ASSUME EnqueueCommit PROVE RingType' /\ RingAt(g)'
    <2>1. /\ w' = (w + enq.n) % Size /\ put' = put + enq.n /\ enq' = Idle
          /\ UNCHANGED <<ring, r, deq>> /\ enq.n > 0 /\ put - g + enq.n < Size
          /\ \A k \in 0 .. enq.n - 1 : ring[(put + k) % Size] = put + 1 + k
      BY <1>4 DEF EnqueueCommit, RingAt
    <2>2. w' = put' % Size
      <3>1. put \in Int /\ enq.n \in Int
        BY <1>0
      <3> QED BY <1>0, <2>1, <3>1, ModAdd, Zenon
    <2>3. RingType' /\ enq'.pc = "idle"
      BY <1>0, <2>1 DEF RingType, CallType, Idle, Call, Offsets
    <2>4. ASSUME NEW i \in g .. put' - 1 PROVE ring'[i % Size] = i + 1
      <3>1. CASE i < put
        <4>1. i \in g .. put - 1
          BY <1>0, <3>1
        <4> QED BY <2>1, <4>1 DEF RingAt
      <3>2. CASE i >= put
        <4>1. i - put \in 0 .. enq.n - 1 /\ put + (i - put) = i /\ put + 1 + (i - put) = i + 1
          BY <1>0, <2>1, <3>2
        <4> QED BY <2>1, <4>1
      <3> QED BY <1>0, <3>1, <3>2
    <2>5. g <= put' /\ put' - g < Size /\ (deq.pc = "commit" => deq.r0 = r /\ deq.n \in 1 .. put' - g)
      BY <1>0, <2>1 DEF RingAt
    <2> QED BY <1>0, <2>1, <2>2, <2>3, <2>4, <2>5 DEF RingAt
  <1>5. ASSUME NEW len \in 1 .. Size, DequeueStart(len) PROVE RingType' /\ RingAt(g)'
    <2>1. /\ deq' = Call("commit", r, w, Least(len, Ready(r, w))) /\ r # w
          /\ UNCHANGED <<ring, w, r, enq, put>>
      BY <1>5 DEF DequeueStart
    <2>2. Least(len, Ready(r, w)) \in 1 .. put - g
      BY <1>0, <2>1 DEF Least
    <2>3. deq'.pc = "commit" /\ deq'.r0 = r /\ deq'.n \in 1 .. put - g
      BY <2>1, <2>2 DEF Call
    <2>4. RingType'
      BY <1>0, <2>1, <2>2 DEF RingType, CallType, Call
    <2> QED BY <1>0, <2>1, <2>3, <2>4 DEF RingAt
  <1>6. ASSUME ReadViews PROVE RingType' /\ RingAt(g)'
    <2>1. deq' = Idle /\ UNCHANGED <<ring, w, r, enq, put>>
      BY <1>6 DEF ReadViews
    <2>2. RingType' /\ deq'.pc = "idle"
      BY <2>1 DEF RingType, CallType, Idle, Call, Offsets
    <2> QED BY <2>1, <2>2 DEF RingAt
  <1>7. ASSUME UNCHANGED vars PROVE RingType' /\ RingAt(g)'
    BY <1>7 DEF vars, RingType, RingAt
  <1> QED BY <1>1, <1>2, <1>3, <1>4, <1>5, <1>6, <1>7 DEF Next

\* The update of _r takes the bytes of the views.
LEMMA RingTake ==
  ASSUME RingType, NEW g \in Nat, RingAt(g), DequeueCommit, NEW h \in Nat, h = g + deq.n
  PROVE  RingType' /\ RingAt(h)'
  <1> USE RingAssumption
  <1>0. /\ put \in Nat /\ enq.n \in Nat /\ deq.n \in Nat /\ g <= put /\ put - g < Size
        /\ r = g % Size /\ w = put % Size /\ r \in Offsets /\ w \in Offsets
        /\ Ready(r, w) = put - g /\ FreeSpace(r, w) = Size - 1 - (put - g)
    BY ReadyFree, Zenon DEF RingType, CallType, RingAt
  <1>1. /\ r' = (r + Viewed) % Size /\ deq' = [deq EXCEPT !.pc = "read"] /\ UNCHANGED <<ring, w, enq, put>>
        /\ deq.n \in 1 .. put - g /\ deq.r0 = r
    BY DEF DequeueCommit, RingAt
  <1>2. Viewed = deq.n
    BY <1>0, <1>1 DEF Viewed, Offsets
  <1>3. r' = (g + deq.n) % Size
    <2>1. g \in Int /\ deq.n \in Int
      BY <1>0
    <2> QED BY <1>0, <1>1, <1>2, <2>1, ModAdd, Zenon
  <1>4. RingType' /\ deq'.pc = "read"
    BY <1>0, <1>1 DEF RingType, CallType
  <1>5. /\ g + deq.n \in Nat /\ g + deq.n <= put /\ put - (g + deq.n) < Size
        /\ enq.pc # "idle" => put - (g + deq.n) + enq.n < Size
    <2>1. enq.pc # "idle" => put - g + enq.n < Size
      BY DEF RingAt
    <2> QED BY <1>0, <1>1, <2>1
  <1>6. \A i \in g + deq.n .. put - 1 : i \in g .. put - 1
    BY <1>0, <1>1
  <1>7. RingAt(h)'
    <2>1. /\ h <= put' /\ put' - h < Size /\ r' = h % Size /\ w' = put' % Size
          /\ enq'.pc # "idle" => put' - h + enq'.n < Size
      BY <1>0, <1>1, <1>3, <1>5
    <2>2. \A i \in h .. put' - 1 : ring'[i % Size] = i + 1
      BY <1>1, <1>6 DEF RingAt
    <2> QED BY <1>1, <1>4, <2>1, <2>2 DEF RingAt
  <1> QED BY <1>4, <1>7

\* Only an enqueue that has claimed the place of a viewed byte writes there.
LEMMA LateStay ==
  ASSUME RingType, NEW g \in Nat, RingAt(g), LateViews(g), [Next]_vars, ~ DequeueCommit
  PROVE  LateViews(g)'
  <1>0. /\ Size \in Nat \ {0} /\ put \in Nat /\ enq.n \in Nat /\ deq.n \in Nat /\ g <= put
        /\ enq.w0 \in Offsets /\ deq.pc \in {"idle", "commit", "read"}
    BY RingAssumption DEF RingType, CallType, RingAt
  <1>1. ASSUME NEW len \in 1 .. Size, EnqueueStart(len) PROVE LateViews(g)'
    <2>1. /\ enq' = Call("copy", r, w, Least(len, FreeSpace(r, w))) /\ enq.n = 0
          /\ UNCHANGED <<ring, w, r, deq, put>>
      BY <1>1 DEF EnqueueStart, LateViews
    <2>2. FreeSpace(r, w) \in Nat
      <3>1. g % Size \in Offsets /\ FreeSpace(g % Size, put % Size) = Size - 1 - (put - g) /\ put - g < Size
        BY <1>0, ReadyFree DEF RingAt
      <3> QED BY <1>0, <3>1 DEF RingAt
    <2>3. enq'.pc = "copy" /\ enq'.n \in Nat
      BY <2>1, <2>2 DEF Call, Least
    <2>4. put \in Nat /\ Claimed = put /\ Claimed' >= put /\ Claimed' \in Nat
      BY <1>0, <2>1, <2>3 DEF Claimed
    <2>5. \A i \in g - deq.n .. g - 1 : Claimed' <= i + Size => Claimed <= i + Size
      BY <1>0, <2>4
    <2> QED BY <2>1, <2>3, <2>5 DEF LateViews
  <1>2. ASSUME EnqueueCopy \/ EnqueueWrap PROVE LateViews(g)'
    <2> DEFINE lo == IF enq.pc = "copy" THEN 0 ELSE Size - enq.w0
               hi == IF enq.pc = "copy" /\ enq.w0 + enq.n > Size - 1 THEN Size - enq.w0 ELSE enq.n
    <2>1. /\ enq.pc \in {"copy", "wrap"} /\ enq.w0 = put % Size /\ put - g + enq.n < Size
          /\ UNCHANGED <<deq, put>> /\ enq'.pc # "idle" /\ enq'.n = enq.n
      <3>1. /\ enq.pc \in {"copy", "wrap"} /\ enq.w0 = put % Size /\ put - g + enq.n < Size
            /\ UNCHANGED <<deq, put>>
        BY <1>2 DEF EnqueueCopy, EnqueueWrap, RingAt
      <3>2. enq' = [enq EXCEPT !.pc = "commit"] \/ enq' = [enq EXCEPT !.pc = "wrap"]
        BY <1>2 DEF EnqueueCopy, EnqueueWrap
      <3> QED BY <3>1, <3>2 DEF RingType, CallType
    <2>2. ring' = Copied(lo, hi)
      BY <1>0, <1>2 DEF EnqueueCopy, EnqueueWrap, Offsets
    <2>3. ring' = Written(ring, put, lo, hi)
      BY <2>1, <2>2 DEF Copied, Written
    <2>4. lo \in Nat /\ hi \in Nat /\ hi <= enq.n /\ hi <= Size
      <3>1. enq.w0 \in 0 .. Size - 1 /\ enq.n < Size
        BY <1>0, <2>1 DEF Offsets
      <3> QED BY <1>0, <3>1
    <2> HIDE DEF lo, hi
    <2>5. Extends(ring', ring, put, lo, hi)
      BY <1>0, <2>3, <2>4, WrittenAt
    <2>6. ASSUME deq.pc = "read", NEW i \in g - deq.n .. g - 1, Claimed <= i + Size
          PROVE  ring'[i % Size] = i + 1
      <3>1. deq.n <= g /\ ring[i % Size] = i + 1
        BY <2>6 DEF LateViews
      <3>2. i \in Nat /\ i < put + lo /\ put + hi <= i + Size
        BY <1>0, <2>4, <2>6, <3>1 DEF Claimed
      <3> QED BY <2>5, <3>1, <3>2 DEF Extends
    <2> QED BY <2>1, <2>6 DEF LateViews, Claimed
  <1>3. ASSUME EnqueueCommit PROVE LateViews(g)'
    <2>1. enq' = Idle /\ put' = put + enq.n /\ UNCHANGED <<ring, r, deq>>
      BY <1>3 DEF EnqueueCommit
    <2>2. Claimed' = Claimed /\ enq'.n = 0
      BY <1>0, <2>1 DEF Claimed, Idle, Call
    <2> QED BY <2>1, <2>2 DEF LateViews
  <1>4. ASSUME NEW len \in 1 .. Size, DequeueStart(len) PROVE LateViews(g)'
    <2>1. deq'.pc = "commit" /\ enq' = enq
      BY <1>4 DEF DequeueStart, Call
    <2> QED BY <2>1 DEF LateViews
  <1>5. ASSUME ReadViews PROVE LateViews(g)'
    <2>1. deq'.pc = "idle" /\ enq' = enq
      BY <1>5 DEF ReadViews, Idle, Call
    <2> QED BY <2>1 DEF LateViews
  <1>6. ASSUME UNCHANGED vars PROVE LateViews(g)'
    BY <1>6 DEF vars, LateViews, Claimed
  <1> QED BY <1>1, <1>2, <1>3, <1>4, <1>5, <1>6 DEF Next

\* When _r is moved the views hold the bytes just taken.
LEMMA LateTake ==
  ASSUME RingType, NEW g \in Nat, RingAt(g), LateViews(g), DequeueCommit,
         NEW h \in Nat, h = g + deq.n
  PROVE  LateViews(h)'
  <1>0. put \in Nat /\ deq.n \in 1 .. put - g /\ deq.r0 = g % Size /\ UNCHANGED <<ring, enq, put>>
    BY DEF DequeueCommit, RingAt, RingType
  <1>1. deq'.n = deq.n /\ deq'.r0 = deq.r0
    BY DEF DequeueCommit, RingType, CallType
  <1>2. h - deq.n = g /\ deq.n <= h /\ \A i \in g .. h - 1 : i \in g .. put - 1
    BY <1>0
  <1>3. \A i \in g .. h - 1 : ring[i % Size] = i + 1
    BY <1>2 DEF RingAt
  <1> QED BY <1>0, <1>1, <1>2, <1>3 DEF LateViews

\* The bytes after position g up to position p
Stretch(g, p) == [k \in 1 .. p - g |-> g + k]

\* A stretch is a sequence; it grows at its end and is cut at its front.
LEMMA StretchType ==
  ASSUME NEW g \in Nat, NEW p \in Nat, g <= p
  PROVE  /\ Stretch(g, p) \in Seq(Nat) /\ Len(Stretch(g, p)) = p - g
         /\ \A k \in 1 .. p - g : Stretch(g, p)[k] = g + k
  <1>1. p - g \in Nat /\ \A k \in 1 .. p - g : g + k \in Nat
    OBVIOUS
  <1> QED BY <1>1 DEF Stretch

\* enqueue's update of _w appends the next bytes of the stream.
LEMMA StretchPut ==
  ASSUME NEW g \in Nat, NEW p \in Nat, g <= p, NEW n \in Nat
  PROVE  Stretch(g, p + n) = Stretch(g, p) \o [k \in 1 .. n |-> p + k]
  <1> DEFINE a == Stretch(g, p)
             b == [k \in 1 .. n |-> p + k]
             c == Stretch(g, p + n)
  <1>1. p + n \in Nat /\ g <= p + n
    OBVIOUS
  <1>2. a \in Seq(Nat) /\ Len(a) = p - g /\ \A k \in 1 .. p - g : a[k] = g + k
    BY StretchType
  <1>3. c \in Seq(Nat) /\ Len(c) = p + n - g /\ \A k \in 1 .. p + n - g : c[k] = g + k
    BY <1>1, StretchType
  <1>4. b \in Seq(Nat) /\ Len(b) = n /\ \A k \in 1 .. n : b[k] = p + k
    OBVIOUS
  <1> HIDE DEF a, b, c
  <1>5. /\ a \o b \in Seq(Nat) /\ Len(a \o b) = Len(a) + Len(b)
        /\ \A i \in 1 .. Len(a) + Len(b) : (a \o b)[i] = IF i <= Len(a) THEN a[i] ELSE b[i - Len(a)]
    BY <1>2, <1>4, ConcatProperties, Zenon
  <1>6. ASSUME NEW i \in 1 .. Len(c) PROVE c[i] = (a \o b)[i]
    <2>1. i \in 1 .. Len(a) + Len(b) /\ c[i] = g + i
      BY <1>2, <1>3, <1>4
    <2>2. CASE i <= p - g
      <3>1. i \in 1 .. p - g
        BY <2>1, <2>2
      <3> QED BY <1>2, <1>5, <2>1, <3>1
    <2>3. CASE i > p - g
      <3>1. i - (p - g) \in 1 .. n /\ p + (i - (p - g)) = g + i /\ ~ (i <= p - g)
        BY <1>3, <2>3
      <3> QED BY <1>2, <1>4, <1>5, <2>1, <3>1
    <2>4. i <= p - g \/ i > p - g
      BY <1>3
    <2> QED BY <2>2, <2>3, <2>4, Zenon
  <1>7. Len(c) = Len(a \o b)
    BY <1>2, <1>3, <1>4, <1>5
  <1>8. c = a \o b
    BY <1>3, <1>5, <1>6, <1>7, SeqEqual, Zenon
  <1> QED BY <1>8, Zenon DEF a, b, c

\* dequeue's update of _r drops the oldest bytes.
LEMMA StretchGet ==
  ASSUME NEW g \in Nat, NEW p \in Nat, g <= p, NEW n \in 1 .. p - g
  PROVE  Stretch(g + n, p) = SubSeq(Stretch(g, p), n + 1, Len(Stretch(g, p)))
  <1> DEFINE a == Stretch(g, p)
             c == Stretch(g + n, p)
             d == SubSeq(a, n + 1, Len(a))
  <1>1. g + n \in Nat /\ g + n <= p
    OBVIOUS
  <1>2. a \in Seq(Nat) /\ Len(a) = p - g /\ \A k \in 1 .. p - g : a[k] = g + k
    BY StretchType
  <1>3. c \in Seq(Nat) /\ Len(c) = p - (g + n) /\ \A k \in 1 .. p - (g + n) : c[k] = (g + n) + k
    BY <1>1, StretchType
  <1> HIDE DEF a, c
  <1>4. n + 1 \in Int /\ Len(a) \in Int /\ \A i \in n + 1 .. Len(a) : a[i] \in Nat
    BY <1>2
  <1>5. /\ d \in Seq(Nat) /\ Len(d) = IF n + 1 <= Len(a) THEN Len(a) - (n + 1) + 1 ELSE 0
        /\ \A i \in 1 .. Len(a) - (n + 1) + 1 : d[i] = a[(n + 1) + i - 1]
    BY <1>4, SubSeqProperties
  <1> HIDE DEF d
  <1>6. ASSUME NEW i \in 1 .. Len(c) PROVE c[i] = d[i]
    <2>1. i \in 1 .. Len(a) - (n + 1) + 1 /\ (n + 1) + i - 1 \in 1 .. p - g
          /\ g + ((n + 1) + i - 1) = (g + n) + i
      BY <1>2, <1>3
    <2> QED BY <1>2, <1>3, <1>5, <2>1
  <1>7. Len(c) = Len(d)
    BY <1>2, <1>3, <1>5
  <1>8. c = d
    <2>1. c \in Seq(Nat) /\ d \in Seq(Nat) /\ Len(c) = Len(d)
      BY <1>3, <1>5, <1>7, Zenon
    <2>2. \A i \in 1 .. Len(c) : c[i] = d[i]
      BY <1>6
    <2> QED BY <2>1, <2>2, SeqEqual, Zenon
  <1> QED BY <1>8 DEF a, c, d

\* What lies between the two offsets is a stretch of the stream.
LEMMA ContentsAre ==
  ASSUME NEW rg, NEW r0, NEW w0, NEW g \in Nat, NEW p \in Nat, g <= p, p - g < Size,
         r0 = g % Size, w0 = p % Size, \A i \in g .. p - 1 : rg[i % Size] = i + 1
  PROVE  [k \in 1 .. Ready(r0, w0) |-> rg[(r0 + k - 1) % Size]] = Stretch(g, p)
  <1>1. Ready(r0, w0) = p - g /\ Size \in Nat \ {0} /\ g \in Int
    <2>1. Size \in Nat \ {0} /\ g \in Int
      BY RingAssumption
    <2>2. Ready(g % Size, p % Size) = p - g
      BY <2>1, ReadyFree, Zenon
    <2> QED BY <2>1, <2>2
  <1>2. ASSUME NEW k \in 1 .. p - g PROVE rg[(r0 + k - 1) % Size] = g + k
    <2>1. r0 \in Int
      BY <1>1, ModQuotient
    <2>2. r0 + k - 1 = (g % Size) + (k - 1) /\ k - 1 \in Int
      BY <2>1
    <2>3. ((g % Size) + (k - 1)) % Size = (g + (k - 1)) % Size
      BY <1>1, <2>2, ModAdd, Zenon
    <2>4. g + (k - 1) \in g .. p - 1 /\ g + (k - 1) + 1 = g + k
      OBVIOUS
    <2> QED BY <2>2, <2>3, <2>4
  <1> QED BY <1>1, <1>2 DEF Stretch

\* The invariant holds initially and is preserved.
LEMMA RingInitial == Init => RingInv
  <1> SUFFICES ASSUME Init PROVE RingInv
    OBVIOUS
  <1>1. 0 % Size = 0 /\ 0 \in Offsets
    BY RingAssumption DEF Offsets
  <1>2. RingType
    BY <1>1 DEF Init, RingType, CallType, Idle, Call
  <1>3. RingAt(0)
    BY <1>1, RingAssumption DEF Init, RingAt, Idle, Call
  <1>4. LateViews(0)
    BY DEF Init, LateViews, Idle, Call
  <1> QED BY <1>2, <1>3, <1>4 DEF RingInv

LEMMA RingNext == RingInv /\ [Next]_vars => RingInv'
  <1> SUFFICES ASSUME RingInv, [Next]_vars PROVE RingInv'
    OBVIOUS
  <1>1. PICK g \in Nat : RingAt(g) /\ LateViews(g)
    BY DEF RingInv
  <1>2. RingType
    BY DEF RingInv
  <1>3. CASE DequeueCommit
    <2>1. PICK h \in Nat : h = g + deq.n
      BY <1>2 DEF RingType, CallType
    <2>2. RingType' /\ RingAt(h)' /\ LateViews(h)'
      BY <1>1, <1>2, <1>3, <2>1, RingTake, LateTake
    <2> QED BY <2>2 DEF RingInv
  <1>4. CASE ~ DequeueCommit
    <2>1. RingType' /\ RingAt(g)' /\ LateViews(g)'
      BY <1>1, <1>2, <1>4, RingStay, LateStay
    <2> QED BY <2>1 DEF RingInv
  <1> QED BY <1>3, <1>4

\* A dequeue's views hold the oldest unread bytes until it moves _r, whatever enqueues run
\* between its snapshot and the update; after it, until recv() has copied them, each byte
\* stays until an enqueue claims the byte one whole turn of the ring later.
THEOREM ViewsStayIntact == Spec => []ViewsIntact
  <1>1. RingInv => ViewsIntact
    <2> SUFFICES ASSUME RingInv PROVE ViewsIntact
      OBVIOUS
    <2>0. Size \in Nat \ {0}
      BY RingAssumption
    <2>1. PICK g \in Nat : RingAt(g) /\ LateViews(g)
      BY DEF RingInv
    <2>2. /\ put \in Nat /\ g <= put /\ put - g < Size /\ r = g % Size /\ w = put % Size
          /\ \A i \in g .. put - 1 : ring[i % Size] = i + 1
          /\ deq.n \in Nat /\ enq.n \in Nat
      BY <2>1 DEF RingInv, RingType, CallType, RingAt
    <2>3. Len(Contents) = put - g
      <3>1. Contents = Stretch(g, put)
        BY <2>2, ContentsAre DEF Contents
      <3> QED BY <2>2, <3>1, StretchType, Zenon
    <2>4. ASSUME NEW v \in Nat, NEW k \in 1 .. deq.n, ViewsAt = v, deq.r0 = v % Size,
                 ring[(v + (k - 1)) % Size] = v + k
          PROVE  ViewHolds(k)
      <3>1. deq.r0 \in Int /\ v \in Int /\ k - 1 \in Int
        BY <2>0, <2>2, <2>4, ModQuotient
      <3>2. ((v % Size) + (k - 1)) % Size = (v + (k - 1)) % Size
        BY <2>0, <3>1, ModAdd, Zenon
      <3>3. deq.r0 + k - 1 = (v % Size) + (k - 1)
        BY <2>4, <3>1
      <3> QED BY <2>4, <3>2, <3>3 DEF ViewHolds
    <2>5. ASSUME deq.pc = "commit"
          PROVE  deq.n <= Len(Contents) /\ \A k \in 1 .. deq.n : ViewHolds(k)
      <3>1. deq.r0 = g % Size /\ deq.n \in 1 .. put - g /\ ViewsAt = g
        BY <2>1, <2>2, <2>3, <2>5 DEF RingAt, ViewsAt
      <3>2. ASSUME NEW k \in 1 .. deq.n PROVE ViewHolds(k)
        <4>1. g + (k - 1) \in g .. put - 1 /\ (g + (k - 1)) + 1 = g + k
          BY <2>2, <3>1
        <4>2. ring[(g + (k - 1)) % Size] = g + k
          BY <2>2, <4>1
        <4> QED BY <2>4, <3>1, <4>2
      <3> QED BY <2>3, <3>1, <3>2
    <2>6. ASSUME deq.pc = "read", NEW k \in 1 .. deq.n, Claimed < ViewsAt + k + Size
          PROVE  ViewHolds(k)
      <3>1. PICK v \in Int : v = g - deq.n
        BY <2>2
      <3>2. /\ deq.n <= g /\ deq.r0 = v % Size
            /\ \A i \in v .. g - 1 : Claimed <= i + Size => ring[i % Size] = i + 1
        BY <2>1, <2>6, <3>1 DEF LateViews
      <3>3. v \in Nat /\ ViewsAt = v /\ Claimed \in Nat
        BY <2>2, <2>3, <2>6, <3>1, <3>2 DEF ViewsAt, Claimed
      <3>4. v + (k - 1) \in v .. g - 1 /\ (v + (k - 1)) + 1 = v + k /\ Claimed <= (v + (k - 1)) + Size
        BY <2>0, <2>2, <2>6, <3>1, <3>3
      <3>5. ring[(v + (k - 1)) % Size] = v + k
        BY <3>2, <3>4
      <3> QED BY <2>4, <3>2, <3>3, <3>5
    <2> QED BY <2>5, <2>6 DEF ViewsIntact
  <1> QED BY <1>1, RingInitial, RingNext, PTL DEF Spec

\* Every step of RingBuffer is a step of ByteFifo or leaves the contents alone.
LEMMA RingImplements ==
  ASSUME RingInv, [Next]_vars
  PROVE  [Fifo!Put \/ Fifo!Get]_<<Contents, put>>
  <1>1. PICK g \in Nat : RingAt(g)
    BY DEF RingInv
  <1>2. /\ RingType /\ put \in Nat /\ g <= put /\ put - g < Size
        /\ enq.n \in Nat /\ deq.n \in Nat
    BY <1>1 DEF RingInv, RingType, CallType, RingAt
  <1>3. Contents = Stretch(g, put)
    <2>1. /\ r = g % Size /\ w = put % Size
          /\ \A i \in g .. put - 1 : ring[i % Size] = i + 1
      BY <1>1 DEF RingAt
    <2> QED BY <1>2, <2>1, ContentsAre DEF Contents
  <1>4. Len(Contents) = put - g
    BY <1>2, <1>3, StretchType, Zenon
  <1>5. CASE DequeueCommit
    <2>1. PICK h \in Nat : h = g + deq.n
      BY <1>2
    <2>2. RingAt(h)' /\ put' = put
      BY <1>1, <1>2, <1>5, <2>1, RingTake DEF DequeueCommit
    <2>3. Contents' = Stretch(h, put)
      <3>1. PICK p \in Nat : p = put
        BY <1>2
      <3>2. /\ h <= p /\ p - h < Size /\ r' = h % Size /\ w' = p % Size
            /\ \A i \in h .. p - 1 : ring'[i % Size] = i + 1
        BY <2>2, <3>1 DEF RingAt
      <3>3. Contents' = Stretch(h, p)
        BY <3>2, ContentsAre DEF Contents
      <3> QED BY <3>1, <3>3
    <2>4. deq.n \in 1 .. put - g
      BY <1>1, <1>5 DEF RingAt, DequeueCommit
    <2>5. Contents' = SubSeq(Contents, deq.n + 1, Len(Contents)) /\ deq.n \in 1 .. Len(Contents)
      BY <1>2, <1>3, <1>4, <2>1, <2>3, <2>4, StretchGet, Zenon
    <2> QED BY <2>2, <2>5, Zenon DEF Fifo!Get
  <1>6. CASE EnqueueCommit
    <2>1. ~ DequeueCommit /\ put' = put + enq.n
      BY <1>6, <1>2 DEF DequeueCommit, EnqueueCommit, RingType, CallType, Idle, Call
    <2>2. RingAt(g)'
      BY <1>1, <1>2, <2>1, RingStay
    <2>3. Contents' = Stretch(g, put + enq.n)
      <3>1. PICK p \in Nat : p = put + enq.n
        BY <1>2
      <3>2. /\ g <= p /\ p - g < Size /\ r' = g % Size /\ w' = p % Size
            /\ \A i \in g .. p - 1 : ring'[i % Size] = i + 1
        BY <2>1, <2>2, <3>1 DEF RingAt
      <3>3. Contents' = Stretch(g, p)
        BY <3>2, ContentsAre DEF Contents
      <3> QED BY <3>1, <3>3
    <2>4. Contents' = Contents \o [k \in 1 .. enq.n |-> put + k]
      BY <1>2, <1>3, <2>3, StretchPut, Zenon
    <2>5. enq.n \in 1 .. (Size - 1) - Len(Contents)
      <3>1. enq.n > 0 /\ put - g + enq.n < Size
        BY <1>1, <1>6 DEF RingAt, EnqueueCommit
      <3> QED BY <1>2, <1>4, <3>1, RingAssumption
    <2> QED BY <2>1, <2>4, <2>5, Zenon DEF Fifo!Put
  <1>7. CASE ~ DequeueCommit /\ ~ EnqueueCommit
    <2>1. put' = put
      BY <1>7 DEF Next, vars, EnqueueStart, EnqueueCopy, EnqueueWrap, DequeueStart, ReadViews
    <2>2. RingAt(g)'
      BY <1>1, <1>2, <1>7, RingStay
    <2>3. Contents' = Stretch(g, put)
      BY <1>2, <2>1, <2>2, ContentsAre DEF Contents, RingAt
    <2> QED BY <1>3, <2>1, <2>3
  <1> QED BY <1>5, <1>6, <1>7

\* rcv_buf implements a bounded FIFO of Size - 1 bytes: although the lock covers only the
\* snapshot and the update of an offset, each call takes effect at once at its update.
THEOREM ReceiveBufferIsFifo == Spec => ImplementsFifo
  <1>1. Init => Fifo!Init
    <2> SUFFICES ASSUME Init PROVE Contents = <<>> /\ put = 0
      BY DEF Fifo!Init
    <2>1. Ready(0, 0) = 0
      BY RingAssumption DEF Ready
    <2> QED BY <2>1 DEF Init, Contents
  <1>2. RingInv /\ [Next]_vars => [Fifo!Put \/ Fifo!Get]_<<Contents, put>>
    BY RingImplements
  <1> QED BY <1>1, <1>2, RingInitial, RingNext, PTL DEF Spec, ImplementsFifo, Fifo!Spec

-----------------------------------------------------------------------------
(* The send buffer of a paced application keeps unacknowledged data *)

SndCallType(pcs) == [pc : pcs, off : Offsets, n : Nat]

FrameType == [pos : Nat, off : Offsets, n : Nat]

SndType ==
    /\ sput \in Nat /\ sent \in Nat /\ acked \in Nat
    /\ senq \in SndCallType({"idle", "copy", "wrap", "commit"})
    /\ sdeq \in SndCallType({"idle", "commit"})
    /\ frames \in Seq(FrameType)

\* The three offsets are those of their positions, at most Pace bytes are
\* unacknowledged, and those are in their places.
SndPlaces ==
    /\ acked <= sent /\ sent <= sput /\ sput <= acked + Pace
    /\ vw = sput % Size /\ vr = sent % Size /\ sr = acked % Size
    /\ \A i \in acked .. sput - 1 : sring[i % Size] = i + 1

\* An enqueue stays within the pace, and has written what its step says.
SndEnq ==
    /\ senq.pc # "idle" => senq.off = vw /\ senq.n > 0 /\ sput + senq.n <= acked + Pace
    /\ senq.pc = "wrap" =>
           /\ Size - senq.off <= senq.n
           /\ \A k \in 0 .. Size - senq.off - 1 : sring[(sput + k) % Size] = sput + 1 + k
    /\ senq.pc = "commit" =>
           \A k \in 0 .. senq.n - 1 : sring[(sput + k) % Size] = sput + 1 + k

\* A dequeue takes unsent bytes only, and a queued view lies below the end of the stream.
SndViews ==
    /\ sdeq.pc = "commit" => sdeq.off = vr /\ sent + sdeq.n <= sput
    /\ \A i \in 1 .. Len(frames) :
           frames[i].off = frames[i].pos % Size /\ frames[i].pos + frames[i].n <= sput

\* The invariant of the send buffer, inductive for the sender's steps of SendStream
SndInv == SndType /\ SndPlaces /\ SndEnq /\ SndViews /\ WireIntact

\* send() writes free space only: the copies of enqueue leave unacknowledged bytes alone.
LEMMA SndCopyStep ==
  ASSUME Pace < Size, SndInv, SndEnqueueCopy \/ SndEnqueueWrap
  PROVE  SndInv'
  <1>0. /\ Size \in Nat \ {0} /\ Pace \in Nat /\ Pace < Size
        /\ sput \in Nat /\ acked \in Nat /\ senq.n \in Nat /\ senq.off \in Offsets
    BY RingAssumption, PaceAssumption DEF SndInv, SndType, SndCallType
  <1>1. /\ senq.pc \in {"copy", "wrap"} /\ senq.off = sput % Size /\ senq.n > 0
        /\ sput + senq.n <= acked + Pace
        /\ UNCHANGED <<vw, vr, sr, sput, sent, acked, sdeq, frames>> /\ wire' = {}
    BY DEF SndEnqueueCopy, SndEnqueueWrap, SndInv, SndEnq, SndPlaces
  <1> DEFINE fits == senq.off + senq.n <= Size - 1
             lo == IF senq.pc = "copy" THEN 0 ELSE Size - senq.off
             hi == IF senq.pc = "wrap" \/ fits THEN senq.n ELSE Size - senq.off
  <1>2. /\ sring' = SndCopied(lo, hi)
        /\ senq' = [senq EXCEPT !.pc = IF senq.pc = "wrap" \/ fits THEN "commit" ELSE "wrap"]
    BY DEF SndEnqueueCopy, SndEnqueueWrap
  <1>3. /\ lo \in Nat /\ hi \in Nat /\ hi <= senq.n /\ hi <= Size /\ lo <= hi
        /\ \A k \in 0 .. lo - 1 : sring[(sput + k) % Size] = sput + 1 + k
    <2>1. CASE senq.pc = "copy"
      <3>1. lo = 0 /\ hi = IF fits THEN senq.n ELSE Size - senq.off
        BY <2>1
      <3>2. hi \in Nat /\ hi <= senq.n /\ hi <= Size
        BY <1>0, <1>1, <3>1 DEF Offsets
      <3> QED BY <3>1, <3>2
    <2>2. CASE senq.pc = "wrap"
      <3>1. lo = Size - senq.off /\ hi = senq.n
        BY <2>2
      <3>2. Size - senq.off <= senq.n
        BY <2>2 DEF SndInv, SndEnq
      <3>3. \A k \in 0 .. Size - senq.off - 1 : sring[(sput + k) % Size] = sput + 1 + k
        BY <2>2 DEF SndInv, SndEnq
      <3>4. lo \in Nat /\ hi \in Nat /\ hi <= senq.n /\ hi <= Size /\ lo <= hi
        <4>1. acked <= sput
          BY DEF SndInv, SndPlaces, SndType
        <4> QED BY <1>0, <1>1, <3>1, <3>2, <4>1 DEF Offsets
      <3> QED BY <3>1, <3>3, <3>4
    <2> QED BY <1>1, <2>1, <2>2
  <1>4. /\ senq'.off = senq.off /\ senq'.n = senq.n /\ SndType'
        /\ senq'.pc = IF senq.pc = "wrap" \/ fits THEN "commit" ELSE "wrap"
    BY <1>1, <1>2 DEF SndInv, SndType, SndCallType
  <1>5. /\ senq'.pc = "commit" => hi = senq.n
        /\ senq'.pc = "wrap" => hi = Size - senq.off
    BY <1>4
  <1>6. sring' = Written(sring, sput, lo, hi)
    BY <1>1, <1>2 DEF SndCopied, Offsets, Offsets, Written
  <1> HIDE DEF lo, hi, fits
  <1>7. Extends(sring', sring, sput, lo, hi)
    BY <1>0, <1>3, <1>6, WrittenAt
  <1>8. ASSUME NEW i \in acked .. sput - 1 PROVE sring'[i % Size] = i + 1
    <2>1. i \in Nat /\ i < sput + lo /\ sput + hi <= i + Size
      BY <1>0, <1>1, <1>3
    <2> QED BY <1>7, <2>1 DEF Extends, SndInv, SndPlaces
  <1>9. ASSUME NEW k \in 0 .. hi - 1 PROVE sring'[(sput + k) % Size] = sput + 1 + k
    <2>1. CASE k < lo
      <3>1. sput + k \in Nat /\ sput + k < sput + lo /\ sput + hi <= (sput + k) + Size /\ k \in 0 .. lo - 1
        BY <1>0, <1>1, <1>3, <2>1
      <3> QED BY <1>3, <1>7, <3>1 DEF Extends
    <2>2. CASE k >= lo
      <3>1. k \in lo .. hi - 1
        BY <1>3, <2>2
      <3> QED BY <1>7, <3>1 DEF Extends
    <2>3. k < lo \/ k >= lo
      BY <1>3
    <2> QED BY <2>1, <2>2, <2>3
  <1>10. SndPlaces'
    BY <1>1, <1>8 DEF SndInv, SndPlaces
  <1>11. SndEnq'
    BY <1>0, <1>1, <1>3, <1>4, <1>5, <1>9, Zenon DEF SndInv, SndEnq
  <1>12. SndViews' /\ WireIntact'
    BY <1>1 DEF SndInv, SndViews, WireIntact
  <1> QED BY <1>4, <1>10, <1>11, <1>12 DEF SndInv

\* Every other step moves an offset with its position, or reads.
LEMMA SndStep ==
  ASSUME Pace < Size, SndInv, [Local]_sndVars
  PROVE  SndInv'
  <1>0. /\ Size \in Nat \ {0} /\ Pace \in Nat /\ Pace < Size
        /\ sput \in Nat /\ acked \in Nat /\ sent \in Nat /\ senq.n \in Nat /\ sdeq.n \in Nat
        /\ acked <= sent /\ sent <= sput /\ sput <= acked + Pace
        /\ vw = sput % Size /\ vr = sent % Size /\ sr = acked % Size
        /\ vw \in Offsets /\ vr \in Offsets
    <2>1. /\ Size \in Nat \ {0} /\ Pace \in Nat /\ Pace < Size
          /\ sput \in Nat /\ acked \in Nat /\ sent \in Nat /\ senq.n \in Nat /\ sdeq.n \in Nat
          /\ acked <= sent /\ sent <= sput /\ sput <= acked + Pace
          /\ vw = sput % Size /\ vr = sent % Size /\ sr = acked % Size
      BY RingAssumption, PaceAssumption DEF SndInv, SndType, SndCallType, SndPlaces
    <2>2. sput % Size \in Offsets /\ sent % Size \in Offsets
      <3>1. sput \in Int /\ sent \in Int /\ Size \in Nat \ {0}
        BY <2>1
      <3> QED BY <3>1, ModQuotient, Zenon DEF Offsets
    <2> QED BY <2>1, <2>2
  <1>1. Ready(vr, vw) = sput - sent
    <2>1. Ready(sent % Size, sput % Size) = sput - sent
      <3>1. sput - sent < Size
        BY <1>0
      <3> QED BY <1>0, <3>1, ReadyFree, Zenon
    <2> QED BY <1>0, <2>1 DEF Ready
  <1>2. ASSUME NEW len \in 1 .. Size, PacedSend(len) PROVE SndInv'
    <2> DEFINE n == Least(len, FreeSpace(vr, vw))
    <2>1. /\ senq' = SndCall("copy", vw, n) /\ sput + len <= acked + Pace /\ FreeSpace(vr, vw) # 0
          /\ UNCHANGED <<sring, vw, vr, sr, sput, sent, acked, sdeq, frames>> /\ wire' = {}
      BY <1>2 DEF PacedSend, SndEnqueueStart
    <2>2. FreeSpace(vr, vw) \in Nat
      <3>1. vr + Size - vw - 1 \in Int
        BY <1>0 DEF Offsets
      <3> QED BY <1>0, <3>1, ModQuotient DEF FreeSpace
    <2>3. n \in Nat /\ n > 0 /\ n <= len
      BY <2>1, <2>2 DEF Least
    <2> HIDE DEF n
    <2>4. senq'.pc = "copy" /\ senq'.off = vw /\ senq'.n = n
      BY <2>1 DEF SndCall
    <2>5. SndType'
      BY <1>0, <2>1, <2>3 DEF SndInv, SndType, SndCallType, SndCall
    <2>6. SndEnq'
      BY <1>0, <2>1, <2>3, <2>4 DEF SndEnq
    <2>7. SndPlaces' /\ SndViews' /\ WireIntact'
      BY <2>1 DEF SndInv, SndPlaces, SndViews, WireIntact
    <2> QED BY <2>5, <2>6, <2>7 DEF SndInv
  <1>3. CASE SndEnqueueCopy \/ SndEnqueueWrap
    BY <1>3, SndCopyStep
  <1>4. CASE SndEnqueueCommit
    <2>1. /\ vw' = (vw + senq.n) % Size /\ sput' = sput + senq.n /\ senq' = SndIdle /\ wire' = {}
          /\ UNCHANGED <<sring, vr, sr, sent, acked, sdeq, frames>>
          /\ senq.n > 0 /\ sput + senq.n <= acked + Pace
          /\ \A k \in 0 .. senq.n - 1 : sring[(sput + k) % Size] = sput + 1 + k
      BY <1>4 DEF SndEnqueueCommit, SndInv, SndEnq
    <2>2. vw' = sput' % Size
      <3>1. sput \in Int /\ senq.n \in Int
        BY <1>0
      <3> QED BY <1>0, <2>1, <3>1, ModAdd, Zenon
    <2>3. SndType' /\ senq'.pc = "idle"
      <3>1. 0 \in Offsets /\ sput' \in Nat
        BY <1>0, <2>1 DEF Offsets
      <3>2. senq' \in SndCallType({"idle", "copy", "wrap", "commit"}) /\ senq'.pc = "idle"
        BY <2>1, <3>1 DEF SndCallType, SndIdle, SndCall
      <3> QED BY <2>1, <3>1, <3>2 DEF SndInv, SndType
    <2>4. ASSUME NEW i \in acked .. sput' - 1 PROVE sring'[i % Size] = i + 1
      <3>1. CASE i < sput
        <4>1. i \in acked .. sput - 1
          BY <1>0, <3>1
        <4> QED BY <2>1, <4>1 DEF SndInv, SndPlaces
      <3>2. CASE i >= sput
        <4>1. i - sput \in 0 .. senq.n - 1 /\ sput + (i - sput) = i /\ sput + 1 + (i - sput) = i + 1
          BY <1>0, <2>1, <3>2
        <4> QED BY <2>1, <4>1
      <3>3. i < sput \/ i >= sput
        BY <1>0
      <3> QED BY <3>1, <3>2, <3>3
    <2>5. SndPlaces'
      <3>0. /\ acked <= sent /\ sent <= sput /\ vr = sent % Size /\ sr = acked % Size
        BY Zenon DEF SndInv, SndPlaces
      <3>1. /\ acked' <= sent' /\ sent' <= sput' /\ sput' <= acked' + Pace
            /\ vr' = sent' % Size /\ sr' = acked' % Size
        <4>1. UNCHANGED <<acked, sent, vr, sr>> /\ sput' = sput + senq.n
          BY <2>1
        <4>2. sent <= sput + senq.n /\ sput + senq.n <= acked + Pace
          BY <1>0, <2>1, <3>0
        <4> QED BY <3>0, <4>1, <4>2
      <3>2. \A i \in acked' .. sput' - 1 : sring'[i % Size] = i + 1
        BY <2>1, <2>4
      <3> QED BY <2>2, <3>1, <3>2, Zenon DEF SndPlaces
    <2>6. SndEnq'
      BY <2>3 DEF SndEnq
    <2>7. SndViews' /\ WireIntact'
      <3>1. ASSUME NEW i \in 1 .. Len(frames)
            PROVE  frames[i].off = frames[i].pos % Size /\ frames[i].pos + frames[i].n <= sput'
        <4>1. frames[i] \in FrameType
          BY DEF SndInv, SndType
        <4>2. frames[i].off = frames[i].pos % Size /\ frames[i].pos + frames[i].n <= sput
          BY DEF SndInv, SndViews
        <4>3. frames[i].pos + frames[i].n \in Nat
          BY <4>1 DEF FrameType
        <4>4. sput \in Nat /\ sput' \in Nat /\ sput <= sput'
          <5>1. sput' = sput + senq.n /\ sput \in Nat /\ senq.n \in Nat
            BY <1>0, <2>1
          <5> QED BY <5>1
        <4>5. frames[i].pos + frames[i].n <= sput'
          BY <4>2, <4>3, <4>4
        <4> QED BY <4>2, <4>5
      <3>2. sdeq.pc = "commit" => sdeq.off = vr /\ sent + sdeq.n <= sput'
        <4>1. sdeq.pc = "commit" => sdeq.off = vr /\ sent + sdeq.n <= sput
          BY DEF SndInv, SndViews
        <4> QED BY <1>0, <2>1, <4>1
      <3> QED BY <2>1, <3>1, <3>2 DEF SndViews, WireIntact
    <2> QED BY <2>3, <2>5, <2>6, <2>7 DEF SndInv
  <1>5. ASSUME NEW len \in 1 .. Size, SndDequeueStart(len) PROVE SndInv'
    <2>1. /\ sdeq' = SndCall("commit", vr, Least(len, Ready(vr, vw))) /\ wire' = {}
          /\ UNCHANGED <<sring, vw, vr, sr, sput, sent, acked, senq, frames>>
      BY <1>5 DEF SndDequeueStart
    <2>2. Least(len, Ready(vr, vw)) \in 0 .. sput - sent
      BY <1>0, <1>1 DEF Least
    <2>3. sdeq'.pc = "commit" /\ sdeq'.off = vr /\ sdeq'.n \in 0 .. sput - sent
      BY <2>1, <2>2 DEF SndCall
    <2>4. SndType'
      <3>1. sdeq' \in SndCallType({"idle", "commit"})
        BY <1>0, <2>1, <2>2 DEF SndCallType, SndCall
      <3>2. SndType
        BY DEF SndInv
      <3> QED BY <2>1, <3>1, <3>2 DEF SndType
    <2>5. SndViews'
      <3>1. UNCHANGED <<vr, sent, sput, frames>>
        BY <2>1
      <3> QED BY <1>0, <2>3, <3>1 DEF SndInv, SndViews
    <2>6. SndPlaces' /\ SndEnq' /\ WireIntact'
      <3>1. SndPlaces /\ SndEnq /\ WireIntact
        BY DEF SndInv
      <3>2. SndPlaces' /\ SndEnq'
        BY <2>1, <3>1 DEF SndPlaces, SndEnq
      <3>3. WireIntact'
        BY <2>1, <3>1 DEF WireIntact
      <3> QED BY <3>2, <3>3
    <2> QED BY <2>4, <2>5, <2>6 DEF SndInv
  <1>6. CASE SndDequeueCommit
    <2> DEFINE f == [pos |-> sent, off |-> sdeq.off, n |-> sdeq.n]
    <2>1. /\ vr' = (vr + sdeq.n) % Size /\ sent' = sent + sdeq.n /\ sdeq' = SndIdle /\ wire' = {}
          /\ frames' = Append(frames, f) /\ UNCHANGED <<sring, vw, sr, sput, acked, senq>>
          /\ sdeq.off = vr /\ sent + sdeq.n <= sput
      BY <1>6 DEF SndDequeueCommit, SndInv, SndViews
    <2>2. vr' = sent' % Size
      <3>1. sent \in Int /\ sdeq.n \in Int
        BY <1>0
      <3> QED BY <1>0, <2>1, <3>1, ModAdd, Zenon
    <2>3. f \in FrameType /\ f.pos = sent /\ f.off = sent % Size /\ f.n = sdeq.n
      BY <1>0, <2>1 DEF FrameType
    <2> HIDE DEF f
    <2>4. SndType' /\ sdeq'.pc = "idle"
      <3>1. 0 \in Offsets /\ sent' \in Nat
        <4>1. sent' = sent + sdeq.n /\ sent \in Nat /\ sdeq.n \in Nat
          BY <1>0, <2>1
        <4> QED BY <1>0, <4>1 DEF Offsets
      <3>2. sdeq' \in SndCallType({"idle", "commit"}) /\ sdeq'.pc = "idle"
        BY <2>1, <3>1 DEF SndCallType, SndIdle, SndCall
      <3>3. frames' \in Seq(FrameType)
        BY <2>1, <2>3 DEF SndInv, SndType
      <3> QED BY <2>1, <3>1, <3>2, <3>3 DEF SndInv, SndType
    <2>5. SndPlaces' /\ SndEnq' /\ WireIntact'
      <3>1. SndPlaces'
        <4>1. acked <= sent' /\ sent' <= sput
          <5>1. sent' = sent + sdeq.n /\ sent + sdeq.n <= sput
            BY <2>1
          <5> QED BY <1>0, <5>1
        <4>2. \A i \in acked .. sput - 1 : sring[i % Size] = i + 1
          BY DEF SndInv, SndPlaces
        <4> QED BY <1>0, <2>1, <2>2, <4>1, <4>2 DEF SndPlaces
      <3> QED BY <2>1, <3>1 DEF SndInv, SndEnq, WireIntact
    <2>6. SndViews'
      <3>1. ASSUME NEW i \in 1 .. Len(frames')
            PROVE  frames'[i].off = frames'[i].pos % Size /\ frames'[i].pos + frames'[i].n <= sput'
        <4>1. frames \in Seq(FrameType)
          BY DEF SndInv, SndType
        <4>2. (i \in 1 .. Len(frames) /\ frames'[i] = frames[i]) \/ frames'[i] = f
          BY <2>1, <2>3, <4>1
        <4> QED BY <2>1, <2>3, <4>2 DEF SndInv, SndViews
      <3> QED BY <2>4, <3>1 DEF SndViews
    <2> QED BY <2>4, <2>5, <2>6 DEF SndInv
  <1>7. ASSUME NEW n \in 1 .. Size, Acknowledge(n) PROVE SndInv'
    <2>1. /\ sr' = (sr + n) % Size /\ acked' = acked + n /\ acked + n <= sent /\ wire' = {}
          /\ UNCHANGED <<sring, vw, vr, sput, sent, senq, sdeq, frames>>
      BY <1>7 DEF Acknowledge, Free
    <2>2. sr' = acked' % Size
      <3>1. acked \in Int /\ n \in Int
        BY <1>0
      <3> QED BY <1>0, <2>1, <3>1, ModAdd, Zenon
    <2>3. SndType' /\ SndViews' /\ WireIntact'
      <3>1. SndType'
        BY <1>0, <2>1 DEF SndInv, SndType
      <3>2. SndViews'
        BY <2>1 DEF SndInv, SndViews
      <3>3. WireIntact'
        BY <2>1 DEF WireIntact
      <3> QED BY <3>1, <3>2, <3>3
    <2>4. SndPlaces'
      <3>1. \A i \in acked + n .. sput - 1 : i \in acked .. sput - 1
        BY <1>0
      <3>2. \A i \in acked' .. sput' - 1 : sring'[i % Size] = i + 1
        BY <2>1, <3>1 DEF SndInv, SndPlaces
      <3>3. acked' <= sent' /\ sent' <= sput' /\ sput' <= acked' + Pace
        BY <1>0, <2>1
      <3> QED BY <1>0, <2>1, <2>2, <3>2, <3>3 DEF SndPlaces
    <2>5. SndEnq'
      <3>1. senq.pc # "idle" => senq.off = vw /\ senq.n > 0 /\ sput + senq.n <= acked + Pace
        BY DEF SndInv, SndEnq
      <3>2. senq.pc # "idle" => sput + senq.n <= acked' + Pace
        BY <1>0, <2>1, <3>1
      <3> QED BY <2>1, <3>1, <3>2 DEF SndInv, SndEnq
    <2> QED BY <2>3, <2>4, <2>5 DEF SndInv
  <1>8. CASE RollBackToR
    <2>1. /\ vr' = sr /\ sent' = acked /\ wire' = {} /\ sdeq.pc = "idle"
          /\ UNCHANGED <<sring, vw, sr, sput, acked, senq, sdeq, frames>>
      BY <1>8 DEF RollBackToR
    <2>2. SndPlaces'
      BY <1>0, <2>1 DEF SndInv, SndPlaces
    <2> QED BY <1>0, <2>1, <2>2 DEF SndInv, SndType, SndEnq, SndViews, WireIntact
  <1>9. CASE Transmit
    <2> DEFINE f == Head(frames)
    <2>1. /\ frames # <<>> /\ frames' = Tail(frames)
          /\ wire' = {<<f.pos + k, sring[(f.off + k - 1) % Size]>> : k \in 1 .. f.n}
          /\ UNCHANGED <<sring, vw, vr, sr, sput, sent, acked, senq, sdeq>>
      BY <1>9, Zenon DEF Transmit
    <2>2. frames \in Seq(FrameType)
      BY DEF SndInv, SndType
    <2>3. /\ f \in FrameType /\ 1 \in 1 .. Len(frames) /\ f = frames[1]
          /\ frames' \in Seq(FrameType) /\ Len(frames') = Len(frames) - 1
          /\ \A i \in 1 .. Len(frames') : frames'[i] = frames[i + 1] /\ i + 1 \in 1 .. Len(frames)
      BY <2>1, <2>2
    <2>4. f.off = f.pos % Size /\ f.pos + f.n <= sput /\ f.pos \in Nat /\ f.n \in Nat
      BY <2>3 DEF SndInv, SndViews, FrameType
    <2> HIDE DEF f
    <2>5. WireIntact'
      <3> SUFFICES ASSUME NEW p \in wire', p[1] > acked PROVE p[2] = p[1]
        BY <2>1 DEF WireIntact
      <3>1. PICK k \in 1 .. f.n : p = <<f.pos + k, sring[(f.off + k - 1) % Size]>>
        BY <2>1
      <3>2. f.off \in Int /\ f.off + k - 1 = (f.pos % Size) + (k - 1) /\ k - 1 \in Int /\ f.pos \in Int
        <4>1. f.off \in Int
          BY <2>3 DEF FrameType, Offsets
        <4> QED BY <2>4, <4>1
      <3>3. ((f.pos % Size) + (k - 1)) % Size = (f.pos + (k - 1)) % Size
        BY <1>0, <3>2, ModAdd, Zenon
      <3>4. f.pos + (k - 1) \in acked .. sput - 1 /\ (f.pos + (k - 1)) + 1 = f.pos + k
        BY <1>0, <2>4, <3>1
      <3>5. sring[(f.pos + (k - 1)) % Size] = f.pos + k
        BY <3>4 DEF SndInv, SndPlaces
      <3> QED BY <3>1, <3>2, <3>3, <3>5
    <2>6. SndViews'
      <3>1. ASSUME NEW i \in 1 .. Len(frames')
            PROVE  frames'[i].off = frames'[i].pos % Size /\ frames'[i].pos + frames'[i].n <= sput'
        BY <2>1, <2>3 DEF SndInv, SndViews
      <3> QED BY <2>1, <3>1 DEF SndInv, SndViews
    <2>7. SndType' /\ SndPlaces' /\ SndEnq'
      BY <2>1, <2>3 DEF SndInv, SndType, SndPlaces, SndEnq
    <2> QED BY <2>5, <2>6, <2>7 DEF SndInv
  <1>10. CASE UNCHANGED sndVars
    BY <1>10 DEF sndVars, SndInv, SndType, SndPlaces, SndEnq, SndViews, WireIntact
  <1> QED BY <1>2, <1>3, <1>4, <1>5, <1>6, <1>7, <1>8, <1>9, <1>10 DEF Local

\* The invariant holds of an empty send buffer.
LEMMA SndInitial == Pace < Size /\ SndInit => SndInv
  <1> SUFFICES ASSUME Pace < Size, SndInit PROVE SndInv
    OBVIOUS
  <1>1. Size \in Nat \ {0} /\ Pace \in Nat
    BY RingAssumption, PaceAssumption
  <1>2. 0 % Size = 0 /\ 0 \in Offsets
    BY <1>1 DEF Offsets
  <1>3. SndType
    BY <1>2 DEF SndInit, SndType, SndCallType, SndIdle, SndCall
  <1>4. SndPlaces
    BY <1>1, <1>2 DEF SndInit, SndPlaces
  <1>5. SndEnq /\ SndViews /\ WireIntact
    BY DEF SndInit, SndEnq, SndViews, WireIntact, SndIdle, SndCall
  <1> QED BY <1>3, <1>4, <1>5 DEF SndInv

-----------------------------------------------------------------------------
(* The send buffer, the network and the peer are a reliable stream *)

\* The peer took only bytes that were written, and no acknowledgement is ahead of it.
\* What the network holds beyond the peer's position is what was written there, whatever
\* later happened to the buffer; below it, anything.
PeerInv ==
    /\ got \in Seq(Nat)
    /\ acked <= Len(got) /\ Len(got) <= sput
    /\ \A p \in net :
           /\ p[1] \in Nat /\ p[1] <= sput
           /\ p[1] > Len(got) => p[2] = p[1]

\* A step of the composition is a step of the sender or leaves the send buffer alone.
LEMMA StreamSteps == [StreamNext]_streamVars => [Local]_sndVars
  BY DEF StreamNext, PeerTakes, streamVars

\* What a step of the sender writes out lies below the end of the stream.
LEMMA WireBelowEnd ==
  ASSUME SndInv, Local, NEW p \in wire'
  PROVE  p[1] \in Nat /\ p[1] <= sput
  <1>1. CASE Transmit
    <2> DEFINE f == Head(frames)
    <2>1. /\ frames # <<>>
          /\ wire' = {<<f.pos + k, sring[(f.off + k - 1) % Size]>> : k \in 1 .. f.n}
      BY <1>1, Zenon DEF Transmit
    <2>2. frames \in Seq(FrameType)
      BY DEF SndInv, SndType
    <2>3. f \in FrameType /\ 1 \in 1 .. Len(frames) /\ f = frames[1]
      BY <2>1, <2>2
    <2>4. f.pos + f.n <= sput /\ f.pos \in Nat /\ f.n \in Nat /\ sput \in Nat
      BY <2>3 DEF SndInv, SndType, SndViews, FrameType
    <2> HIDE DEF f
    <2>5. PICK k \in 1 .. f.n : p = <<f.pos + k, sring[(f.off + k - 1) % Size]>>
      BY <2>1
    <2> QED BY <2>4, <2>5
  <1>2. CASE ~ Transmit
    <2>1. wire' = {}
      BY <1>2, Zenon DEF Local, PacedSend, SndEnqueueStart, SndEnqueueCopy, SndEnqueueWrap,
            SndEnqueueCommit, SndDequeueStart, SndDequeueCommit, Acknowledge, Free, RollBackToR
    <2> QED BY <2>1
  <1> QED BY <1>1, <1>2

\* The written end of the stream moves in the last step of an enqueue only, forward.
LEMMA WrittenGrows ==
  ASSUME SndInv, Local
  PROVE  \/ sput' = sput
         \/ sput' \in Nat /\ sput' > sput
  <1>1. CASE SndEnqueueCommit
    <2>1. sput' = sput + senq.n /\ senq.pc # "idle"
      BY <1>1 DEF SndEnqueueCommit
    <2>2. sput \in Nat /\ senq.n \in Nat /\ senq.n > 0
      BY <2>1 DEF SndInv, SndType, SndCallType, SndEnq
    <2> QED BY <2>1, <2>2
  <1>2. CASE ~ SndEnqueueCommit
    BY <1>2, Zenon DEF Local, PacedSend, SndEnqueueStart, SndEnqueueCopy, SndEnqueueWrap,
            SndDequeueStart, SndDequeueCommit, Acknowledge, Free, RollBackToR, Transmit
  <1> QED BY <1>1, <1>2

\* Bytes are freed when the peer has them, never before.
LEMMA AckedBehindPeer ==
  ASSUME PeerInv, Local
  PROVE  acked' <= Len(got)
  <1>1. CASE \E n \in 1 .. Size : Acknowledge(n)
    BY <1>1 DEF Acknowledge, Free
  <1>2. CASE ~ \E n \in 1 .. Size : Acknowledge(n)
    <2>1. acked' = acked
      BY <1>2, Zenon DEF Local, PacedSend, SndEnqueueStart, SndEnqueueCopy, SndEnqueueWrap,
                  SndEnqueueCommit, SndDequeueStart, SndDequeueCommit, RollBackToR, Transmit
    <2> QED BY <2>1 DEF PeerInv
  <1> QED BY <1>1, <1>2

\* Every step of the composition keeps the invariant.
LEMMA PeerStep ==
  ASSUME Pace < Size, SndInv, PeerInv, [StreamNext]_streamVars
  PROVE  PeerInv'
  <1>0. SndInv'
    BY StreamSteps, SndStep
  <1>1. sput \in Nat /\ sput' \in Nat /\ acked \in Nat /\ acked' \in Nat
    BY <1>0 DEF SndInv, SndType
  <1>2. CASE Local /\ net' = net \cup wire' /\ UNCHANGED got
    <2>1. Local
      BY <1>2
    <2>2. sput <= sput'
      BY <1>1, <2>1, WrittenGrows
    <2>3. acked' <= Len(got) /\ got' = got /\ Len(got) \in Nat
      BY <1>2, AckedBehindPeer DEF PeerInv
    <2>4. ASSUME NEW p \in net'
          PROVE  p[1] \in Nat /\ p[1] <= sput' /\ (p[1] > Len(got) => p[2] = p[1])
      <3>1. CASE p \in net
        BY <1>1, <2>2, <3>1 DEF PeerInv
      <3>2. CASE p \in wire'
        <4>1. p[1] \in Nat /\ p[1] <= sput
          BY <2>1, <3>2, WireBelowEnd
        <4>2. p[1] > acked' => p[2] = p[1]
          BY <1>0, <3>2 DEF SndInv, WireIntact
        <4> QED BY <1>1, <2>2, <2>3, <4>1, <4>2
      <3> QED BY <1>2, <2>4, <3>1, <3>2
    <2> QED BY <1>1, <2>2, <2>3, <2>4 DEF PeerInv
  <1>3. ASSUME NEW p \in net, PeerTakes(p)
        PROVE  PeerInv'
    <2>1. /\ p[1] = Len(got) + 1 /\ got' = Append(got, p[2]) /\ net' = net
          /\ acked' = acked /\ sput' = sput
      BY <1>3 DEF PeerTakes, sndVars
    <2>2. p[1] \in Nat /\ p[1] <= sput /\ p[2] = p[1] /\ got \in Seq(Nat) /\ Len(got) \in Nat
      BY <1>3, <2>1 DEF PeerInv
    <2>3. got' \in Seq(Nat) /\ Len(got') = Len(got) + 1
      BY <2>1, <2>2
    <2> QED BY <1>1, <2>1, <2>2, <2>3 DEF PeerInv
  <1>4. CASE UNCHANGED streamVars
    BY <1>4 DEF streamVars, sndVars, PeerInv
  <1> QED BY <1>2, <1>3, <1>4 DEF StreamNext

\* Every step of the composition is a step of ByteStream or hidden from the application
\* and the peer.
LEMMA StreamImplements ==
  ASSUME SndInv, PeerInv, [StreamNext]_streamVars
  PROVE  [Stream!Write \/ Stream!Read]_<<sput, got>>
  <1>1. CASE Local /\ net' = net \cup wire' /\ UNCHANGED got
    BY <1>1, WrittenGrows DEF Stream!Write
  <1>2. ASSUME NEW p \in net, PeerTakes(p)
        PROVE  Stream!Read
    <2>1. p[1] = Len(got) + 1 /\ got' = Append(got, p[2]) /\ sput' = sput
      BY <1>2 DEF PeerTakes, sndVars
    <2>2. p[1] <= sput /\ p[2] = p[1] /\ Len(got) \in Nat /\ sput \in Nat
      BY <1>2, <2>1 DEF PeerInv, SndInv, SndType
    <2> QED BY <2>1, <2>2 DEF Stream!Read
  <1>3. CASE UNCHANGED streamVars
    BY <1>3 DEF streamVars, sndVars
  <1> QED BY <1>1, <1>2, <1>3 DEF StreamNext

\* While the application keeps fewer bytes than the ring unacknowledged, no view queued in
\* the TX ring reaches the wire with another byte's value, however late the TX thread reads
\* it, unless its bytes were acknowledged.
THEOREM WireCarriesTheStream ==
  ASSUME Pace < Size
  PROVE  StreamSpec => []WireIntact
  <1>1. StreamInit => SndInv
    BY SndInitial DEF StreamInit
  <1>2. SndInv /\ [StreamNext]_streamVars => SndInv'
    BY StreamSteps, SndStep
  <1>3. SndInv => WireIntact
    BY DEF SndInv
  <1> QED BY <1>1, <1>2, <1>3, PTL DEF StreamSpec

\* Under the same condition snd_buf, the TX ring and free() give the peer a reliable stream
\* over any network that loses, repeats and reorders: each byte once, in order, with the
\* value it was written with.
THEOREM SendingIsReliable ==
  ASSUME Pace < Size
  PROVE  StreamSpec => ImplementsStream
  <1>1. StreamInit => SndInv /\ PeerInv /\ Stream!Init
    <2>1. StreamInit => SndInv
      BY SndInitial DEF StreamInit
    <2> QED BY <2>1 DEF StreamInit, SndInit, PeerInv, Stream!Init
  <1>2. SndInv /\ [StreamNext]_streamVars => SndInv'
    BY StreamSteps, SndStep
  <1>3. SndInv /\ PeerInv /\ [StreamNext]_streamVars => PeerInv'
    BY PeerStep
  <1>4. SndInv /\ PeerInv /\ [StreamNext]_streamVars => [Stream!Write \/ Stream!Read]_<<sput, got>>
    BY StreamImplements
  <1> QED BY <1>1, <1>2, <1>3, <1>4, PTL DEF StreamSpec, ImplementsStream, Stream!Spec
=============================================================================
