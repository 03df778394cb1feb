--------------------------- MODULE LogScanProofs ---------------------------
(***************************************************************************)
(* The poll loop for any chain, any limit on a range, any number of         *)
(* refusals and any first block: a split scan covers every block once, and  *)
(* every step of the loop is a step of BlockScan or none.                   *)
(***************************************************************************)
EXTENDS LogScan, SequenceTheorems, TLAPS

-----------------------------------------------------------------------------
(* Ranges. *)

(* Arithmetic that the solvers need spelled out. *)
LEMMA TimesMonotone ==
  ASSUME NEW m \in Nat, NEW a \in Int, NEW b \in Int, a <= b
  PROVE  a * m <= b * m
<1>1. (b - a) * m >= 0
  OBVIOUS
<1>2. (b - a) * m = b * m - a * m
  OBVIOUS
<1> QED
  BY <1>1, <1>2

(* Division with remainder. *)
LEMMA DivBounds ==
  ASSUME NEW d \in Nat, NEW m \in Nat \ {0}
  PROVE  /\ d \div m \in Nat
         /\ (d \div m) * m <= d
         /\ d < (d \div m + 1) * m
  OBVIOUS

(* The ranges of from .. to in order: they begin and end where it does, the *)
(* next begins behind the last block of the one before, and none is empty.  *)
Follow(c, from, to) ==
  /\ c \in Seq(Nat \X Nat)
  /\ c # <<>>
  /\ c[1][1] = from
  /\ c[Len(c)][2] = to
  /\ \A i \in 1..Len(c) : c[i][1] <= c[i][2] /\ c[i][2] <= to
  /\ \A i \in 1..(Len(c) - 1) : c[i + 1][1] = c[i][2] + 1

(* n ranges of max blocks, the last cut short. *)
Split(c, n, from, to, max) ==
  /\ n \in Nat \ {0}
  /\ c \in Seq(Nat \X Nat) /\ Len(c) = n
  /\ from + (n - 1) * max <= to /\ to < from + n * max
  /\ \A i \in 1..n : c[i][1] = from + (i - 1) * max
  /\ \A i \in 1..(n - 1) : c[i][2] = from + i * max - 1 /\ c[i][2] < to
  /\ c[n][2] = to

(* Where the ranges of a split scan begin and end. *)
LEMMA SplitRange ==
  ASSUME NEW from \in Nat, NEW to \in Nat, NEW max \in Nat \ {0}, to - from + 1 > max
  PROVE  Split(chunkRange(from, to, max), (to - from) \div max + 1, from, to, max)
<1> DEFINE n == (to - from) \div max + 1
           first(i) == from + (i - 1) * max
           last(i) == IF first(i) + max - 1 > to THEN to ELSE first(i) + max - 1
           c == [i \in 1..n |-> <<first(i), last(i)>>]
<1>1. chunkRange(from, to, max) = c
  BY DEF chunkRange
<1>2. /\ n \in Nat \ {0} /\ n - 1 \in Nat
      /\ (n - 1) * max <= to - from /\ to - from < n * max
  <2>1. to - from \in Nat
    OBVIOUS
  <2>2. (to - from) \div max \in Nat
    BY <2>1, DivBounds
  <2>3. n - 1 = (to - from) \div max
    BY <2>2
  <2> QED
    BY <2>1, <2>2, <2>3, DivBounds
<1> HIDE DEF n
<1>3. ASSUME NEW i \in 1..n
      PROVE  /\ first(i) \in Nat /\ first(i) <= to
             /\ first(i) + max = from + i * max
  <2>1. (i - 1) * max <= (n - 1) * max
    BY <1>2, TimesMonotone
  <2>2. (i - 1) * max \in Nat /\ i * max = (i - 1) * max + max
    BY <1>2
  <2> QED
    BY <1>2, <2>1, <2>2
<1> HIDE DEF first
<1>4. \A i \in 1..n : last(i) \in Nat
  BY <1>3
<1>5. c \in Seq(Nat \X Nat) /\ Len(c) = n /\ \A i \in 1..n : c[i] = <<first(i), last(i)>>
  <2>1. c \in [1..n -> Nat \X Nat]
    BY <1>3, <1>4
  <2> QED
    BY <1>2, <2>1
<1>6. ASSUME NEW i \in 1..(n - 1)
      PROVE  last(i) = from + i * max - 1 /\ last(i) < to
  <2>1. i * max <= (n - 1) * max
    BY <1>2, TimesMonotone
  <2>2. i * max \in Nat /\ (n - 1) * max \in Nat
    BY <1>2
  <2>3. i \in 1..n
    BY <1>2
  <2> QED
    BY <1>2, <1>3, <2>1, <2>2, <2>3
<1>7. last(n) = to
  <2>1. n \in 1..n /\ n * max \in Nat
    BY <1>2
  <2> QED
    BY <1>2, <1>3, <2>1
<1>8. \A i \in 1..n : first(i) = from + (i - 1) * max
  BY DEF first
<1>9. from + (n - 1) * max <= to /\ to < from + n * max
  <2>1. (n - 1) * max \in Nat /\ n * max \in Nat
    BY <1>2
  <2> QED
    BY <1>2, <2>1
<1> HIDE DEF c, last
<1>10. \A i \in 1..n : c[i][1] = first(i) /\ c[i][2] = last(i)
  BY <1>5
<1>11. n \in 1..n /\ \A i \in 1..(n - 1) : i \in 1..n
  BY <1>2
<1> QED
  BY <1>1, <1>2, <1>5, <1>6, <1>7, <1>8, <1>9, <1>10, <1>11 DEF n, Split

(* A scan that needs no split is one range. *)
LEMMA WholeRange ==
  ASSUME NEW from \in Nat, NEW to \in Nat, NEW max \in Nat, max = 0 \/ to - from + 1 <= max
  PROVE  chunkRange(from, to, max) = << <<from, to>> >>
  BY DEF chunkRange

(* The ranges follow on each other from the first block to the last. *)
LEMMA RangesFollow ==
  ASSUME NEW from \in Nat, NEW to \in Nat, NEW max \in Nat, from <= to
  PROVE  /\ Follow(chunkRange(from, to, max), from, to)
         /\ \A i \in 1..Len(chunkRange(from, to, max)) : from <= chunkRange(from, to, max)[i][1]
<1> DEFINE c == chunkRange(from, to, max)
<1>1. CASE max = 0 \/ to - from + 1 <= max
  <2>1. c = << <<from, to>> >>
    BY <1>1, WholeRange
  <2> HIDE DEF c
  <2>2. c \in Seq(Nat \X Nat) /\ Len(c) = 1 /\ c[1] = <<from, to>> /\ c # <<>>
    BY <2>1
  <2> QED
    BY <2>2 DEF Follow, c
<1>2. CASE max # 0 /\ to - from + 1 > max
  <2> DEFINE n == (to - from) \div max + 1
  <2>1. max \in Nat \ {0}
    BY <1>2
  <2>2. Split(c, n, from, to, max)
    BY <1>2, <2>1, SplitRange
  <2> HIDE DEF c, n
  <2>3. /\ n \in Nat \ {0}
        /\ c \in Seq(Nat \X Nat) /\ Len(c) = n
        /\ from + (n - 1) * max <= to
        /\ \A i \in 1..n : c[i][1] = from + (i - 1) * max
        /\ \A i \in 1..(n - 1) : c[i][2] = from + i * max - 1 /\ c[i][2] < to
        /\ c[n][2] = to
    BY <2>2 DEF Split
  <2>4. n \in Nat \ {0}
    BY <2>2 DEF Split
  <2>5. c # <<>>
    BY <2>3
  <2>6. c[1][1] = from
    <3>1. 1 \in 1..n /\ (1 - 1) * max = 0
      BY <2>3
    <3> QED
      BY <2>3, <3>1
  <2>7. ASSUME NEW i \in 1..n
        PROVE  from <= c[i][1] /\ c[i][1] <= c[i][2] /\ c[i][2] <= to
    <3>1. (i - 1) * max \in Nat /\ i * max = (i - 1) * max + max
      BY <2>4
    <3>2. c[i][1] = from + (i - 1) * max
      BY <2>3
    <3>3. CASE i = n
      BY <2>3, <3>1, <3>3, <3>2
    <3>4. CASE i # n
      <4>1. i \in 1..(n - 1)
        BY <2>4, <3>4
      <4>2. c[i][2] = from + i * max - 1 /\ c[i][2] < to
        BY <2>3, <4>1
      <4> QED
        BY <2>1, <3>1, <3>2, <4>2
    <3> QED
      BY <3>3, <3>4
  <2>8. ASSUME NEW i \in 1..(n - 1) PROVE c[i + 1][1] = c[i][2] + 1
    <3>1. i + 1 \in 1..n /\ (i + 1) - 1 = i
      BY <2>4
    <3>2. c[i + 1][1] = from + i * max
      BY <2>3, <3>1
    <3>3. i * max \in Nat
      BY <2>1, <2>4
    <3>4. c[i][2] = from + i * max - 1
      BY <2>3
    <3> QED
      BY <3>2, <3>3, <3>4
  <2> QED
    BY <2>3, <2>5, <2>6, <2>7, <2>8 DEF Follow, c
<1> QED
  BY <1>1, <1>2

(* Each block is in a range. *)
LEMMA RangesCover ==
  ASSUME NEW from \in Nat, NEW to \in Nat, NEW max \in Nat, NEW b \in from..to
  PROVE  \E i \in 1..Len(chunkRange(from, to, max)) :
           chunkRange(from, to, max)[i][1] <= b /\ b <= chunkRange(from, to, max)[i][2]
<1> DEFINE c == chunkRange(from, to, max)
<1>1. CASE max = 0 \/ to - from + 1 <= max
  <2>1. c = << <<from, to>> >>
    BY <1>1, WholeRange
  <2> HIDE DEF c
  <2>2. Len(c) = 1 /\ c[1] = <<from, to>>
    BY <2>1
  <2>3. 1 \in 1..Len(c) /\ c[1][1] <= b /\ b <= c[1][2]
    BY <2>2
  <2> QED
    BY <2>3 DEF c
<1>2. CASE max # 0 /\ to - from + 1 > max
  <2> DEFINE n == (to - from) \div max + 1
             q == (b - from) \div max
  <2>1. max \in Nat \ {0} /\ b - from \in Nat
    BY <1>2
  <2>2. /\ n \in Nat \ {0} /\ Len(c) = n
        /\ to < from + n * max
        /\ \A i \in 1..n : c[i][1] = from + (i - 1) * max
        /\ \A i \in 1..(n - 1) : c[i][2] = from + i * max - 1
        /\ c[n][2] = to
    BY <1>2, <2>1, SplitRange DEF Split
  <2>3. n \in Nat \ {0}
    BY <2>2
  <2>4. q \in Nat /\ q * max <= b - from /\ b - from < (q + 1) * max
    BY <2>1, DivBounds
  <2> HIDE DEF c, n, q
  <2>5. q + 1 <= n
    <3> SUFFICES ASSUME n <= q PROVE FALSE
      BY <2>4, <2>3
    <3>1. n * max <= q * max
      BY <2>1, <2>4, <2>3, TimesMonotone
    <3>2. n * max \in Nat /\ q * max \in Nat
      BY <2>1, <2>4, <2>3
    <3>3. q * max <= b - from /\ to < from + n * max
      BY <2>2, <2>4
    <3> QED
      BY <3>1, <3>2, <3>3
  <2>6. q + 1 \in 1..n /\ (q + 1) - 1 = q
    BY <2>2, <2>4, <2>5
  <2>7. c[q + 1][1] <= b
    <3>1. q * max \in Nat /\ c[q + 1][1] = from + q * max
      BY <2>1, <2>2, <2>4, <2>6
    <3> QED
      BY <2>4, <3>1
  <2>8. b <= c[q + 1][2]
    <3>1. (q + 1) * max \in Nat
      BY <2>1, <2>4
    <3>2. CASE q + 1 = n
      BY <2>2, <3>2
    <3>3. CASE q + 1 # n
      <4>1. q + 1 \in 1..(n - 1)
        BY <2>2, <2>6, <3>3
      <4>2. c[q + 1][2] = from + (q + 1) * max - 1
        BY <2>2, <4>1
      <4> QED
        BY <2>4, <3>1, <4>2
    <3> QED
      BY <3>2, <3>3
  <2> QED
    BY <2>2, <2>6, <2>7, <2>8 DEF c
<1> QED
  BY <1>1, <1>2

(* No two ranges share a block. *)
LEMMA RangesApart ==
  ASSUME NEW from \in Nat, NEW to \in Nat, NEW max \in Nat,
         NEW i \in 1..Len(chunkRange(from, to, max)),
         NEW j \in 1..Len(chunkRange(from, to, max)), i < j
  PROVE  chunkRange(from, to, max)[i][2] < chunkRange(from, to, max)[j][1]
<1> DEFINE c == chunkRange(from, to, max)
           n == (to - from) \div max + 1
<1>1. max # 0 /\ to - from + 1 > max
  <2> SUFFICES ASSUME max = 0 \/ to - from + 1 <= max PROVE FALSE
    OBVIOUS
  <2>1. Len(c) = 1
    BY WholeRange
  <2> QED
    BY <2>1
<1>2. max \in Nat \ {0}
  BY <1>1
<1>3. Split(c, n, from, to, max)
  BY <1>1, <1>2, SplitRange
<1> HIDE DEF c, n
<1>4. /\ n \in Nat \ {0} /\ Len(c) = n
      /\ \A k \in 1..n : c[k][1] = from + (k - 1) * max
      /\ \A k \in 1..(n - 1) : c[k][2] = from + k * max - 1
  BY <1>3 DEF Split
<1>5. i \in 1..(n - 1) /\ j \in 1..n /\ i <= j - 1
  BY <1>4 DEF c
<1>6. i * max <= (j - 1) * max
  BY <1>2, <1>5, TimesMonotone
<1>7. i * max \in Nat /\ (j - 1) * max \in Nat
  BY <1>2, <1>5
<1>8. c[i][2] = from + i * max - 1 /\ c[j][1] = from + (j - 1) * max
  BY <1>4, <1>5
<1> QED
  BY <1>6, <1>7, <1>8 DEF c

(* No range is longer than the limit. *)
LEMMA RangesFit ==
  ASSUME NEW from \in Nat, NEW to \in Nat, NEW max \in Nat \ {0}, from <= to,
         NEW i \in 1..Len(chunkRange(from, to, max))
  PROVE  chunkRange(from, to, max)[i][2] - chunkRange(from, to, max)[i][1] < max
<1> DEFINE c == chunkRange(from, to, max)
           n == (to - from) \div max + 1
<1>1. CASE to - from + 1 <= max
  <2>1. c = << <<from, to>> >>
    BY <1>1, WholeRange
  <2> HIDE DEF c
  <2>2. i = 1 /\ c[1] = <<from, to>>
    BY <2>1 DEF c
  <2> QED
    BY <1>1, <2>2 DEF c
<1>2. CASE to - from + 1 > max
  <2>1. Split(c, n, from, to, max)
    BY <1>2, SplitRange
  <2> HIDE DEF c, n
  <2>2. /\ n \in Nat \ {0} /\ Len(c) = n
        /\ to < from + n * max
        /\ \A k \in 1..n : c[k][1] = from + (k - 1) * max
        /\ \A k \in 1..(n - 1) : c[k][2] = from + k * max - 1
        /\ c[n][2] = to
    BY <2>1 DEF Split
  <2>3. i \in 1..n
    BY <2>2 DEF c
  <2>4. (i - 1) * max \in Nat /\ i * max = (i - 1) * max + max
    BY <2>2, <2>3
  <2>5. c[i][1] = from + (i - 1) * max
    BY <2>2, <2>3
  <2>6. CASE i = n
    BY <2>2, <2>4, <2>5, <2>6 DEF c
  <2>7. CASE i # n
    <3>1. i \in 1..(n - 1)
      BY <2>2, <2>3, <2>7
    <3>2. c[i][2] = from + i * max - 1
      BY <2>2, <3>1
    <3> DEFINE m == (i - 1) * max
               x == i * max
    <3>3. m \in Nat /\ x = m + max /\ c[i][1] = from + m /\ c[i][2] = from + x - 1
      BY <2>4, <2>5, <3>2
    <3> HIDE DEF m, x
    <3>4. c[i][2] - c[i][1] < max
      BY <3>3
    <3> QED
      BY <3>4 DEF c
  <2> QED
    BY <2>6, <2>7
<1> QED
  BY <1>1, <1>2

-----------------------------------------------------------------------------
(* The inductive invariant. *)

ChainOk ==
  /\ emitted \in [Kinds -> Seq(Nat)]
  /\ count \in Seq([Kinds -> Nat])
  /\ \A k \in Kinds : Before(k, Len(count) + 1) = Len(emitted[k])
  /\ \A k \in Kinds : \A b \in 1..Len(count) : \A c \in b..Len(count) : count[b][k] <= count[c][k]
  /\ start \in Nat

LoopShape ==
  /\ next \in Nat /\ start <= next
  /\ next = start \/ next <= Len(count) + 1
  /\ head \in Nat
  /\ at \in {"head", "logs", "handing", "waiting"}
  /\ settling \in Seq(Nat) /\ asking \in Seq(Nat)
  /\ announced \in Seq(Nat)

(* Between scans all events of the blocks before next are handed over. *)
Idle ==
  at # "handing" =>
    /\ announced = EventsBetween("requested", start, next - 1)
    /\ settled = ToSet(EventsBetween("fulfilled", start, next - 1))

(* What was read and the ranges still to read make up the scan. *)
Reading ==
  at = "logs" =>
    /\ next <= head /\ head <= Len(count)
    /\ chunks # <<>>
    /\ next <= chunks[1][1]
    /\ Follow(chunks, chunks[1][1], head)
    /\ logs = [k \in Kinds |-> EventsBetween(k, next, chunks[1][1] - 1)]

(* What was handed over and what is still to be make up the blocks looked   *)
(* at. *)
Handing ==
  at = "handing" =>
    /\ next <= head /\ head <= Len(count)
    /\ announced \o asking = EventsBetween("requested", start, head)
    /\ settled \cup ToSet(settling) = ToSet(EventsBetween("fulfilled", start, head))

ScanInv == ChainOk /\ LoopShape /\ Idle /\ Reading /\ Handing

(* Blocks and the places of their events. *)
LEMMA BeforeBounds ==
  ASSUME ChainOk, NEW k \in Kinds, NEW b \in Nat
  PROVE  Before(k, b) \in 0..Len(emitted[k])
<1>1. emitted[k] \in Seq(Nat) /\ Len(emitted[k]) \in Nat /\ Len(count) \in Nat
  BY DEF ChainOk
<1>2. CASE b - 1 \notin 1..Len(count)
  BY <1>1, <1>2 DEF Before, ChainOk
<1>3. CASE b - 1 \in 1..Len(count)
  <2>1. /\ DOMAIN count = 1..Len(count) /\ Len(count) \in 1..Len(count)
        /\ (Len(count) + 1) - 1 = Len(count)
    BY <1>1, <1>3 DEF ChainOk
  <2>2. Before(k, b) = count[b - 1][k] /\ Len(emitted[k]) = count[Len(count)][k]
    BY <1>3, <2>1 DEF Before, ChainOk
  <2>3. count[b - 1][k] \in Nat /\ count[b - 1][k] <= count[Len(count)][k]
    <3>1. count[b - 1] \in [Kinds -> Nat]
      BY <1>3 DEF ChainOk
    <3>2. Len(count) \in (b - 1)..Len(count)
      BY <1>1, <1>3
    <3> QED
      BY <1>3, <3>1, <3>2 DEF ChainOk
  <2> QED
    BY <1>1, <2>2, <2>3
<1> QED
  BY <1>2, <1>3

(* Later blocks come after more events. *)
LEMMA BeforeGrows ==
  ASSUME ChainOk, NEW k \in Kinds, NEW a \in Nat, NEW b \in Nat, a <= b, b <= Len(count) + 1
  PROVE  Before(k, a) <= Before(k, b)
<1>1. Len(count) \in Nat /\ DOMAIN count = 1..Len(count)
  BY DEF ChainOk
<1>2. CASE a - 1 \notin 1..Len(count)
  <2>1. Before(k, a) = 0
    BY <1>1, <1>2 DEF Before
  <2> QED
    BY <2>1, BeforeBounds
<1>3. CASE a - 1 \in 1..Len(count)
  <2>1. b - 1 \in (a - 1)..Len(count) /\ b - 1 \in 1..Len(count)
    BY <1>1, <1>3
  <2>2. Before(k, a) = count[a - 1][k] /\ Before(k, b) = count[b - 1][k]
    BY <1>1, <1>3, <2>1 DEF Before
  <2> QED
    BY <1>3, <2>1, <2>2 DEF ChainOk
<1> QED
  BY <1>2, <1>3

(* The events between two blocks are a list of ids. *)
LEMMA BetweenType ==
  ASSUME ChainOk, NEW k \in Kinds, NEW from \in Nat, NEW to \in Nat \cup {-1}
  PROVE  EventsBetween(k, from, to) \in Seq(Nat)
<1>1. to + 1 \in Nat
  OBVIOUS
<1>2. Before(k, from) \in 0..Len(emitted[k]) /\ Before(k, to + 1) \in 0..Len(emitted[k])
  BY <1>1, BeforeBounds
<1>3. emitted[k] \in Seq(Nat)
  BY DEF ChainOk
<1>4. \A i \in (Before(k, from) + 1)..Before(k, to + 1) : emitted[k][i] \in Nat
  <2> DEFINE e == emitted[k]
             low == Before(k, from)
             high == Before(k, to + 1)
  <2>1. e \in Seq(Nat) /\ Len(e) \in Nat /\ low \in 0..Len(e) /\ high \in 0..Len(e)
    BY <1>2, <1>3, LenProperties
  <2> HIDE DEF e, low, high
  <2>2. \A i \in (low + 1)..high : i \in 1..Len(e)
    BY <2>1
  <2>3. \A i \in (low + 1)..high : e[i] \in Nat
    BY <2>1, <2>2, ElementOfSeq
  <2> QED
    BY <2>3 DEF e, low, high
<1>5. Before(k, from) + 1 \in Int /\ Before(k, to + 1) \in Int
  BY <1>2
<1> QED
  BY <1>4, <1>5, SubSeqProperties DEF EventsBetween

(* No blocks, no events. *)
LEMMA BetweenNone ==
  ASSUME ChainOk, NEW k \in Kinds, NEW b \in Nat
  PROVE  EventsBetween(k, b, b - 1) = <<>>
<1>1. (b - 1) + 1 = b
  OBVIOUS
<1>2. Before(k, b) \in Int /\ Before(k, b) + 1 \in Int /\ Before(k, b) < Before(k, b) + 1
  BY BeforeBounds
<1> QED
  BY <1>1, <1>2, SubSeqEmpty DEF EventsBetween

(* The events of adjacent ranges are those of the two as one. *)
LEMMA BetweenJoin ==
  ASSUME ChainOk, NEW k \in Kinds, NEW from \in Nat, NEW mid \in Nat, NEW to \in Nat,
         from <= mid, mid <= to + 1, to <= Len(count)
  PROVE  EventsBetween(k, from, mid - 1) \o EventsBetween(k, mid, to) = EventsBetween(k, from, to)
<1> DEFINE e == emitted[k]
           x == Before(k, from)
           y == Before(k, mid)
           z == Before(k, to + 1)
<1>1. e \in Seq(Nat) /\ Len(e) \in Nat /\ Len(count) \in Nat
  BY DEF ChainOk
<1>2. (mid - 1) + 1 = mid /\ to + 1 \in Nat /\ mid <= Len(count) + 1 /\ to + 1 <= Len(count) + 1
  BY <1>1
<1>3. x \in 0..Len(e) /\ y \in 0..Len(e) /\ z \in 0..Len(e)
  BY <1>2, BeforeBounds
<1>4. x <= y /\ y <= z
  BY <1>2, BeforeGrows
<1> HIDE DEF e, x, y, z
<1>5. x + 1 \in 1..(Len(e) + 1) /\ y \in ((x + 1) - 1)..Len(e) /\ z \in y..Len(e)
  BY <1>1, <1>3, <1>4
<1>6. SubSeq(e, x + 1, y) \o SubSeq(e, y + 1, z) = SubSeq(e, x + 1, z)
  BY <1>1, <1>5, ConcatAdjacentSubSeq
<1> QED
  BY <1>2, <1>6 DEF EventsBetween, e, x, y, z

-----------------------------------------------------------------------------
(* The chain grows. *)

(* A block has at most one event of a kind. *)
LEMMA FewIds ==
  ASSUME NEW ids, ids = <<>> \/ \E id \in Nat : ids = <<id>>
  PROVE  ids \in Seq(Nat)
<1>1. CASE ids = <<>>
  BY <1>1, EmptySeq
<1>2. ASSUME NEW id \in Nat PROVE <<id>> \in Seq(Nat)
  OBVIOUS
<1> QED
  BY <1>1, <1>2

(* A block's events go behind those there are. *)
LEMMA MineAppends ==
  ASSUME ChainOk, Mine
  PROVE  /\ \A k \in Kinds : \E x \in Seq(Nat) : emitted'[k] = emitted[k] \o x
         /\ emitted' \in [Kinds -> Seq(Nat)]
         /\ count' \in Seq([Kinds -> Nat])
         /\ Len(count') = Len(count) + 1
         /\ \A b \in 1..Len(count) : count'[b] = count[b]
         /\ \A k \in Kinds : count'[Len(count) + 1][k] = Len(emitted'[k])
<1>1. emitted \in [Kinds -> Seq(Nat)] /\ count \in Seq([Kinds -> Nat])
  BY DEF ChainOk
<1>2. PICK ask \in Asks, fill \in Fills :
        emitted' = [k \in Kinds |-> emitted[k] \o (IF k = "requested" THEN ask ELSE fill)]
  BY DEF Mine
<1>3. ask \in Seq(Nat)
  <2>1. ask = <<>> \/ \E id \in Nat : ask = <<id>>
    BY DEF Asks
  <2> QED
    BY <2>1, FewIds
<1>4. fill \in Seq(Nat)
  <2>1. emitted["requested"] \in Seq(Nat)
    BY <1>1 DEF Kinds
  <2>2. ToSet(emitted["requested"]) \subseteq Nat
    BY <2>1 DEF ToSet
  <2>3. fill = <<>> \/ \E id \in Nat : fill = <<id>>
    BY <2>2 DEF Fills
  <2> QED
    BY <2>3, FewIds
<1>5. \A k \in Kinds : \E x \in Seq(Nat) : emitted'[k] = emitted[k] \o x
  BY <1>2, <1>3, <1>4
<1>6. emitted' \in [Kinds -> Seq(Nat)]
  BY <1>1, <1>2, <1>3, <1>4
<1> DEFINE r == [k \in Kinds |-> Len(emitted'[k])]
<1>7. r \in [Kinds -> Nat]
  BY <1>6
<1>8. count' = Append(count, r)
  BY DEF Mine
<1>9. \A k \in Kinds : r[k] = Len(emitted'[k])
  OBVIOUS
<1> HIDE DEF r
<1>10. /\ count' \in Seq([Kinds -> Nat]) /\ Len(count') = Len(count) + 1
       /\ \A b \in 1..Len(count) : count'[b] = count[b]
       /\ count'[Len(count) + 1] = r
  BY <1>1, <1>7, <1>8
<1> QED
  BY <1>5, <1>6, <1>9, <1>10

(* A new block does not move the events before it. *)
LEMMA MineBefore ==
  ASSUME ChainOk, Mine, NEW k \in Kinds, NEW b \in Nat, b <= Len(count) + 1
  PROVE  Before(k, b)' = Before(k, b)
<1>1. Len(count) \in Nat /\ DOMAIN count = 1..Len(count) /\ DOMAIN count' = 1..(Len(count) + 1)
  <2>1. count \in Seq([Kinds -> Nat])
    BY DEF ChainOk
  <2>2. count' \in Seq([Kinds -> Nat]) /\ Len(count') = Len(count) + 1
    BY MineAppends
  <2> QED
    BY <2>1, <2>2
<1>2. b - 1 \in DOMAIN count <=> b - 1 \in DOMAIN count'
  BY <1>1
<1>3. b - 1 \in DOMAIN count => count'[b - 1] = count[b - 1]
  BY <1>1, MineAppends
<1> QED
  BY <1>2, <1>3 DEF Before

(* The chain stays in order. *)
LEMMA MineChain ==
  ASSUME ChainOk, Mine
  PROVE  ChainOk'
<1>1. Len(count) \in Nat /\ DOMAIN count' = 1..(Len(count) + 1) /\ Len(count') = Len(count) + 1
  <2>1. count \in Seq([Kinds -> Nat])
    BY DEF ChainOk
  <2>2. count' \in Seq([Kinds -> Nat]) /\ Len(count') = Len(count) + 1
    BY MineAppends
  <2> QED
    BY <2>1, <2>2
<1>2. ASSUME NEW k \in Kinds PROVE Before(k, Len(count) + 1)' = Len(emitted'[k])
  <2>1. (Len(count') + 1) - 1 = Len(count) + 1 /\ Len(count) + 1 \in DOMAIN count'
    BY <1>1
  <2>2. Before(k, Len(count) + 1)' = count'[Len(count) + 1][k]
    BY <2>1 DEF Before
  <2> QED
    BY <2>2, MineAppends
<1>3. ASSUME NEW k \in Kinds, NEW b \in 1..Len(count'), NEW c \in b..Len(count')
      PROVE  count'[b][k] <= count'[c][k]
  <2>1. CASE c <= Len(count)
    <3>1. b \in 1..Len(count) /\ c \in b..Len(count) /\ c \in 1..Len(count)
      BY <1>1, <2>1
    <3> QED
      BY <3>1, MineAppends DEF ChainOk
  <2>2. CASE b = Len(count) + 1
    <3>1. c = b
      BY <1>1, <2>2
    <3>2. count'[b] \in [Kinds -> Nat]
      BY MineAppends
    <3> QED
      BY <3>1, <3>2
  <2>3. CASE c = Len(count) + 1 /\ b <= Len(count)
    <3>1. b \in 1..Len(count) /\ b + 1 \in Nat /\ (b + 1) - 1 = b /\ DOMAIN count = 1..Len(count)
      BY <1>1, <2>3 DEF ChainOk
    <3>2. count'[b][k] = Before(k, b + 1)
      BY <3>1, MineAppends DEF Before
    <3>3. Before(k, b + 1) <= Len(emitted[k])
      BY <3>1, BeforeBounds DEF ChainOk
    <3>4. Len(emitted[k]) <= Len(emitted'[k])
      <4>1. PICK x \in Seq(Nat) : emitted'[k] = emitted[k] \o x
        BY MineAppends
      <4>2. emitted[k] \in Seq(Nat)
        BY DEF ChainOk
      <4> QED
        BY <4>1, <4>2
    <3>5. count'[c][k] = Len(emitted'[k])
      BY <2>3, MineAppends
    <3>6. Before(k, b + 1) \in Int /\ Len(emitted[k]) \in Int /\ Len(emitted'[k]) \in Int
      <4>1. emitted[k] \in Seq(Nat) /\ emitted'[k] \in Seq(Nat)
        BY MineAppends DEF ChainOk
      <4> QED
        BY <3>1, <4>1, BeforeBounds
    <3> QED
      BY <3>2, <3>3, <3>4, <3>5, <3>6
  <2> QED
    BY <1>1, <2>1, <2>2, <2>3
<1>4. start' \in Nat
  BY DEF ChainOk, Mine
<1> QED
  BY <1>2, <1>3, <1>4, MineAppends DEF ChainOk

(* The events of blocks that are there stay as they are. *)
LEMMA MineBetween ==
  ASSUME ChainOk, Mine, NEW k \in Kinds, NEW from \in Nat, NEW to \in Nat \cup {-1},
         from <= to + 1, to <= Len(count)
  PROVE  EventsBetween(k, from, to)' = EventsBetween(k, from, to)
<1> DEFINE x == Before(k, from)
           z == Before(k, to + 1)
<1>1. Len(count) \in Nat /\ emitted[k] \in Seq(Nat) /\ to + 1 \in Nat
  BY DEF ChainOk
<1>2. Before(k, from)' = x /\ Before(k, to + 1)' = z
  BY <1>1, MineBefore
<1>3. x \in 0..Len(emitted[k]) /\ z \in 0..Len(emitted[k])
  BY <1>1, BeforeBounds
<1>4. PICK y \in Seq(Nat) : emitted'[k] = emitted[k] \o y
  BY MineAppends
<1> HIDE DEF x, z
<1>5. SubSeq(emitted[k] \o y, x + 1, z) = SubSeq(emitted[k], x + 1, z)
  <2>1. CASE z < x + 1
    <3>1. x + 1 \in Int /\ z \in Int
      BY <1>3
    <3>2. SubSeq(emitted[k] \o y, x + 1, z) = <<>>
      BY <2>1, <3>1, SubSeqEmpty
    <3>3. SubSeq(emitted[k], x + 1, z) = <<>>
      BY <2>1, <3>1, SubSeqEmpty
    <3> QED
      BY <3>2, <3>3
  <2>2. CASE x + 1 <= z
    <3>1. x + 1 \in 1..Len(emitted[k]) /\ z \in 1..Len(emitted[k])
      BY <1>1, <1>3, <2>2
    <3> QED
      BY <1>1, <1>4, <3>1, SubSeqOfConcat1
  <2>3. z < x + 1 \/ x + 1 <= z
    BY <1>1, <1>3
  <2> QED
    BY <2>1, <2>2, <2>3
<1> QED
  BY <1>2, <1>4, <1>5 DEF EventsBetween, x, z

-----------------------------------------------------------------------------
(* The steps of the loop. *)

(* What two lists hold together. *)
LEMMA ToSetConcat ==
  ASSUME NEW s \in Seq(Nat), NEW t \in Seq(Nat)
  PROVE  ToSet(s \o t) = ToSet(s) \cup ToSet(t)
<1>1. /\ s \o t \in Seq(Nat) /\ Len(s) \in Nat /\ Len(t) \in Nat
      /\ Len(s \o t) = Len(s) + Len(t)
      /\ \A i \in 1..(Len(s) + Len(t)) :
           (s \o t)[i] = IF i <= Len(s) THEN s[i] ELSE t[i - Len(s)]
  BY ConcatProperties
<1>2. ASSUME NEW i \in 1..(Len(s) + Len(t)) PROVE (s \o t)[i] \in ToSet(s) \cup ToSet(t)
  <2>1. CASE i <= Len(s)
    <3>1. i \in DOMAIN s /\ (s \o t)[i] = s[i]
      BY <1>1, <2>1
    <3> QED
      BY <3>1 DEF ToSet
  <2>2. CASE i > Len(s)
    <3>1. i - Len(s) \in DOMAIN t /\ (s \o t)[i] = t[i - Len(s)]
      BY <1>1, <2>2
    <3> QED
      BY <3>1 DEF ToSet
  <2> QED
    BY <1>1, <2>1, <2>2
<1>3. ASSUME NEW i \in DOMAIN s PROVE s[i] \in ToSet(s \o t)
  <2>1. i \in DOMAIN (s \o t) /\ (s \o t)[i] = s[i]
    BY <1>1
  <2> QED
    BY <2>1 DEF ToSet
<1>4. ASSUME NEW i \in DOMAIN t PROVE t[i] \in ToSet(s \o t)
  <2>1. i + Len(s) \in DOMAIN (s \o t) /\ (s \o t)[i + Len(s)] = t[i]
    BY <1>1
  <2> QED
    BY <2>1 DEF ToSet
<1>5. DOMAIN (s \o t) = 1..(Len(s) + Len(t))
  BY <1>1
<1>6. ToSet(s \o t) \subseteq ToSet(s) \cup ToSet(t)
  BY <1>2, <1>5 DEF ToSet
<1>7. ToSet(s) \subseteq ToSet(s \o t)
  BY <1>3 DEF ToSet
<1>8. ToSet(t) \subseteq ToSet(s \o t)
  BY <1>4 DEF ToSet
<1> QED
  BY <1>6, <1>7, <1>8

(* What a list holds beside its first. *)
LEMMA ToSetTail ==
  ASSUME NEW s \in Seq(Nat), s # <<>>
  PROVE  Tail(s) \in Seq(Nat) /\ ToSet(s) = {s[1]} \cup ToSet(Tail(s))
<1>1. /\ Len(s) \in Nat /\ Len(s) >= 1
      /\ Tail(s) \in Seq(Nat) /\ Len(Tail(s)) = Len(s) - 1
      /\ \A i \in 1..Len(Tail(s)) : Tail(s)[i] = s[i + 1]
  BY HeadTailProperties, EmptySeq
<1>2. DOMAIN s = 1..Len(s) /\ DOMAIN Tail(s) = 1..(Len(s) - 1)
  BY <1>1
<1>3. ASSUME NEW i \in DOMAIN s PROVE s[i] \in {s[1]} \cup ToSet(Tail(s))
  <2>1. CASE i # 1
    <3>1. i - 1 \in DOMAIN Tail(s) /\ Tail(s)[i - 1] = s[i]
      BY <1>1, <1>2, <2>1
    <3> QED
      BY <3>1 DEF ToSet
  <2> QED
    BY <2>1
<1>4. ASSUME NEW i \in DOMAIN Tail(s) PROVE Tail(s)[i] \in ToSet(s)
  <2>1. i + 1 \in DOMAIN s /\ Tail(s)[i] = s[i + 1]
    BY <1>1, <1>2
  <2> QED
    BY <2>1 DEF ToSet
<1>5. s[1] \in ToSet(s)
  BY <1>1, <1>2 DEF ToSet
<1>6. ToSet(s) \subseteq {s[1]} \cup ToSet(Tail(s))
  BY <1>3 DEF ToSet
<1>7. ToSet(Tail(s)) \subseteq ToSet(s)
  BY <1>4 DEF ToSet
<1> QED
  BY <1>1, <1>5, <1>6, <1>7

(* Joining three lists in either order. *)
LEMMA JoinThree ==
  ASSUME NEW r \in Seq(Nat), NEW s \in Seq(Nat), NEW t \in Seq(Nat)
  PROVE  (r \o s) \o t = r \o (s \o t)
  BY SMT

(* The first of the second list goes to the end of the first. *)
LEMMA MoveOne ==
  ASSUME NEW s \in Seq(Nat), NEW t \in Seq(Nat), t # <<>>
  PROVE  /\ Append(s, t[1]) \in Seq(Nat) /\ Tail(t) \in Seq(Nat)
         /\ Append(s, t[1]) \o Tail(t) = s \o t
<1>1. Len(t) \in Nat /\ Len(t) >= 1 /\ t[1] \in Nat /\ Tail(t) \in Seq(Nat)
  BY HeadTailProperties, EmptySeq
<1>2. t = <<t[1]>> \o Tail(t)
  <2>1. 1 \in 1..Len(t) /\ Len(t) \in 1..Len(t) /\ 1 + 1 = 2
    BY <1>1
  <2>2. SubSeq(t, 1, Len(t)) = <<t[1]>> \o SubSeq(t, 2, Len(t))
    BY <2>1, SubSeqRecursiveFirst
  <2> QED
    BY <2>2, SubSeqFull, TailIsSubSeq
<1>3. <<t[1]>> \in Seq(Nat) /\ Append(s, t[1]) = s \o <<t[1]>>
  BY <1>1, AppendIsConcat
<1>4. (s \o <<t[1]>>) \o Tail(t) = s \o (<<t[1]>> \o Tail(t))
  <2> DEFINE first == <<t[1]>>
             rest == Tail(t)
  <2>1. first \in Seq(Nat) /\ rest \in Seq(Nat)
    BY <1>1, <1>3
  <2> HIDE DEF first, rest
  <2>2. (s \o first) \o rest = s \o (first \o rest)
    BY <2>1, JoinThree
  <2> QED
    BY <2>2 DEF first, rest
<1>5. Append(s, t[1]) \in Seq(Nat)
  BY <1>1
<1> QED
  BY <1>1, <1>2, <1>3, <1>4, <1>5

(* Watch begins with nothing handed over and nothing missed. *)
LEMMA InitHolds == LogScanInit => ScanInv
<1> SUFFICES ASSUME LogScanInit PROVE ScanInv
  OBVIOUS
<1> DEFINE asked == [k \in Kinds |-> IF k = "requested" THEN 1 ELSE 0]
           filled == [k \in Kinds |-> 1]
<1>1. asked \in [Kinds -> Nat] /\ filled \in [Kinds -> Nat] /\ \A k \in Kinds : asked[k] <= filled[k]
  OBVIOUS
<1>2. count \in {<<>>, <<asked>>, <<asked, asked>>, <<asked, filled>>}
  BY DEF LogScanInit
<1>3. \A k \in Kinds : asked[k] \in {0, 1} /\ filled[k] \in {0, 1}
  OBVIOUS
<1> HIDE DEF asked, filled
<1>4. count \in Seq([Kinds -> Nat])
  <2>1. <<>> \in Seq([Kinds -> Nat])
    BY EmptySeq
  <2>2. ASSUME NEW a \in [Kinds -> Nat], NEW b \in [Kinds -> Nat]
        PROVE  <<a>> \in Seq([Kinds -> Nat]) /\ <<a, b>> \in Seq([Kinds -> Nat])
    OBVIOUS
  <2> QED
    BY <1>1, <1>2, <2>1, <2>2
<1>5. Len(count) \in Nat /\ \A b \in 1..Len(count) : count[b] \in {asked, filled}
  BY <1>1, <1>2
<1>6. emitted = [k \in Kinds |-> IF Before(k, Len(count) + 1) = 1 THEN <<1>> ELSE <<>>]
  BY DEF LogScanInit, BlockNumber
<1>7. ASSUME NEW k \in Kinds
      PROVE  /\ Before(k, Len(count) + 1) \in {0, 1}
             /\ emitted[k] \in Seq(Nat) /\ Before(k, Len(count) + 1) = Len(emitted[k])
  <2>1. Before(k, Len(count) + 1) \in {0, 1}
    <3>1. (Len(count) + 1) - 1 = Len(count) /\ DOMAIN count = 1..Len(count)
      BY <1>4, <1>5
    <3> QED
      BY <1>3, <1>5, <3>1 DEF Before
  <2>2. <<>> \in Seq(Nat) /\ Len(<<>>) = 0 /\ <<1>> \in Seq(Nat) /\ Len(<<1>>) = 1
    BY EmptySeq
  <2> QED
    BY <1>6, <2>1, <2>2
<1>8. ASSUME NEW k \in Kinds, NEW b \in 1..Len(count), NEW c \in b..Len(count)
      PROVE  count[b][k] <= count[c][k]
  <2>1. CASE b = c
    <3>1. count[b] \in [Kinds -> Nat]
      BY <1>4
    <3> QED
      BY <2>1, <3>1
  <2>2. CASE b # c
    <3>1. Len(count) = 2 /\ b = 1 /\ c = 2 /\ count[b] = asked /\ count[c] \in {asked, filled}
      BY <1>2, <1>5, <2>2
    <3>2. asked[k] <= asked[k] /\ asked[k] <= filled[k]
      BY <1>1
    <3> QED
      BY <3>1, <3>2
  <2> QED
    BY <2>1, <2>2
<1>9. start \in Nat /\ next = start
  <2>1. start = StartAt(Len(count)) /\ next = start
    BY DEF LogScanInit, BlockNumber
  <2>2. FromBlock \in Nat /\ Lookback \in Nat
    BY LogScanAssumption
  <2> QED
    BY <1>5, <2>1, <2>2 DEF StartAt
<1>10. emitted \in [Kinds -> Seq(Nat)]
  BY <1>6, <1>7
<1>11. ChainOk
  BY <1>4, <1>7, <1>8, <1>9, <1>10 DEF ChainOk
<1>12. at = "head" /\ head = 0 /\ settling = <<>> /\ asking = <<>> /\ announced = <<>> /\ settled = {}
  BY DEF LogScanInit
<1>13. LoopShape
  BY <1>5, <1>9, <1>12, EmptySeq DEF LoopShape
<1>14. Idle
  <2>1. \A k \in Kinds : EventsBetween(k, start, next - 1) = <<>>
    BY <1>9, <1>11, BetweenNone
  <2>2. ToSet(<<>>) = {}
    BY DEF ToSet
  <2> QED
    BY <1>12, <2>1, <2>2 DEF Idle, Kinds
<1> QED
  BY <1>11, <1>12, <1>13, <1>14 DEF ScanInv, Reading, Handing

(* A longer chain changes nothing about the blocks looked at. *)
LEMMA MineKeeps ==
  ASSUME ScanInv, Mine
  PROVE  ScanInv'
<1>1. ChainOk /\ LoopShape /\ Idle /\ Reading /\ Handing
  BY DEF ScanInv
<1>2. /\ UNCHANGED <<start, next, head, chunks, logs, settling, asking, settled, announced, at>>
      /\ Len(count') = Len(count) + 1 /\ Len(count) \in Nat
  BY <1>1, MineAppends DEF Mine, pollVars, handVars, ChainOk
<1>3. ChainOk'
  BY <1>1, MineChain
<1>4. LoopShape'
  BY <1>1, <1>2 DEF LoopShape
<1>5. next \in Nat /\ start \in Nat /\ start <= next /\ next - 1 \in Nat \cup {-1} /\ head \in Nat
  BY <1>1 DEF LoopShape, ChainOk
<1>6. ASSUME NEW k \in Kinds
      PROVE  EventsBetween(k, start, next - 1)' = EventsBetween(k, start, next - 1)
  <2>1. CASE next = start
    <3>1. EventsBetween(k, start, next - 1) = <<>>
      BY <1>1, <1>5, <2>1, BetweenNone
    <3>2. start' \in Nat /\ (next' - 1) + 1 = start'
      BY <1>2, <1>5, <2>1
    <3>3. EventsBetween(k, start, next - 1)' = <<>>
      <4>1. Before(k, start)' \in Nat
        <5>1. count' \in Seq([Kinds -> Nat])
          BY <1>1, MineAppends
        <5>2. \A b \in DOMAIN count' : count'[b][k] \in Nat
          BY <5>1
        <5> QED
          BY <5>2 DEF Before
      <4>2. /\ Before(k, start)' \in Int /\ Before(k, start)' + 1 \in Int
            /\ Before(k, start)' < Before(k, start)' + 1
        BY <4>1
      <4>3. SubSeq(emitted'[k], Before(k, start)' + 1, Before(k, start)') = <<>>
        BY <4>2, SubSeqEmpty
      <4> QED
        BY <3>2, <4>3 DEF EventsBetween
    <3> QED
      BY <3>1, <3>3
  <2>2. CASE next <= Len(count) + 1
    BY <1>1, <1>2, <1>5, <2>2, MineBetween
  <2> QED
    BY <1>1, <2>1, <2>2 DEF LoopShape
<1>7. Idle'
  BY <1>1, <1>2, <1>6 DEF Idle, Kinds
<1>8. Reading'
  <2> SUFFICES ASSUME at = "logs" PROVE Reading'
    BY <1>2 DEF Reading
  <2>1. /\ next <= head /\ head <= Len(count) /\ chunks # <<>> /\ next <= chunks[1][1]
        /\ Follow(chunks, chunks[1][1], head)
        /\ logs = [k \in Kinds |-> EventsBetween(k, next, chunks[1][1] - 1)]
    BY <1>1 DEF Reading
  <2>2. /\ chunks[1][1] \in Nat /\ chunks[1][1] - 1 \in Nat \cup {-1}
        /\ chunks[1][1] <= Len(count)
        /\ next <= (chunks[1][1] - 1) + 1
    <3>1. chunks \in Seq(Nat \X Nat) /\ 1 \in 1..Len(chunks)
      BY <2>1 DEF Follow
    <3>2. chunks[1] \in Nat \X Nat /\ chunks[1][1] <= chunks[1][2] /\ chunks[1][2] <= head
      BY <2>1, <3>1 DEF Follow
    <3> QED
      BY <1>2, <1>5, <2>1, <3>2
  <2>3. \A k \in Kinds : EventsBetween(k, next, chunks[1][1] - 1)'
                           = EventsBetween(k, next, chunks[1][1] - 1)
    BY <1>1, <1>2, <1>5, <2>2, MineBetween
  <2>4. logs' = [k \in Kinds |-> EventsBetween(k, next, chunks[1][1] - 1)']
    BY <1>2, <2>1, <2>3
  <2> QED
    BY <1>2, <1>5, <2>1, <2>4 DEF Reading
<1>9. Handing'
  <2> SUFFICES ASSUME at = "handing" PROVE Handing'
    BY <1>2 DEF Handing
  <2>1. next <= head /\ head <= Len(count)
    BY <1>1 DEF Handing
  <2>2. \A k \in Kinds : EventsBetween(k, start, head)' = EventsBetween(k, start, head)
    BY <1>1, <1>2, <1>5, <2>1, MineBetween
  <2> QED
    BY <1>1, <1>2, <1>5, <2>1, <2>2 DEF Handing, Kinds
<1> QED
  BY <1>3, <1>4, <1>7, <1>8, <1>9 DEF ScanInv

(* The first range is read, and the others follow. *)
LEMMA FollowTail ==
  ASSUME NEW c, NEW from \in Nat, NEW to \in Nat, Follow(c, from, to), Len(c) > 1
  PROVE  /\ Follow(Tail(c), Tail(c)[1][1], to)
         /\ Tail(c) # <<>> /\ Tail(c)[1][1] = c[1][2] + 1
<1> DEFINE t == Tail(c)
<1>1. c \in Seq(Nat \X Nat) /\ c # <<>> /\ Len(c) \in Nat
  BY DEF Follow
<1>2. /\ t \in Seq(Nat \X Nat) /\ Len(t) = Len(c) - 1
      /\ \A i \in 1..Len(t) : t[i] = c[i + 1]
  BY <1>1, HeadTailProperties
<1> HIDE DEF t
<1>3. t # <<>> /\ 1 \in 1..Len(t) /\ Len(t) \in 1..Len(t) /\ Len(t) + 1 = Len(c)
  BY <1>1, <1>2
<1>4. t[1][1] = c[1][2] + 1
  <2>1. 1 \in 1..(Len(c) - 1) /\ 1 + 1 = 2
    BY <1>1
  <2> QED
    BY <1>2, <1>3, <2>1 DEF Follow
<1>5. t[Len(t)][2] = to
  BY <1>2, <1>3 DEF Follow
<1>6. ASSUME NEW i \in 1..Len(t)
      PROVE  t[i][1] <= t[i][2] /\ t[i][2] <= to
  <2>1. i + 1 \in 1..Len(c)
    BY <1>1, <1>2
  <2> QED
    BY <1>2, <2>1 DEF Follow
<1>7. ASSUME NEW i \in 1..(Len(t) - 1) PROVE t[i + 1][1] = t[i][2] + 1
  <2>1. /\ i \in 1..Len(t) /\ i + 1 \in 1..Len(t) /\ i + 1 \in 1..(Len(c) - 1)
        /\ (i + 1) + 1 \in 1..Len(c)
    BY <1>1, <1>2
  <2>2. c[(i + 1) + 1][1] = c[i + 1][2] + 1
    BY <2>1 DEF Follow
  <2> QED
    BY <1>2, <2>1, <2>2
<1> QED
  BY <1>2, <1>3, <1>4, <1>5, <1>6, <1>7 DEF Follow, t

(* The loop does not change the chain. *)
LEMMA ChainStays ==
  ASSUME ScanInv, UNCHANGED chainVars
  PROVE  /\ ChainOk' /\ count' = count /\ Len(count) \in Nat /\ start' = start
         /\ \A k, from, to :
              SubSeq(emitted[k], Before(k, from) + 1, Before(k, to + 1))'
                = EventsBetween(k, from, to)
<1>1. ChainOk /\ emitted' = emitted /\ count' = count /\ start' = start
  BY DEF ScanInv, chainVars
<1>2. ChainOk'
  BY <1>1 DEF ChainOk, Before
<1> QED
  BY <1>1, <1>2 DEF ChainOk, EventsBetween, Before

(* Reading the head sets out the ranges, or waits. *)
LEMMA ReadHeadKeeps ==
  ASSUME ScanInv, ReadHead
  PROVE  ScanInv'
<1>1. /\ ChainOk /\ LoopShape /\ Idle /\ at = "head"
      /\ UNCHANGED <<emitted, count, start, next, settling, asking, settled, announced>>
      /\ UNCHANGED chainVars
  BY DEF ScanInv, ReadHead, chainVars, handVars
<1>2. ChainOk' /\ Len(count) \in Nat
  BY <1>1, ChainStays
<1>3. /\ announced = EventsBetween("requested", start, next - 1)
      /\ settled = ToSet(EventsBetween("fulfilled", start, next - 1))
  BY <1>1 DEF Idle
<1>4. ASSUME at' # "handing" PROVE Idle'
  BY <1>1, <1>3 DEF Idle, EventsBetween, Before
<1>5. CASE /\ BlockNumber >= next
           /\ head' = BlockNumber
           /\ chunks' = chunkRange(next, BlockNumber, MaxLogRange)
           /\ logs' = NoLogs
           /\ at' = "logs"
  <2>1. head' = Len(count) /\ next <= Len(count) /\ next \in Nat /\ MaxLogRange \in Nat
    BY <1>1, <1>2, <1>5, LogScanAssumption DEF BlockNumber, LoopShape
  <2>2. Follow(chunks', next, Len(count))
    BY <1>2, <1>5, <2>1, RangesFollow DEF BlockNumber
  <2>3. chunks' # <<>> /\ chunks'[1][1] = next
    BY <2>2 DEF Follow
  <2>4. logs' = [k \in Kinds |-> EventsBetween(k, next, next - 1)]
    BY <1>1, <1>5, <2>1, BetweenNone DEF NoLogs
  <2>5. \A k \in Kinds : EventsBetween(k, next, chunks[1][1] - 1)' = EventsBetween(k, next, next - 1)
    BY <1>1, <2>3 DEF EventsBetween, Before
  <2>6. logs' = [k \in Kinds |-> EventsBetween(k, next, chunks[1][1] - 1)']
    BY <2>4, <2>5
  <2>7. Reading'
    BY <1>1, <1>2, <2>1, <2>2, <2>3, <2>6 DEF Reading
  <2>8. LoopShape'
    BY <1>1, <1>2, <1>5, <2>1 DEF LoopShape
  <2> QED
    BY <1>2, <1>4, <1>5, <2>7, <2>8 DEF ScanInv, Handing
<1>6. CASE head' = head /\ at' = "waiting"
  <2>1. LoopShape'
    BY <1>1, <1>6 DEF LoopShape
  <2> QED
    BY <1>2, <1>4, <1>6, <2>1 DEF ScanInv, Handing, Reading
<1> QED
  BY <1>5, <1>6 DEF ReadHead, Failed

(* A range that was read joins on to what was read before it; the last one  *)
(* ends the reading. *)
LEMMA ReadChunkKeeps ==
  ASSUME ScanInv, ReadChunk
  PROVE  ScanInv'
<1>1. /\ ChainOk /\ LoopShape /\ Idle /\ at = "logs"
      /\ UNCHANGED <<emitted, count, start, next, head, settled, announced>>
      /\ UNCHANGED chainVars
  BY DEF ScanInv, ReadChunk, chainVars
<1>2. ChainOk' /\ Len(count) \in Nat
  BY <1>1, ChainStays
<1>3. /\ next <= head /\ head <= Len(count) /\ chunks # <<>> /\ next <= chunks[1][1]
      /\ Follow(chunks, chunks[1][1], head)
      /\ logs = [k \in Kinds |-> EventsBetween(k, next, chunks[1][1] - 1)]
  BY <1>1 DEF ScanInv, Reading
<1>4. /\ announced = EventsBetween("requested", start, next - 1)
      /\ settled = ToSet(EventsBetween("fulfilled", start, next - 1))
  BY <1>1 DEF Idle
<1>5. ASSUME at' # "handing" PROVE Idle'
  BY <1>1, <1>4 DEF Idle, EventsBetween, Before
<1>6. next \in Nat /\ head \in Nat /\ start \in Nat /\ start <= next
  BY <1>1 DEF LoopShape, ChainOk
<1>7. /\ chunks \in Seq(Nat \X Nat)
      /\ chunks[1][1] \in Nat /\ chunks[1][2] \in Nat
      /\ chunks[1][1] <= chunks[1][2] /\ chunks[1][2] <= head
  <2>1. chunks \in Seq(Nat \X Nat) /\ 1 \in 1..Len(chunks)
    BY <1>3 DEF Follow
  <2>2. chunks[1] \in Nat \X Nat
    BY <2>1
  <2> QED
    BY <1>3, <2>1, <2>2 DEF Follow
<1> DEFINE all == Joined(logs, FilterLogs(chunks[1]))
<1>8. ASSUME NEW k \in Kinds PROVE all[k] = EventsBetween(k, next, chunks[1][2])
  <2>1. all[k] = EventsBetween(k, next, chunks[1][1] - 1)
                   \o EventsBetween(k, chunks[1][1], chunks[1][2])
    BY <1>3 DEF Joined, FilterLogs
  <2>2. chunks[1][1] <= chunks[1][2] + 1 /\ chunks[1][2] <= Len(count)
    BY <1>2, <1>3, <1>6, <1>7
  <2> QED
    BY <1>1, <1>3, <1>6, <1>7, <2>1, <2>2, BetweenJoin
<1>9. all = [k \in Kinds |-> EventsBetween(k, next, chunks[1][2])]
  BY <1>8 DEF Joined
<1> HIDE DEF all
<1>10. CASE /\ Len(chunks) > 1
            /\ logs' = all
            /\ chunks' = Tail(chunks)
            /\ UNCHANGED <<at, settling, asking>>
  <2>1. /\ Follow(chunks', chunks'[1][1], head)
        /\ chunks' # <<>> /\ chunks'[1][1] = chunks[1][2] + 1
    BY <1>3, <1>6, <1>7, <1>10, FollowTail
  <2>2. chunks'[1][1] - 1 = chunks[1][2] /\ next <= chunks'[1][1]
    BY <1>3, <1>6, <1>7, <2>1
  <2>3. \A k \in Kinds : EventsBetween(k, next, chunks[1][1] - 1)'
                           = EventsBetween(k, next, chunks[1][2])
    BY <1>1, <2>2 DEF EventsBetween, Before
  <2>4. logs' = [k \in Kinds |-> EventsBetween(k, next, chunks[1][1] - 1)']
    BY <1>9, <1>10, <2>3
  <2>5. Reading'
    BY <1>1, <1>3, <2>1, <2>2, <2>4 DEF Reading
  <2>6. LoopShape'
    BY <1>1, <1>10 DEF LoopShape
  <2> QED
    BY <1>1, <1>2, <1>5, <1>10, <2>5, <2>6 DEF ScanInv, Handing
<1>11. CASE /\ Len(chunks) = 1
            /\ settling' = all["fulfilled"]
            /\ asking' = all["requested"]
            /\ at' = "handing"
  <2>1. chunks[1][2] = head
    BY <1>3, <1>11 DEF Follow
  <2>2. /\ settling' = EventsBetween("fulfilled", next, head)
        /\ asking' = EventsBetween("requested", next, head)
    BY <1>8, <1>11, <2>1 DEF Kinds
  <2>3. settling' \in Seq(Nat) /\ asking' \in Seq(Nat)
    BY <1>1, <1>6, <2>2, BetweenType DEF Kinds
  <2>4. \A k \in Kinds : EventsBetween(k, start, next - 1) \o EventsBetween(k, next, head)
                           = EventsBetween(k, start, head)
    <3>1. next <= head + 1
      BY <1>3, <1>6
    <3> QED
      BY <1>1, <1>3, <1>6, <3>1, BetweenJoin
  <2>5. announced' \o asking' = EventsBetween("requested", start, head)
    BY <1>1, <1>4, <2>2, <2>4 DEF Kinds
  <2>6. EventsBetween("fulfilled", start, next - 1) \in Seq(Nat)
    BY <1>1, <1>6, BetweenType DEF Kinds
  <2>7. settled' \cup ToSet(settling') = ToSet(EventsBetween("fulfilled", start, head))
    <3>1. settled' = ToSet(EventsBetween("fulfilled", start, next - 1))
      BY <1>1, <1>4
    <3>2. ToSet(EventsBetween("fulfilled", start, next - 1) \o settling')
            = ToSet(EventsBetween("fulfilled", start, next - 1)) \cup ToSet(settling')
      BY <2>3, <2>6, ToSetConcat
    <3> QED
      BY <2>2, <2>4, <3>1, <3>2 DEF Kinds
  <2>8. \A k \in Kinds : EventsBetween(k, start, head)' = EventsBetween(k, start, head)
    BY <1>1 DEF EventsBetween, Before
  <2>9. Handing'
    BY <1>1, <1>3, <2>5, <2>7, <2>8 DEF Handing, Kinds
  <2>10. LoopShape'
    BY <1>1, <1>11, <2>3 DEF LoopShape
  <2> QED
    BY <1>2, <1>11, <2>9, <2>10 DEF ScanInv, Idle, Reading
<1>12. CASE at' = "waiting" /\ UNCHANGED <<settling, asking>>
  <2>1. LoopShape'
    BY <1>1, <1>12 DEF LoopShape
  <2> QED
    BY <1>2, <1>5, <1>12, <2>1 DEF ScanInv, Handing, Reading
<1> QED
  BY <1>10, <1>11, <1>12 DEF ReadChunk, Failed, all

(* An event handed over moves from one list to the other. *)
LEMMA HandingKeeps ==
  ASSUME ScanInv, OnFulfilled \/ OnRequest
  PROVE  ScanInv'
<1>1. /\ ChainOk /\ LoopShape /\ at = "handing" /\ at' = "handing"
      /\ UNCHANGED <<emitted, count, start, next, head>>
      /\ UNCHANGED chainVars
  BY DEF ScanInv, OnFulfilled, OnRequest, chainVars, pollVars
<1>2. ChainOk' /\ Len(count) \in Nat
  BY <1>1, ChainStays
<1>3. /\ next <= head /\ head <= Len(count)
      /\ announced \o asking = EventsBetween("requested", start, head)
      /\ settled \cup ToSet(settling) = ToSet(EventsBetween("fulfilled", start, head))
  BY <1>1 DEF ScanInv, Handing
<1>4. \A k \in Kinds : EventsBetween(k, start, head)' = EventsBetween(k, start, head)
  BY <1>1 DEF EventsBetween, Before
<1>5. settling \in Seq(Nat) /\ asking \in Seq(Nat) /\ announced \in Seq(Nat)
  BY <1>1 DEF LoopShape
<1>6. CASE OnFulfilled
  <2>1. /\ settling # <<>> /\ settled' = settled \cup {settling[1]} /\ settling' = Tail(settling)
        /\ UNCHANGED <<asking, announced>>
    BY <1>6 DEF OnFulfilled
  <2>2. settling' \in Seq(Nat) /\ ToSet(settling) = {settling[1]} \cup ToSet(settling')
    BY <1>5, <2>1, ToSetTail
  <2>3. LoopShape'
    BY <1>1, <2>1, <2>2 DEF LoopShape
  <2>4. Handing'
    BY <1>1, <1>3, <1>4, <2>1, <2>2 DEF Handing, Kinds
  <2> QED
    BY <1>1, <1>2, <2>3, <2>4 DEF ScanInv, Idle, Reading
<1>7. CASE OnRequest
  <2>1. /\ asking # <<>> /\ announced' = Append(announced, asking[1]) /\ asking' = Tail(asking)
        /\ UNCHANGED <<settling, settled>>
    BY <1>7 DEF OnRequest
  <2>2. announced' \in Seq(Nat) /\ asking' \in Seq(Nat) /\ announced' \o asking' = announced \o asking
    BY <1>5, <2>1, MoveOne
  <2>3. LoopShape'
    BY <1>1, <2>1, <2>2 DEF LoopShape
  <2>4. Handing'
    BY <1>1, <1>3, <1>4, <2>1, <2>2 DEF Handing, Kinds
  <2> QED
    BY <1>1, <1>2, <2>3, <2>4 DEF ScanInv, Idle, Reading
<1> QED
  BY <1>6, <1>7

(* All is handed over: the blocks looked at are the ones before next. *)
LEMMA ScannedKeeps ==
  ASSUME ScanInv, Scanned
  PROVE  ScanInv'
<1>1. /\ ChainOk /\ LoopShape /\ at = "handing" /\ at' = "waiting" /\ next' = head + 1
      /\ settling = <<>> /\ asking = <<>>
      /\ UNCHANGED <<emitted, count, start, head, settling, asking, settled, announced>>
      /\ UNCHANGED chainVars
  BY DEF ScanInv, Scanned, chainVars, handVars
<1>2. ChainOk' /\ Len(count) \in Nat
  BY <1>1, ChainStays
<1>3. /\ next <= head /\ head <= Len(count)
      /\ announced \o asking = EventsBetween("requested", start, head)
      /\ settled \cup ToSet(settling) = ToSet(EventsBetween("fulfilled", start, head))
  BY <1>1 DEF ScanInv, Handing
<1>4. announced \in Seq(Nat) /\ head \in Nat /\ start \in Nat /\ next \in Nat /\ start <= next
  BY <1>1 DEF LoopShape, ChainOk
<1>5. announced \o asking = announced /\ ToSet(settling) = {}
  BY <1>1, <1>4, ConcatEmptySeq DEF ToSet
<1>6. \A k \in Kinds : EventsBetween(k, start, next - 1)' = EventsBetween(k, start, head)
  <2>1. next' - 1 = head
    BY <1>1, <1>4
  <2> QED
    BY <1>1, <2>1 DEF EventsBetween, Before
<1>7. Idle'
  BY <1>1, <1>3, <1>5, <1>6 DEF Idle, Kinds
<1>8. LoopShape'
  BY <1>1, <1>2, <1>3, <1>4 DEF LoopShape
<1> QED
  BY <1>1, <1>2, <1>7, <1>8 DEF ScanInv, Reading, Handing

(* Waiting, and hints, change nothing the invariant is about. *)
LEMMA QuietKeeps ==
  ASSUME ScanInv, Hint \/ Subscribe \/ waitOrNudge \/ UNCHANGED logScanVars
  PROVE  ScanInv'
<1>1. /\ UNCHANGED <<emitted, count, start, next, head, chunks, logs, settling, asking,
                     settled, announced>>
      /\ UNCHANGED chainVars
      /\ at' = at \/ (at = "waiting" /\ at' = "head")
  BY DEF Hint, Subscribe, waitOrNudge, logScanVars, chainVars, pollVars, handVars
<1>2. ChainOk'
  BY <1>1, ChainStays
<1>3. LoopShape'
  BY <1>1 DEF ScanInv, LoopShape
<1>4. Idle'
  BY <1>1 DEF ScanInv, Idle, EventsBetween, Before
<1>5. Reading'
  BY <1>1 DEF ScanInv, Reading, EventsBetween, Before
<1>6. Handing'
  BY <1>1 DEF ScanInv, Handing, EventsBetween, Before
<1> QED
  BY <1>2, <1>3, <1>4, <1>5, <1>6 DEF ScanInv

(* Every step keeps the invariant. *)
LEMMA ScanStep == ScanInv /\ [LogScanNext]_logScanVars => ScanInv'
  BY MineKeeps, ReadHeadKeeps, ReadChunkKeeps, HandingKeeps, ScannedKeeps, QuietKeeps
  DEF LogScanNext, Watch

(* So it always holds. *)
LEMMA ScanAlways == LogScanSpec => []ScanInv
  BY InitHolds, ScanStep, PTL DEF LogScanSpec

(* For every chain, block to start from and limit, a split scan covers each *)
(* block from next to the head once and in order, in ranges within the      *)
(* limit: chunkRange loses no request and reads none twice. *)
THEOREM ChunksTheorem == LogScanSpec => []ChunksCover
<1>1. ScanInv => ChunksCover
  <2> SUFFICES ASSUME ScanInv, BlockNumber >= next, NEW max \in 0..(MaxBlocks + 1)
               PROVE  LET c == chunkRange(next, BlockNumber, max) IN
                      /\ \A b \in next..BlockNumber :
                           \E i \in DOMAIN c : c[i][1] <= b /\ b <= c[i][2]
                      /\ \A i, j \in DOMAIN c : i < j => c[i][2] < c[j][1]
                      /\ \A i \in DOMAIN c :
                           /\ next <= c[i][1] /\ c[i][1] <= c[i][2] /\ c[i][2] <= BlockNumber
                           /\ max # 0 => c[i][2] - c[i][1] < max
    BY DEF ChunksCover
  <2> DEFINE c == chunkRange(next, BlockNumber, max)
  <2>1. next \in Nat /\ BlockNumber \in Nat /\ next <= BlockNumber /\ max \in Nat
    BY LogScanAssumption DEF ScanInv, LoopShape, ChainOk, BlockNumber
  <2>2. Follow(c, next, BlockNumber) /\ \A i \in 1..Len(c) : next <= c[i][1]
    BY <2>1, RangesFollow
  <2>3. DOMAIN c = 1..Len(c)
    BY <2>2 DEF Follow
  <2>4. \A b \in next..BlockNumber : \E i \in 1..Len(c) : c[i][1] <= b /\ b <= c[i][2]
    BY <2>1, RangesCover
  <2>5. \A i, j \in 1..Len(c) : i < j => c[i][2] < c[j][1]
    BY <2>1, RangesApart
  <2>6. \A i \in 1..Len(c) : c[i][1] <= c[i][2] /\ c[i][2] <= BlockNumber
    BY <2>2 DEF Follow
  <2>7. max # 0 => \A i \in 1..Len(c) : c[i][2] - c[i][1] < max
    BY <2>1, RangesFit
  <2> HIDE DEF c
  <2> QED
    BY <2>2, <2>3, <2>4, <2>5, <2>6, <2>7 DEF c
<1> QED
  BY <1>1, ScanAlways, PTL

-----------------------------------------------------------------------------
(* BlockScan. *)

Upto == IF at = "handing" THEN head + 1 ELSE next

(* The abstract scan's chain is the concrete one's. *)
LEMMA SameOperators ==
  /\ \A x : Abstract!ToSet(x) = ToSet(x)
  /\ \A x, y : Abstract!IsPrefix(x, y) <=> IsPrefix(x, y)
  /\ \A x, y : Abstract!IsStrictPrefix(x, y) <=> IsStrictPrefix(x, y)
<1>1. \A x : Abstract!ToSet(x) = ToSet(x)
  BY DEF ToSet, Abstract!ToSet
<1>2. \A x, y : Abstract!IsPrefix(x, y) <=> IsPrefix(x, y)
  BY DEF IsPrefix, Abstract!IsPrefix
<1>3. \A x, y : Abstract!IsStrictPrefix(x, y) <=> IsStrictPrefix(x, y)
  BY <1>2 DEF IsStrictPrefix, Abstract!IsStrictPrefix
<1> QED
  BY <1>1, <1>2, <1>3

(* So both see the same events between two blocks. *)
LEMMA SameEvents ==
  ASSUME ScanInv, NEW k \in Kinds
  PROVE  Abstract!Looked(k) = EventsBetween(k, start, Upto - 1)
<1>1. (Upto - 1) + 1 = Upto
  BY DEF ScanInv, LoopShape, Upto
<1> QED
  BY <1>1 DEF Abstract!Looked, Abstract!Before, EventsBetween, Before, Upto

(* A list is a prefix of itself with more behind it. *)
LEMMA PrefixOfConcat ==
  ASSUME NEW S, NEW s \in Seq(S), NEW t \in Seq(S)
  PROVE  IsPrefix(s, s \o t)
<1>1. Len(s) \in Nat /\ Len(t) \in Nat /\ Len(s \o t) = Len(s) + Len(t)
  BY ConcatProperties, LenProperties
<1>2. SubSeq(s \o t, 1, Len(s)) = SubSeq(s, 1, Len(s))
  <2>1. CASE Len(s) = 0
    <3>1. SubSeq(s \o t, 1, Len(s)) = <<>>
      BY <2>1, SubSeqEmpty
    <3>2. SubSeq(s, 1, Len(s)) = <<>>
      BY <2>1, SubSeqEmpty
    <3> QED
      BY <3>1, <3>2
  <2>2. CASE Len(s) # 0
    <3>1. 1 \in 1..Len(s) /\ Len(s) \in 1..Len(s)
      BY <1>1, <2>2
    <3> QED
      BY <3>1, SubSeqOfConcat1
  <2> QED
    BY <2>1, <2>2
<1> QED
  BY <1>1, <1>2 DEF IsPrefix

(* Watch begins where BlockScan does. *)
LEMMA InitMaps == LogScanInit => Abstract!BlockScanInit
<1> SUFFICES ASSUME LogScanInit PROVE Abstract!BlockScanInit
  OBVIOUS
<1>1. ChainOk
  BY InitHolds DEF ScanInv
<1>2. Abstract!Complete
  BY <1>1 DEF ChainOk, Abstract!Complete, Abstract!Before, Abstract!Kinds, Kinds, Before
<1> QED
  BY <1>1, <1>2 DEF LogScanInit, ChainOk, Abstract!BlockScanInit, Abstract!Kinds, Kinds

(* A block is mined in both. *)
LEMMA MineMaps ==
  ASSUME ScanInv, Mine
  PROVE  Abstract!Grow
<1>1. ChainOk /\ ChainOk'
  BY MineChain DEF ScanInv
<1>2. UNCHANGED <<start, settled, announced, head, next, at>>
  BY DEF Mine, handVars, pollVars
<1>3. Len(count') = Len(count) + 1
  BY <1>1, MineAppends
<1>4. IsPrefix(count, count')
  <2>1. PICK r \in [Kinds -> Nat] : count' = Append(count, r)
    <3> DEFINE r == [k \in Kinds |-> Len(emitted'[k])]
    <3>1. count' = Append(count, r)
      BY DEF Mine
    <3>2. r \in [Kinds -> Nat]
      <4>1. emitted' \in [Kinds -> Seq(Nat)]
        BY <1>1 DEF ChainOk
      <4> QED
        BY <4>1
    <3> QED
      BY <3>1, <3>2
  <2>2. count \in Seq([Kinds -> Nat]) /\ <<r>> \in Seq([Kinds -> Nat])
    BY <1>1 DEF ChainOk
  <2>3. count' = count \o <<r>>
    BY <2>1, <2>2, AppendIsConcat
  <2> QED
    BY <2>2, <2>3, PrefixOfConcat
<1>5. \A k \in Kinds : IsPrefix(emitted[k], emitted'[k])
  <2> TAKE k \in Kinds
  <2>1. PICK x \in Seq(Nat) : emitted'[k] = emitted[k] \o x
    BY <1>1, MineAppends
  <2>2. emitted[k] \in Seq(Nat)
    BY <1>1 DEF ChainOk
  <2> QED
    BY <2>1, <2>2, PrefixOfConcat
<1>6. Abstract!Complete'
  BY <1>1 DEF ChainOk, Abstract!Complete, Abstract!Before, Abstract!Kinds, Kinds, Before
<1> QED
  BY <1>2, <1>3, <1>4, <1>5, <1>6, SameOperators DEF Abstract!Grow, Abstract!Kinds, Kinds

(* BlockScan looks at the blocks when the last range is read. *)
LEMMA ReadChunkMaps ==
  ASSUME ScanInv, ReadChunk
  PROVE  Abstract!Look \/ UNCHANGED Abstract!scanVars
<1>1. /\ at = "logs" /\ UNCHANGED <<emitted, count, start, next, head, settled, announced>>
  BY DEF ReadChunk, chainVars
<1>2. CASE at' # "handing"
  BY <1>1, <1>2 DEF Abstract!scanVars
<1>3. CASE at' = "handing"
  <2>1. /\ announced = EventsBetween("requested", start, next - 1)
        /\ settled = ToSet(EventsBetween("fulfilled", start, next - 1))
        /\ next <= head /\ head <= Len(count) /\ next \in Nat /\ head \in Nat /\ Len(count) \in Nat
    BY <1>1 DEF ScanInv, Idle, Reading, LoopShape, ChainOk
  <2>2. Upto = next /\ Upto' = head + 1
    BY <1>1, <1>3 DEF Upto
  <2>3. announced = Abstract!Looked("requested") /\ settled = ToSet(Abstract!Looked("fulfilled"))
    BY <2>1, <2>2, SameEvents DEF Kinds
  <2>4. Upto <= Len(count) /\ Upto' \in (Upto + 1)..(Len(count) + 1)
    BY <2>1, <2>2
  <2> QED
    BY <1>1, <2>3, <2>4, SameOperators DEF Abstract!Look, Upto
<1> QED
  BY <1>2, <1>3

(* A fulfilment handed over is a report of BlockScan, or was reported before. *)
LEMMA OnFulfilledMaps ==
  ASSUME ScanInv, OnFulfilled
  PROVE  Abstract!Report \/ UNCHANGED Abstract!scanVars
<1>1. /\ at = "handing" /\ settling # <<>> /\ settled' = settled \cup {settling[1]}
      /\ UNCHANGED <<emitted, count, start, next, head, at, announced>>
  BY DEF OnFulfilled, chainVars, pollVars
<1>2. /\ settled \cup ToSet(settling) = ToSet(EventsBetween("fulfilled", start, head))
      /\ settling \in Seq(Nat) /\ head \in Nat
  BY <1>1 DEF ScanInv, Handing, LoopShape
<1>3. Upto - 1 = head
  BY <1>1, <1>2 DEF Upto
<1>4. settling[1] \in ToSet(Abstract!Looked("fulfilled"))
  BY <1>1, <1>2, <1>3, SameEvents, ToSetTail DEF Kinds
<1>5. CASE settling[1] \in settled
  BY <1>1, <1>5 DEF Abstract!scanVars
<1>6. CASE settling[1] \notin settled
  BY <1>1, <1>4, <1>6, SameOperators DEF Abstract!Report
<1> QED
  BY <1>5, <1>6

(* A request handed over is an announcement of BlockScan. *)
LEMMA OnRequestMaps ==
  ASSUME ScanInv, OnRequest
  PROVE  Abstract!Announce
<1>1. /\ at = "handing" /\ settling = <<>> /\ asking # <<>>
      /\ announced' = Append(announced, asking[1])
      /\ UNCHANGED <<emitted, count, start, next, head, at, settled>>
  BY DEF OnRequest, chainVars, pollVars
<1>2. /\ announced \o asking = EventsBetween("requested", start, head)
      /\ settled \cup ToSet(settling) = ToSet(EventsBetween("fulfilled", start, head))
      /\ announced \in Seq(Nat) /\ asking \in Seq(Nat) /\ head \in Nat
  BY <1>1 DEF ScanInv, Handing, LoopShape
<1>3. Upto - 1 = head
  BY <1>1, <1>2 DEF Upto
<1>4. ToSet(Abstract!Looked("fulfilled")) \subseteq settled
  <2>1. ToSet(settling) = {}
    BY <1>1 DEF ToSet
  <2> QED
    BY <1>2, <1>3, <2>1, SameEvents DEF Kinds
<1>5. Abstract!Looked("requested") = announced \o asking
  BY <1>2, <1>3, SameEvents DEF Kinds
<1>6. IsStrictPrefix(announced, announced \o asking)
  <2>1. IsPrefix(announced, announced \o asking)
    BY <1>2, PrefixOfConcat
  <2>2. announced # announced \o asking
    BY <1>1, <1>2, ConcatEqualIffEmpty
  <2> QED
    BY <2>1, <2>2 DEF IsStrictPrefix
<1>7. SubSeq(announced \o asking, 1, Len(announced) + 1) = Append(announced, asking[1])
  <2> DEFINE a == Append(announced, asking[1])
  <2>1. a \in Seq(Nat) /\ Tail(asking) \in Seq(Nat) /\ announced \o asking = a \o Tail(asking)
    BY <1>1, <1>2, MoveOne
  <2>2. Len(a) = Len(announced) + 1
    BY <1>2
  <2> HIDE DEF a
  <2>3. IsPrefix(a, a \o Tail(asking)) /\ SubSeq(a, 1, Len(a)) = a
    BY <2>1, PrefixOfConcat, SubSeqFull
  <2> QED
    BY <2>1, <2>2, <2>3 DEF IsPrefix, a
<1> QED
  BY <1>1, <1>4, <1>5, <1>6, <1>7, SameOperators DEF Abstract!Announce

(* BlockScan does not see the rest: reading the head, waiting, failing. *)
LEMMA OthersMap ==
  ASSUME ScanInv,
         ReadHead \/ Scanned \/ Hint \/ Subscribe \/ waitOrNudge \/ UNCHANGED logScanVars
  PROVE  UNCHANGED Abstract!scanVars
<1>1. /\ UNCHANGED <<emitted, count, start, settled, announced>>
      /\ \/ UNCHANGED <<next, head, at>>
         \/ at # "handing" /\ at' # "handing" /\ UNCHANGED next
         \/ at = "handing" /\ at' # "handing" /\ next' = head + 1
  BY DEF ReadHead, Failed, Scanned, Hint, Subscribe, waitOrNudge, logScanVars, chainVars,
         pollVars, handVars
<1> QED
  BY <1>1 DEF Abstract!scanVars

(* The poll loop implements BlockScan's safety: whatever is refused, split  *)
(* or lost, each request from the first block on is announced exactly once, *)
(* in order, behind the fulfilments in the blocks looked at with it. *)
THEOREM ScanTheorem == LogScanSpec => ScanImplements
<1>1. ScanInv /\ [LogScanNext]_logScanVars
        => [Abstract!BlockScanNext]_(Abstract!scanVars)
  BY MineMaps, ReadChunkMaps, OnFulfilledMaps, OnRequestMaps, OthersMap
  DEF LogScanNext, Watch, Abstract!BlockScanNext
<1> QED
  BY <1>1, InitMaps, ScanAlways, PTL
  DEF LogScanSpec, ScanImplements, Abstract!BlockScanSpec
=============================================================================
