----------------------------- MODULE RingProofs -----------------------------
(***************************************************************************)
(* Proofs about the two shared rings of libbpf, for every size of a ring   *)
(* and every sequence of records, batches and wraps: the perf ring of      *)
(* bpf_perf_event_read_simple and the AF_XDP rings of xsk.h.               *)
(***************************************************************************)
EXTENDS XskRing, PerfRing, TLAPS

(***************************************************************************)
(* Remainders.                                                             *)
(***************************************************************************)
\* The range of a remainder.
LEMMA ModType ==
    ASSUME NEW w \in Nat \ {0}, NEW a \in Int
    PROVE  a % w \in 0 .. w - 1
  OBVIOUS

\* A number below the modulus is its own remainder.
LEMMA ModSmall ==
    ASSUME NEW w \in Nat \ {0}, NEW a \in 0 .. w - 1
    PROVE  a % w = a
  OBVIOUS

\* Division with remainder.
LEMMA ModDiv ==
    ASSUME NEW w \in Nat \ {0}, NEW a \in Int
    PROVE  a = w * (a \div w) + (a % w) /\ a \div w \in Int
  OBVIOUS

\* The remainder is unique.
LEMMA ModUnique ==
    ASSUME NEW w \in Nat \ {0}, NEW q \in Int, NEW r \in 0 .. w - 1
    PROVE  (w * q + r) % w = r
  OBVIOUS

\* A multiple of the modulus may be left out.
LEMMA ModShift ==
    ASSUME NEW w \in Nat \ {0}, NEW q \in Int, NEW a \in Int
    PROVE  (w * q + a) % w = a % w
<1> DEFINE s == a \div w
           t == a % w
<1>1. a = w * s + t /\ s \in Int /\ t \in 0 .. w - 1
  BY ModDiv, ModType
<1> HIDE DEF s, t
<1>2. w * q + a = w * (q + s) + t
  BY <1>1
<1>3. (w * (q + s) + t) % w = t
  BY <1>1, ModUnique
<1> QED
  BY <1>2, <1>3 DEF t

\* A remainder may be taken early.
LEMMA ModAdd ==
    ASSUME NEW w \in Nat \ {0}, NEW a \in Int, NEW b \in Int
    PROVE  (a + b) % w = ((a % w) + b) % w
<1> DEFINE q == a \div w
           r == a % w
<1>1. a = w * q + r /\ q \in Int /\ r \in Int
  BY ModDiv
<1> HIDE DEF q, r
<1>2. a + b = w * q + (r + b) /\ r + b \in Int
  BY <1>1
<1>3. (w * q + (r + b)) % w = (r + b) % w
  <2> DEFINE c == r + b
  <2>1. c \in Int
    BY <1>2
  <2> HIDE DEF c
  <2>2. (w * q + c) % w = c % w
    BY <1>1, <2>1, ModShift
  <2> QED
    BY <2>2 DEF c
<1> QED
  BY <1>2, <1>3 DEF r

\* Remainders modulo a multiple keep the remainder.
LEMMA ModMod ==
    ASSUME NEW w \in Nat \ {0}, NEW v \in Nat \ {0}, v % w = 0, NEW a \in Int
    PROVE  (a % v) % w = a % w
<1> DEFINE t == v \div w
           q == a \div v
           r == a % v
<1>1. v = w * t /\ t \in Int
  BY ModDiv
<1>2. a = v * q + r /\ q \in Int /\ r \in Int
  BY ModDiv
<1> HIDE DEF t, q, r
<1>3. a = (w * t) * q + r
  BY <1>1, <1>2
<1>4. a = w * (t * q) + r /\ t * q \in Int
  BY <1>1, <1>2, <1>3
<1>5. (w * (t * q) + r) % w = r % w
  BY <1>2, <1>4, ModShift
<1> QED
  BY <1>4, <1>5 DEF r

\* Numbers less than the modulus apart have different remainders.
LEMMA ModDistinct ==
    ASSUME NEW w \in Nat \ {0}, NEW a \in Int, NEW b \in Int, a < b, b < a + w
    PROVE  a % w # b % w
<1> SUFFICES ASSUME a % w = b % w PROVE FALSE
  OBVIOUS
<1> DEFINE q == a \div w
           s == b \div w
           r == a % w
<1>1. a = w * q + r /\ b = w * s + r /\ q \in Int /\ s \in Int /\ r \in Int
  BY ModDiv
<1> HIDE DEF q, s, r
<1>2. w * (s - q) = b - a
  BY <1>1
<1>3. w * (s - q) > 0 /\ w * (s - q) < w
  BY <1>2
<1> DEFINE d == s - q
<1>4. d \in Int /\ w * d > 0 /\ w * d < w
  BY <1>1, <1>3
<1> HIDE DEF d
<1>5. CASE d <= 0
  <2>1. w * d <= 0
    BY <1>4, <1>5
  <2> QED
    BY <1>4, <2>1
<1>6. CASE d >= 1
  <2>1. w * d >= w
    BY <1>4, <1>6
  <2> QED
    BY <1>4, <2>1
<1> QED
  BY <1>4, <1>5, <1>6

(***************************************************************************)
(* The perf ring.                                                          *)
(*                                                                         *)
(* RecordsInOrder is not inductive: it says nothing of the memory the next *)
(* record is read from.  The invariant names where each record starts,     *)
(* pos[i]; the reader stands at the start of the first record that was not *)
(* delivered, the words of that record and of all later ones are where the *)
(* kernel put them, and the space the kernel may write into starts behind  *)
(* them.                                                                   *)
(***************************************************************************)
Words == [id : Nat, size : Nat, k : Nat]

PerfType ==
    /\ page \in [head : Nat, tail : Nat]
    /\ mem \in [0 .. PerfSize - 1 -> Words]
    /\ written \in Seq(Sizes)
    /\ reader \in [pc : {"idle", "loop", "end"}, head : Nat, tail : Nat, copy : Nat]
    /\ delivered \in Seq(Seq(Words))

\* pos[i] is where record i starts, and the last one where the next will.
Positions(pos) ==
    /\ pos \in [1 .. Len(written) + 1 -> Nat]
    /\ pos[Len(written) + 1] = page.head
    /\ \A i \in 1 .. Len(written) : pos[i + 1] = pos[i] + written[i]
    /\ \A i, j \in 1 .. Len(written) + 1 : i < j => pos[i] < pos[j]

\* The reader is at a record's start, and so is the head it has read.
ReaderAt(pos) ==
    /\ page.tail <= pos[Len(delivered) + 1]
    /\ reader.pc = "idle" => page.tail = pos[Len(delivered) + 1]
    /\ reader.pc # "idle" =>
          /\ reader.tail = pos[Len(delivered) + 1]
          /\ \E h \in Len(delivered) + 1 .. Len(written) + 1 : reader.head = pos[h]

\* What was not delivered is still in memory.
Unspoilt(pos) ==
    \A i \in Len(delivered) + 1 .. Len(written) : \A k \in 0 .. written[i] - 1 :
        mem[(pos[i] + k) % PerfSize] = Word(i, written[i], k)

PerfInv ==
    /\ PerfType
    /\ RecordsInOrder
    /\ page.head <= page.tail + PerfSize
    /\ \E pos \in [1 .. Len(written) + 1 -> Nat] :
          Positions(pos) /\ ReaderAt(pos) /\ Unspoilt(pos)

LEMMA PerfStart == RInit => PerfInv
<1> SUFFICES ASSUME RInit PROVE PerfInv
  OBVIOUS
<1> USE PerfAssumption DEF RInit
<1>1. PerfType
  <2>1. Word(0, 1, 0) \in Words
    BY DEF Word, Words
  <2> QED
    BY <2>1 DEF PerfType
<1>2. RecordsInOrder
  BY DEF RecordsInOrder
<1>3. page.head <= page.tail + PerfSize
  OBVIOUS
<1> DEFINE pos == [i \in 1 .. 1 |-> 0]
<1>4. Len(written) = 0 /\ Len(delivered) = 0
  OBVIOUS
<1>5. pos \in [1 .. Len(written) + 1 -> Nat] /\ pos[1] = 0
  BY <1>4
<1> HIDE DEF pos
<1>6. Positions(pos)
  BY <1>4, <1>5 DEF Positions
<1>7. ReaderAt(pos)
  BY <1>4, <1>5 DEF ReaderAt
<1>8. Unspoilt(pos)
  BY <1>4 DEF Unspoilt
<1> QED
  BY <1>1, <1>2, <1>3, <1>5, <1>6, <1>7, <1>8 DEF PerfInv

\* The kernel writes behind what is still to be read.
LEMMA PerfWrite ==
    ASSUME PerfInv, NEW size \in Sizes, KernelWrites(size)
    PROVE  PerfInv'
<1> DEFINE n == Len(written)
           d == Len(delivered)
           H == page.head
           T == page.tail
<1>1. PICK pos \in [1 .. n + 1 -> Nat] : Positions(pos) /\ ReaderAt(pos) /\ Unspoilt(pos)
  BY DEF PerfInv
<1>2. /\ size \in 1 .. PerfSize /\ n \in Nat /\ d \in Nat /\ d <= n
      /\ H \in Nat /\ T \in Nat /\ PerfSize \in Nat \ {0}
      /\ DOMAIN mem = 0 .. PerfSize - 1 /\ \A i \in 0 .. PerfSize - 1 : mem[i] \in Words
  BY PerfAssumption DEF PerfInv, PerfType, RecordsInOrder
<1>3. /\ H + size - T <= PerfSize
      /\ page' = [page EXCEPT !.head = @ + size]
      /\ written' = Append(written, size)
      /\ reader' = reader /\ delivered' = delivered
  BY DEF KernelWrites
<1>4. /\ Len(written') = n + 1 /\ written' \in Seq(Sizes)
      /\ written'[n + 1] = size
      /\ \A i \in 1 .. n : written'[i] = written[i]
  BY <1>3 DEF PerfInv, PerfType
<1>5. page'.head = H + size /\ page'.tail = T
  BY <1>3 DEF PerfInv, PerfType
<1> DEFINE Here(i) == {k \in 0 .. size - 1 : (H + k) % PerfSize = i}
<1>6. mem' = [i \in DOMAIN mem |->
                 IF Here(i) = {} THEN mem[i] ELSE Word(n + 1, size, CHOOSE k \in Here(i) : TRUE)]
  BY DEF KernelWrites
<1> HIDE DEF H, T, n, d
<1>7. \A k \in 0 .. size - 1 :
         /\ (H + k) % PerfSize \in 0 .. PerfSize - 1
         /\ mem'[(H + k) % PerfSize] = Word(n + 1, size, k)
  <2> TAKE k \in 0 .. size - 1
  <2> DEFINE i == (H + k) % PerfSize
  <2>1. i \in 0 .. PerfSize - 1
    BY <1>2, ModType
  <2>2. k \in Here(i)
    OBVIOUS
  <2>3. \A j \in Here(i) : j = k
    <3> SUFFICES ASSUME NEW j \in 0 .. size - 1, (H + j) % PerfSize = (H + k) % PerfSize
                 PROVE  j = k
      OBVIOUS
    <3> DEFINE x == H + j
               y == H + k
    <3>1. x \in Int /\ y \in Int /\ x < y + PerfSize /\ y < x + PerfSize
      BY <1>2
    <3>2. x % PerfSize = y % PerfSize
      OBVIOUS
    <3>3. ~(x < y) /\ ~(y < x)
      <4> HIDE DEF x, y
      <4> QED
        BY <3>1, <3>2, <1>2, ModDistinct
    <3> QED
      BY <3>3, <1>2
  <2>4. (CHOOSE j \in Here(i) : TRUE) = k
    <3> HIDE DEF Here, i
    <3> QED
      BY <2>2, <2>3
  <2>5. i \in DOMAIN mem
    BY <2>1, <1>2
  <2>6. mem'[i] = Word(n + 1, size, k)
    <3> HIDE DEF Here, i, n
    <3> QED
      BY <2>2, <2>4, <2>5, <1>6
  <2> QED
    BY <2>1, <2>6
<1>8. \A i \in 0 .. PerfSize - 1 :
         (\A k \in 0 .. size - 1 : (H + k) % PerfSize # i) => mem'[i] = mem[i]
  <2> SUFFICES ASSUME NEW i \in 0 .. PerfSize - 1,
                      \A k \in 0 .. size - 1 : (H + k) % PerfSize # i
               PROVE  mem'[i] = mem[i]
    OBVIOUS
  <2>1. Here(i) = {}
    OBVIOUS
  <2>2. i \in DOMAIN mem
    BY <1>2
  <2> HIDE DEF Here, n
  <2> QED
    BY <2>1, <2>2, <1>6
<1>9. mem' \in [0 .. PerfSize - 1 -> Words]
  <2>1. DOMAIN mem = 0 .. PerfSize - 1
    BY <1>2
  <2>2. DOMAIN mem' = 0 .. PerfSize - 1
    BY <1>6, <2>1
  <2>3. \A i \in 0 .. PerfSize - 1 : mem'[i] \in Words
    <3> TAKE i \in 0 .. PerfSize - 1
    <3>1. CASE \A k \in 0 .. size - 1 : (H + k) % PerfSize # i
      BY <3>1, <1>2, <1>8
    <3>2. CASE \E k \in 0 .. size - 1 : (H + k) % PerfSize = i
      <4>1. PICK k \in 0 .. size - 1 : (H + k) % PerfSize = i
        BY <3>2
      <4>2. mem'[i] = Word(n + 1, size, k)
        BY <4>1, <1>7
      <4> QED
        BY <4>2, <1>2 DEF Word, Words
    <3> QED
      BY <3>1, <3>2
  <2>4. mem' = [i \in 0 .. PerfSize - 1 |-> mem'[i]]
    BY <1>6, <2>1
  <2> QED
    BY <2>3, <2>4
<1>10. PerfType'
  <2>1. page' \in [head : Nat, tail : Nat]
    <3>1. page' = [head |-> H + size, tail |-> T]
      BY <1>3 DEF PerfInv, PerfType, H, T
    <3> QED
      BY <3>1, <1>2
  <2> QED
    BY <2>1, <1>3, <1>4, <1>9 DEF PerfInv, PerfType
<1>11. RecordsInOrder'
  <2>1. \A i \in DOMAIN delivered : i \in 1 .. n
    <3>1. DOMAIN delivered = 1 .. d
      BY DEF PerfInv, PerfType, d
    <3> QED
      BY <3>1, <1>2
  <2> QED
    BY <2>1, <1>2, <1>3, <1>4 DEF RecordsInOrder, PerfInv, d
<1>12. page'.head <= page'.tail + PerfSize
  BY <1>2, <1>3, <1>5
<1>13. PICK new \in [1 .. n + 2 -> Nat] :
          new[n + 2] = H + size /\ \A i \in 1 .. n + 1 : new[i] = pos[i]
  <2> DEFINE f == [i \in 1 .. n + 2 |-> IF i = n + 2 THEN H + size ELSE pos[i]]
  <2>1. f \in [1 .. n + 2 -> Nat]
    BY <1>1, <1>2
  <2>2. f[n + 2] = H + size /\ \A i \in 1 .. n + 1 : f[i] = pos[i]
    BY <1>2
  <2> HIDE DEF f
  <2> QED
    BY <2>1, <2>2
<1>14. /\ pos[n + 1] = H
       /\ \A i \in 1 .. n : pos[i + 1] = pos[i] + written[i]
       /\ \A i, j \in 1 .. n + 1 : i < j => pos[i] < pos[j]
       /\ \A i \in 1 .. n + 1 : pos[i] \in Nat
  BY <1>1 DEF Positions, n, H
<1>15. Positions(new)'
  <2>1. \A i \in 1 .. n + 1 : new[i + 1] = new[i] + written'[i]
    <3> TAKE i \in 1 .. n + 1
    <3>1. CASE i = n + 1
      BY <3>1, <1>2, <1>4, <1>13, <1>14
    <3>2. CASE i \in 1 .. n
      BY <3>2, <1>2, <1>4, <1>13, <1>14
    <3> QED
      BY <3>1, <3>2, <1>2
  <2>2. \A i, j \in 1 .. n + 2 : i < j => new[i] < new[j]
    <3> SUFFICES ASSUME NEW i \in 1 .. n + 2, NEW j \in 1 .. n + 2, i < j
                 PROVE  new[i] < new[j]
      OBVIOUS
    <3>1. CASE j \in 1 .. n + 1
      BY <3>1, <1>2, <1>13, <1>14
    <3>2. CASE j = n + 2
      <4>1. i \in 1 .. n + 1 /\ n + 1 \in 1 .. n + 1
        BY <3>2, <1>2
      <4>2. pos[i] <= pos[n + 1]
        BY <4>1, <1>2, <1>14
      <4> QED
        BY <4>1, <4>2, <3>2, <1>2, <1>13, <1>14
    <3> QED
      BY <3>1, <3>2, <1>2
  <2>3. (Len(written') + 1 = n + 2) /\ (Len(written') = n + 1)
    BY <1>2, <1>4
  <2> QED
    BY <2>1, <2>2, <2>3, <1>2, <1>5, <1>13 DEF Positions
<1>16. ReaderAt(new)'
  <2>1. d + 1 \in 1 .. n + 1
    BY <1>2
  <2>2. new[d + 1] = pos[d + 1]
    BY <2>1, <1>13
  <2>3. ReaderAt(pos)
    BY <1>1
  <2>4. ASSUME reader.pc # "idle"
        PROVE  \E h \in d + 1 .. n + 2 : reader.head = new[h]
    <3>1. PICK h \in d + 1 .. n + 1 : reader.head = pos[h]
      BY <2>3, <2>4 DEF ReaderAt, n, d
    <3>2. h \in d + 1 .. n + 2 /\ h \in 1 .. n + 1
      BY <1>2
    <3> QED
      BY <3>1, <3>2, <1>13
  <2>5. Len(written') + 1 = n + 2 /\ Len(delivered') = d
    BY <1>2, <1>3, <1>4 DEF d
  <2>6. /\ page'.tail <= new[d + 1]
        /\ reader.pc = "idle" => page'.tail = new[d + 1]
        /\ reader.pc # "idle" => reader.tail = new[d + 1]
    BY <2>2, <2>3, <1>5 DEF ReaderAt, d, T
  <2> QED
    BY <2>4, <2>5, <2>6, <1>3 DEF ReaderAt
<1>17. Unspoilt(new)'
  <2> SUFFICES ASSUME NEW i \in d + 1 .. n + 1, NEW k \in 0 .. written'[i] - 1
               PROVE  mem'[(new[i] + k) % PerfSize] = Word(i, written'[i], k)
    <3>1. Len(written') = n + 1 /\ Len(delivered') = d
      BY <1>3, <1>4 DEF d
    <3> QED
      BY <3>1 DEF Unspoilt
  <2>1. CASE i = n + 1
    <3>1. new[i] = H /\ written'[i] = size
      BY <2>1, <1>2, <1>4, <1>13, <1>14
    <3> QED
      BY <3>1, <2>1, <1>7
  <2>2. CASE i \in d + 1 .. n
    <3>1. i \in 1 .. n /\ written'[i] = written[i] /\ new[i] = pos[i]
      BY <2>2, <1>2, <1>4, <1>13
    <3>2. mem[(pos[i] + k) % PerfSize] = Word(i, written[i], k)
      BY <3>1, <2>2, <1>1 DEF Unspoilt, n, d
    <3>3. /\ T <= pos[d + 1] /\ pos[d + 1] <= pos[i]
          /\ pos[i + 1] <= pos[n + 1] /\ pos[i + 1] = pos[i] + written[i]
      <4>1. T <= pos[d + 1]
        BY <1>1 DEF ReaderAt, d, T
      <4>2. pos[d + 1] <= pos[i]
        <5>1. d + 1 \in 1 .. n + 1 /\ i \in 1 .. n + 1 /\ (d + 1 = i \/ d + 1 < i)
          BY <2>2, <1>2
        <5> QED
          BY <5>1, <1>14
      <4>3. pos[i + 1] <= pos[n + 1]
        <5>1. n + 1 \in 1 .. n + 1 /\ i + 1 \in 1 .. n + 1 /\ (i = n \/ i + 1 < n + 1)
          BY <2>2, <1>2
        <5> QED
          BY <5>1, <1>14
      <4> QED
        BY <4>1, <4>2, <4>3, <3>1, <1>14
    <3>4. pos[i] \in Nat /\ pos[d + 1] \in Nat /\ k \in Nat /\ written[i] \in Nat /\ k < written[i]
      <4>1. written[i] \in Sizes
        BY <3>1 DEF PerfInv, PerfType, n
      <4>2. written[i] \in Nat
        <5>1. Sizes \subseteq Nat
          BY PerfAssumption
        <5> QED
          BY <4>1, <5>1
      <4>3. pos[i] \in Nat /\ pos[d + 1] \in Nat
        <5>1. i \in 1 .. n + 1 /\ d + 1 \in 1 .. n + 1
          BY <3>1, <1>2
        <5> QED
          BY <5>1, <1>14
      <4>4. k \in 0 .. written[i] - 1
        BY <3>1
      <4> QED
        BY <4>2, <4>3, <4>4
    <3> DEFINE x == pos[i] + k
    <3>5. x \in Int /\ T <= x /\ x < H
      <4> DEFINE q == pos[i]
                 r == written[i]
      <4>1. q \in Nat /\ r \in Nat /\ k \in Nat /\ k < r /\ q + r <= H /\ T <= q
        <5>1. pos[i] + written[i] <= H
          BY <3>3, <1>14
        <5>2. T <= pos[i]
          <6>1. T \in Nat /\ pos[d + 1] \in Nat /\ pos[i] \in Nat
            BY <3>4, <1>2
          <6> QED
            BY <6>1, <3>3
        <5> QED
          BY <5>1, <5>2, <3>4
      <4>2. x = q + k
        OBVIOUS
      <4> HIDE DEF q, r, x
      <4> QED
        BY <4>1, <4>2, <1>2
    <3> HIDE DEF x
    <3>6. ASSUME NEW j \in 0 .. size - 1
          PROVE  (H + j) % PerfSize # x % PerfSize
      <4> DEFINE y == H + j
      <4>1. y \in Int /\ x < y /\ y < x + PerfSize
        <5>1. j \in Nat /\ j < size /\ size \in Nat
          BY <1>2
        <5>2. H \in Nat /\ T \in Nat /\ PerfSize \in Nat
          BY <1>2
        <5>3. H + size - T <= PerfSize
          BY <1>3
        <5> QED
          BY <5>1, <5>2, <5>3, <3>5
      <4> HIDE DEF y
      <4>2. x % PerfSize # y % PerfSize
        BY <4>1, <3>5, <1>2, ModDistinct
      <4> QED
        BY <4>2 DEF y
    <3>7. x % PerfSize \in 0 .. PerfSize - 1
      BY <3>5, <1>2, ModType
    <3>8. mem'[x % PerfSize] = mem[x % PerfSize]
      BY <3>6, <3>7, <1>8
    <3> QED
      BY <3>1, <3>2, <3>8 DEF x
  <2> QED
    BY <2>1, <2>2, <1>2
<1>18. new \in [1 .. Len(written') + 1 -> Nat]
  <2>1. Len(written') + 1 = n + 2
    BY <1>2, <1>4
  <2> QED
    BY <2>1, <1>13
<1> QED
  BY <1>10, <1>11, <1>12, <1>15, <1>16, <1>17, <1>18 DEF PerfInv

LEMMA PerfBegin == PerfInv /\ Begin => PerfInv'
<1> SUFFICES ASSUME PerfInv, Begin PROVE PerfInv'
  OBVIOUS
<1>1. PICK pos \in [1 .. Len(written) + 1 -> Nat] : Positions(pos) /\ ReaderAt(pos) /\ Unspoilt(pos)
  BY DEF PerfInv
<1>2. /\ reader.pc = "idle"
      /\ reader'.pc = "loop" /\ reader'.head = page.head /\ reader'.tail = page.tail
      /\ page' = page /\ mem' = mem /\ written' = written /\ delivered' = delivered
  BY DEF Begin, PerfInv, PerfType
<1>3. PerfType'
  BY DEF PerfInv, PerfType, Begin
<1>4. RecordsInOrder' /\ (page.head <= page.tail + PerfSize)'
  BY <1>2 DEF PerfInv, RecordsInOrder
<1>5. Positions(pos)' /\ Unspoilt(pos)'
  BY <1>1, <1>2 DEF Positions, Unspoilt
<1>6. ReaderAt(pos)'
  <2>1. Len(written) + 1 \in Len(delivered) + 1 .. Len(written) + 1
    BY DEF PerfInv, PerfType, RecordsInOrder
  <2>2. page.head = pos[Len(written) + 1] /\ page.tail = pos[Len(delivered) + 1]
    BY <1>1, <1>2 DEF Positions, ReaderAt
  <2>3. page.tail <= pos[Len(delivered) + 1]
    BY <1>1 DEF ReaderAt
  <2> QED
    BY <1>2, <2>1, <2>2, <2>3 DEF ReaderAt
<1> QED
  BY <1>1, <1>2, <1>3, <1>4, <1>5, <1>6 DEF PerfInv

\* In the loop the first record that was not delivered is complete in memory.
LEMMA PerfRecord ==
    ASSUME PerfInv, reader.pc = "loop", reader.head # reader.tail,
           NEW pos \in [1 .. Len(written) + 1 -> Nat],
           Positions(pos), ReaderAt(pos), Unspoilt(pos)
    PROVE  LET d == Len(delivered)
           IN /\ d + 1 <= Len(written)
              /\ EhdrSize = written[d + 1]
              /\ Record = [k \in 1 .. written[d + 1] |-> Word(d + 1, written[d + 1], k - 1)]
              /\ reader.tail + EhdrSize = pos[d + 2]
              /\ \E h \in d + 2 .. Len(written) + 1 : reader.head = pos[h]
<1> USE PerfAssumption
<1> DEFINE d == Len(delivered)
           n == Len(written)
<1>1. n \in Nat /\ d \in Nat /\ d <= n /\ reader.tail = pos[d + 1]
  BY DEF PerfInv, PerfType, RecordsInOrder, ReaderAt
<1>2. PICK h \in d + 1 .. n + 1 : reader.head = pos[h]
  BY DEF ReaderAt
<1>3. h # d + 1
  BY <1>1, <1>2
<1>4. h \in d + 2 .. n + 1 /\ d + 1 \in 1 .. n
  BY <1>1, <1>2, <1>3
<1> DEFINE s == written[d + 1]
           p == pos[d + 1]
<1>5. s \in 1 .. PerfSize /\ p \in Nat
  <2>1. s \in Sizes
    BY <1>4 DEF PerfInv, PerfType
  <2>2. p \in Nat
    <3>1. d + 1 \in 1 .. Len(written) + 1
      BY <1>1, <1>4
    <3> QED
      BY <3>1
  <2> HIDE DEF s
  <2> QED
    BY <2>1, <2>2
<1>6. pos[d + 2] = p + s
  <2>1. pos[(d + 1) + 1] = p + s
    BY <1>4 DEF Positions
  <2> QED
    BY <2>1, <1>1
<1>7. \A k \in 0 .. s - 1 : mem[(p + k) % PerfSize] = Word(d + 1, s, k)
  <2>1. d + 1 \in Len(delivered) + 1 .. Len(written)
    BY <1>1, <1>4
  <2> QED
    BY <2>1 DEF Unspoilt
<1>8. AtTail = p % PerfSize
  BY <1>1 DEF AtTail
<1> HIDE DEF s, p, d, n
<1>9. EhdrSize = s
  <2>1. 0 \in 0 .. s - 1 /\ p + 0 = p
    BY <1>5
  <2>2. mem[p % PerfSize] = Word(d + 1, s, 0)
    BY <2>1, <1>7
  <2> QED
    BY <2>2, <1>8 DEF EhdrSize, Word
<1>10. ASSUME NEW k \in 1 .. s
       PROVE  mem[(AtTail + k - 1) % PerfSize] = Word(d + 1, s, k - 1)
  <2>1. k - 1 \in 0 .. s - 1
    BY <1>5
  <2>2. (p + (k - 1)) % PerfSize = ((p % PerfSize) + (k - 1)) % PerfSize
    <3> DEFINE j == k - 1
    <3>1. j \in Int /\ p \in Int
      BY <2>1, <1>5
    <3> HIDE DEF j
    <3>2. (p + j) % PerfSize = ((p % PerfSize) + j) % PerfSize
      BY <3>1, ModAdd
    <3> QED
      BY <3>2 DEF j
  <2>3. p % PerfSize \in Int
    BY <1>5, ModType
  <2>4. (p % PerfSize) + (k - 1) = AtTail + k - 1
    BY <2>3, <1>8
  <2>5. mem[(p + (k - 1)) % PerfSize] = Word(d + 1, s, k - 1)
    BY <2>1, <1>7
  <2> QED
    BY <2>2, <2>4, <2>5
<1>11. Record = [k \in 1 .. s |-> Word(d + 1, s, k - 1)]
  BY <1>9, <1>10 DEF Record
<1>12. d + 1 <= n
  BY <1>1, <1>4
<1> QED
  BY <1>1, <1>2, <1>4, <1>6, <1>9, <1>11, <1>12 DEF s, p, d, n

LEMMA PerfDeliver == PerfInv /\ Deliver => PerfInv'
<1> SUFFICES ASSUME PerfInv, Deliver PROVE PerfInv'
  OBVIOUS
<1> USE PerfAssumption
<1> DEFINE d == Len(delivered)
           n == Len(written)
<1>1. PICK pos \in [1 .. Len(written) + 1 -> Nat] : Positions(pos) /\ ReaderAt(pos) /\ Unspoilt(pos)
  BY DEF PerfInv
<1>2. n \in Nat /\ d \in Nat
  BY DEF PerfInv, PerfType
<1>3. /\ d + 1 <= n
      /\ EhdrSize = written[d + 1]
      /\ Record = [k \in 1 .. written[d + 1] |-> Word(d + 1, written[d + 1], k - 1)]
      /\ reader.tail + EhdrSize = pos[d + 2]
      /\ \E h \in d + 2 .. n + 1 : reader.head = pos[h]
  BY <1>1, PerfRecord DEF Deliver
<1>4. d + 1 \in 1 .. n /\ written[d + 1] \in 1 .. PerfSize
  <2>1. d + 1 \in 1 .. n
    BY <1>2, <1>3
  <2>2. written[d + 1] \in Sizes
    BY <2>1 DEF PerfInv, PerfType
  <2> HIDE DEF d, n
  <2> QED
    BY <2>1, <2>2
<1>5. PICK more \in BOOLEAN :
         Callback(more, IF Wraps /\ reader.copy < EhdrSize THEN EhdrSize ELSE reader.copy)
  BY DEF Deliver
<1>6. /\ page' = page /\ mem' = mem /\ written' = written
      /\ delivered' = Append(delivered, Record)
  BY <1>5 DEF Deliver, Callback
<1>7. /\ reader'.pc \in {"loop", "end"} /\ reader'.tail = reader.tail + EhdrSize
      /\ reader'.head = reader.head
  BY <1>5 DEF Callback, PerfInv, PerfType
<1>8. Record \in Seq(Words)
  <2>1. \A k \in 1 .. written[d + 1] : Word(d + 1, written[d + 1], k - 1) \in Words
    BY <1>2, <1>4 DEF Word, Words
  <2> DEFINE m == written[d + 1]
  <2>2. m \in Nat /\ Record \in [1 .. m -> Words]
    BY <1>3, <1>4, <2>1
  <2> HIDE DEF m
  <2> QED
    BY <2>2
<1>9. PerfType'
  <2>1. reader' \in [pc : {"idle", "loop", "end"}, head : Nat, tail : Nat, copy : Nat]
    <3> DEFINE c == IF Wraps /\ reader.copy < EhdrSize THEN EhdrSize ELSE reader.copy
    <3>1. EhdrSize \in Nat
      BY <1>3, <1>4
    <3>2. c \in Nat
      BY <3>1 DEF PerfInv, PerfType
    <3>3. Callback(more, c)
      BY <1>5
    <3> HIDE DEF c
    <3>4. /\ DOMAIN reader' = DOMAIN reader
          /\ reader' = [pc |-> IF more THEN "loop" ELSE "end", head |-> reader.head,
                        tail |-> reader.tail + EhdrSize, copy |-> c]
      BY <3>3 DEF Callback, PerfInv, PerfType
    <3> QED
      BY <3>1, <3>2, <3>4 DEF PerfInv, PerfType
  <2>2. delivered' \in Seq(Seq(Words))
    BY <1>6, <1>8 DEF PerfInv, PerfType
  <2> QED
    BY <2>1, <2>2, <1>6 DEF PerfInv, PerfType
<1>10. /\ Len(delivered') = d + 1 /\ DOMAIN delivered' = 1 .. d + 1
       /\ delivered'[d + 1] = Record
       /\ \A i \in 1 .. d : delivered'[i] = delivered[i]
  BY <1>6, <1>8 DEF PerfInv, PerfType
<1>11. RecordsInOrder'
  <2>1. ASSUME NEW i \in 1 .. d + 1
        PROVE  delivered'[i] = [k \in 1 .. written[i] |-> Word(i, written[i], k - 1)]
    <3>1. CASE i = d + 1
      BY <3>1, <1>3, <1>10
    <3>2. CASE i \in 1 .. d
      <4>1. i \in DOMAIN delivered
        BY <3>2 DEF PerfInv, PerfType
      <4> QED
        BY <4>1, <3>2, <1>10 DEF PerfInv, RecordsInOrder
    <3> QED
      BY <3>1, <3>2, <1>2
  <2> QED
    BY <2>1, <1>3, <1>6, <1>10 DEF RecordsInOrder
<1>12. (page.head <= page.tail + PerfSize)'
  BY <1>6 DEF PerfInv
<1>13. Positions(pos)'
  BY <1>1, <1>6 DEF Positions
<1>14. Unspoilt(pos)'
  <2>1. \A i \in d + 2 .. n : i \in d + 1 .. n
    BY <1>2
  <2>2. Len(delivered') + 1 = d + 2
    BY <1>2, <1>10
  <2> QED
    BY <2>1, <2>2, <1>1, <1>6 DEF Unspoilt
<1>15. ReaderAt(pos)'
  <2>1. Len(delivered') + 1 = d + 2
    BY <1>2, <1>10
  <2>2. page.tail <= pos[d + 1]
    BY <1>1 DEF ReaderAt
  <2>3. pos[d + 1] <= pos[d + 2] /\ pos[d + 1] \in Nat /\ pos[d + 2] \in Nat
    <3>1. d + 1 \in 1 .. n + 1 /\ d + 2 \in 1 .. n + 1 /\ d + 1 < d + 2
      BY <1>2, <1>3
    <3> QED
      BY <3>1, <1>1 DEF Positions
  <2>4. page.tail <= pos[d + 2]
    <3>1. page.tail \in Nat
      BY DEF PerfInv, PerfType
    <3> HIDE DEF d
    <3> QED
      BY <3>1, <2>2, <2>3
  <2> HIDE DEF d, n
  <2> QED
    BY <2>1, <2>4, <1>3, <1>6, <1>7 DEF ReaderAt, n
<1> QED
  BY <1>1, <1>6, <1>9, <1>11, <1>12, <1>13, <1>14, <1>15 DEF PerfInv

LEMMA PerfNoMemory == PerfInv /\ NoMemory => PerfInv'
<1> SUFFICES ASSUME PerfInv, NoMemory PROVE PerfInv'
  OBVIOUS
<1>1. PICK pos \in [1 .. Len(written) + 1 -> Nat] : Positions(pos) /\ ReaderAt(pos) /\ Unspoilt(pos)
  BY DEF PerfInv
<1>2. /\ reader.pc = "loop" /\ reader'.pc = "end"
      /\ reader'.head = reader.head /\ reader'.tail = reader.tail
      /\ page' = page /\ mem' = mem /\ written' = written /\ delivered' = delivered
  BY DEF NoMemory, PerfInv, PerfType
<1>3. PerfType'
  BY DEF PerfInv, PerfType, NoMemory
<1>4. RecordsInOrder' /\ (page.head <= page.tail + PerfSize)'
  BY <1>2 DEF PerfInv, RecordsInOrder
<1>5. Positions(pos)' /\ Unspoilt(pos)'
  BY <1>1, <1>2 DEF Positions, Unspoilt
<1>6. ReaderAt(pos)'
  BY <1>1, <1>2 DEF ReaderAt
<1> QED
  BY <1>1, <1>2, <1>3, <1>4, <1>5, <1>6 DEF PerfInv

LEMMA PerfEnd == PerfInv /\ End => PerfInv'
<1> SUFFICES ASSUME PerfInv, End PROVE PerfInv'
  OBVIOUS
<1>1. PICK pos \in [1 .. Len(written) + 1 -> Nat] : Positions(pos) /\ ReaderAt(pos) /\ Unspoilt(pos)
  BY DEF PerfInv
<1>2. /\ reader.pc # "idle" /\ reader'.pc = "idle"
      /\ page'.head = page.head /\ page'.tail = reader.tail
      /\ mem' = mem /\ written' = written /\ delivered' = delivered
  BY DEF End, PerfInv, PerfType
<1>3. PerfType'
  BY DEF PerfInv, PerfType, End
<1>4. RecordsInOrder'
  BY <1>2 DEF PerfInv, RecordsInOrder
<1>5. reader.tail = pos[Len(delivered) + 1] /\ page.tail <= reader.tail
  BY <1>1, <1>2 DEF ReaderAt
<1>6. (page.head <= page.tail + PerfSize)'
  BY <1>2, <1>5, PerfAssumption DEF PerfInv, PerfType
<1>7. Positions(pos)' /\ Unspoilt(pos)'
  BY <1>1, <1>2 DEF Positions, Unspoilt
<1>8. ReaderAt(pos)'
  <2>1. pos[Len(delivered) + 1] <= pos[Len(delivered) + 1]
    BY <1>5 DEF PerfInv, PerfType
  <2> QED
    BY <2>1, <1>2, <1>5 DEF ReaderAt
<1> QED
  BY <1>1, <1>2, <1>3, <1>4, <1>6, <1>7, <1>8 DEF PerfInv

LEMMA PerfStep == PerfInv /\ [RNext]_rvars => PerfInv'
<1> SUFFICES ASSUME PerfInv, [RNext]_rvars PROVE PerfInv'
  OBVIOUS
<1>1. CASE UNCHANGED rvars
  <2>1. /\ page' = page /\ mem' = mem /\ written' = written
        /\ reader' = reader /\ delivered' = delivered
    BY <1>1 DEF rvars
  <2>2. PICK pos \in [1 .. Len(written) + 1 -> Nat] : Positions(pos) /\ ReaderAt(pos) /\ Unspoilt(pos)
    BY DEF PerfInv
  <2>3. Positions(pos)' /\ ReaderAt(pos)' /\ Unspoilt(pos)'
    BY <2>1, <2>2 DEF Positions, ReaderAt, Unspoilt
  <2>4. PerfType' /\ RecordsInOrder' /\ (page.head <= page.tail + PerfSize)'
    BY <2>1 DEF PerfInv, PerfType, RecordsInOrder
  <2> QED
    BY <2>1, <2>2, <2>3, <2>4 DEF PerfInv
<1>2. CASE ReaderStep
  BY <1>2, PerfBegin, PerfDeliver, PerfNoMemory, PerfEnd DEF ReaderStep
<1>3. CASE \E size \in Sizes : KernelWrites(size)
  BY <1>3, PerfWrite
<1> QED
  BY <1>1, <1>2, <1>3 DEF RNext

\* The invariant of bpf_perf_event_read_simple and the kernel that writes.
THEOREM PerfSafe == RSpec => []PerfInv
<1> QED
  BY PerfStart, PerfStep, PTL DEF RSpec

\* The callback of bpf_perf_event_read_simple sees the records in the order
\* they were written, each once, whole and not written over, for every size of
\* the buffer, whether a record wraps, the callback stops the loop early or
\* malloc fails.
THEOREM RecordsTheorem == RSpec => []RecordsInOrder
<1>1. PerfInv => RecordsInOrder
  BY DEF PerfInv
<1> QED
  BY <1>1, PerfSafe, PTL

(***************************************************************************)
(* The AF_XDP rings.                                                       *)
(*                                                                         *)
(* All counters of a ring are its consumer plus a distance: what was       *)
(* submitted, what is reserved, and what is known to be free add up to at  *)
(* most Size, and what is peeked and what is known to wait to at most what *)
(* waits.  A frame is in one place: with the application, in an entry it   *)
(* filled, with the kernel, or in an entry it has not read.                *)
(***************************************************************************)
Index == 0 .. Width - 1

RingType == [producer : Index, consumer : Index, ring : [0 .. Size - 1 -> Frames],
             cached_prod : Index, cached_cons : Index]

Handle == [idx : Index, n : Nat, done : Nat]

\* a entries of the ring are submitted, and free more than the reserved ones are
\* known to be free.
ProdAt(ring, r, a, free) ==
    /\ ring \in RingType /\ r \in Handle
    /\ r.done <= r.n
    /\ r.n > 0 => r.idx = ring.producer
    /\ a + r.n + free <= Size
    /\ ring.producer = Plus(ring.consumer, a)
    /\ ring.cached_prod = Plus(ring.consumer, a + r.n)
    /\ ring.cached_cons = Plus(ring.consumer, a + r.n + free)

\* u entries wait behind the peeked ones, and v of them are known to.
ConsAt(ring, r, u, v) ==
    /\ ring \in RingType /\ r \in Handle
    /\ r.done <= r.n
    /\ r.n > 0 => r.idx = ring.consumer
    /\ v <= u /\ r.n + u <= Size
    /\ ring.producer = Plus(ring.consumer, r.n + u)
    /\ ring.cached_prod = Plus(ring.consumer, r.n + v)
    /\ ring.cached_cons = Plus(ring.consumer, r.n)

\* The n entries of a ring from index c on.
Run(ring, c, n) == [i \in 1 .. n |-> ring[(c + (i - 1)) % Size]]

Entries(s) == {s[i] : i \in DOMAIN s}

Distinct(s) == \A i, j \in DOMAIN s : s[i] = s[j] => i = j

\* The entries submitted and the ones written into the reservation.
Filled == Run(prod.ring, prod.consumer, Minus(prod.producer, prod.consumer) + reserved.done)

\* The places of the frames, two of them rings.
Apart(own, fill, kern, wait) ==
    /\ own \subseteq Frames /\ kern \subseteq Frames
    /\ fill \in Seq(Frames) /\ wait \in Seq(Frames)
    /\ Distinct(fill) /\ Distinct(wait)
    /\ own \cap Entries(fill) = {} /\ own \cap kern = {} /\ own \cap Entries(wait) = {}
    /\ Entries(fill) \cap kern = {} /\ Entries(fill) \cap Entries(wait) = {}
    /\ kern \cap Entries(wait) = {}

RingInv ==
    /\ \E a, free \in Nat : ProdAt(prod, reserved, a, free)
    /\ \E u, v \in Nat : ConsAt(cons, peeked, u, v)
    /\ Apart(mine, Filled, kernel, Unread)

(***************************************************************************)
(* Counters.                                                               *)
(***************************************************************************)
LEMMA WidthFits == Width \in Nat \ {0} /\ Size \in Nat \ {0} /\ Size < Width
  BY RingAssumption

LEMMA IndexIsInt == Index \subseteq Int /\ 0 \in Index /\ Size \in Nat /\ 0 .. Size \subseteq Index
  BY WidthFits DEF Index

LEMMA PlusType ==
    ASSUME NEW c \in Int, NEW a \in Int
    PROVE  Plus(c, a) \in Index
<1> DEFINE x == c + a
<1>1. x \in Int
  OBVIOUS
<1> HIDE DEF x
<1>2. x % Width \in 0 .. Width - 1
  BY <1>1, WidthFits, ModType
<1> QED
  BY <1>2 DEF Plus, Index, x

LEMMA PlusPlus ==
    ASSUME NEW c \in Int, NEW a \in Int, NEW b \in Int
    PROVE  Plus(Plus(c, a), b) = Plus(c, a + b)
<1> DEFINE x == c + a
<1>1. x \in Int
  OBVIOUS
<1>2. (x + b) % Width = ((x % Width) + b) % Width
  <2> HIDE DEF x
  <2> QED
    BY <1>1, WidthFits, ModAdd
<1>3. x + b = c + (a + b)
  OBVIOUS
<1> HIDE DEF x
<1>4. Plus(c, a) = x % Width
  BY DEF Plus, x
<1> QED
  BY <1>2, <1>3, <1>4 DEF Plus

LEMMA PlusZero ==
    ASSUME NEW c \in Index
    PROVE  Plus(c, 0) = c
<1>1. c \in 0 .. Width - 1 /\ c + 0 = c
  BY WidthFits DEF Index
<1>2. c % Width = c
  BY <1>1, WidthFits, ModSmall
<1> QED
  BY <1>1, <1>2 DEF Plus

LEMMA MinusPlus ==
    ASSUME NEW c \in Index, NEW a \in Index
    PROVE  Minus(Plus(c, a), c) = a
<1> DEFINE x == c + a
           y == -c
<1>1. x \in Int /\ y \in Int /\ a \in 0 .. Width - 1 /\ x + y = a /\ c \in Int
  BY WidthFits DEF Index
<1>2. (x + y) % Width = ((x % Width) + y) % Width
  <2> HIDE DEF x, y
  <2> QED
    BY <1>1, WidthFits, ModAdd
<1>3. a % Width = a
  BY <1>1, WidthFits, ModSmall
<1>4. x % Width \in Int
  <2> HIDE DEF x
  <2> QED
    BY <1>1, WidthFits, ModType
<1>5. (x % Width) + y = (x % Width) - c
  BY <1>1, <1>4
<1> QED
  BY <1>1, <1>2, <1>3, <1>5 DEF Minus, Plus

\* The distance of two counters is the difference of their distances from a
\* third one, however often they have wrapped.
LEMMA Distance ==
    ASSUME NEW c \in Index, NEW a \in Nat, NEW b \in Nat, a <= b, b <= Size
    PROVE  Minus(Plus(c, b), Plus(c, a)) = b - a
<1>1. c \in Int /\ b - a \in Index /\ a \in Int /\ b - a \in Int /\ a + (b - a) = b
  BY WidthFits DEF Index
<1> DEFINE d == b - a
           e == Plus(c, a)
<1>2. e \in Index
  BY <1>1, PlusType
<1>3. Plus(e, d) = Plus(c, b)
  <2>1. Plus(Plus(c, a), d) = Plus(c, a + d)
    <3> HIDE DEF d
    <3> QED
      BY <1>1, PlusPlus DEF d
  <2> QED
    BY <2>1, <1>1
<1>4. Minus(Plus(e, d), e) = d
  <2> HIDE DEF d, e
  <2> QED
    BY <1>1, <1>2, MinusPlus DEF d
<1> QED
  BY <1>3, <1>4

LEMMA SlotPlus ==
    ASSUME NEW c \in Int, NEW a \in Int
    PROVE  Slot(Plus(c, a)) = (c + a) % Size
<1> DEFINE x == c + a
<1>1. x \in Int
  OBVIOUS
<1> HIDE DEF x
<1>2. (x % Width) % Size = x % Size
  BY <1>1, WidthFits, RingAssumption, ModMod
<1> QED
  BY <1>2 DEF Slot, Plus, x

(***************************************************************************)
(* Runs of entries.                                                        *)
(***************************************************************************)
LEMMA RunType ==
    ASSUME NEW ring \in [0 .. Size - 1 -> Frames], NEW c \in Int, NEW n \in Nat
    PROVE  /\ Run(ring, c, n) \in Seq(Frames)
           /\ Len(Run(ring, c, n)) = n /\ DOMAIN Run(ring, c, n) = 1 .. n
           /\ \A i \in 1 .. n : Run(ring, c, n)[i] = ring[(c + (i - 1)) % Size]
<1>1. ASSUME NEW i \in 1 .. n
      PROVE  ring[(c + (i - 1)) % Size] \in Frames
  <2> DEFINE x == c + (i - 1)
  <2>1. x \in Int
    OBVIOUS
  <2> HIDE DEF x
  <2>2. x % Size \in 0 .. Size - 1
    BY <2>1, WidthFits, ModType
  <2> QED
    BY <2>2 DEF x
<1>2. Run(ring, c, n) \in [1 .. n -> Frames]
  BY <1>1 DEF Run
<1>3. \A i \in 1 .. n : Run(ring, c, n)[i] = ring[(c + (i - 1)) % Size]
  BY DEF Run
<1> DEFINE s == Run(ring, c, n)
<1> HIDE DEF s
<1>4. s \in [1 .. n -> Frames]
  BY <1>2 DEF s
<1>5. s \in Seq(Frames) /\ Len(s) = n /\ DOMAIN s = 1 .. n
  BY <1>4
<1> QED
  BY <1>3, <1>5 DEF s

LEMMA BetweenIsRun ==
    ASSUME NEW ring, NEW c \in Index, NEW n \in 0 .. Size
    PROVE  Between(ring, c, Plus(c, n)) = Run(ring, c, n)
<1>1. n \in Index /\ c \in Int
  BY WidthFits DEF Index
<1>2. Minus(Plus(c, n), c) = n
  BY <1>1, MinusPlus
<1>3. ASSUME NEW i \in 1 .. n
      PROVE  Slot(Plus(c, i - 1)) = (c + (i - 1)) % Size
  <2> DEFINE k == i - 1
  <2>1. k \in Int
    OBVIOUS
  <2> HIDE DEF k
  <2>2. Slot(Plus(c, k)) = (c + k) % Size
    BY <1>1, <2>1, SlotPlus
  <2> QED
    BY <2>2 DEF k
<1> QED
  BY <1>2, <1>3 DEF Between, Run

\* Consuming one entry.
LEMMA RunTail ==
    ASSUME NEW ring \in [0 .. Size - 1 -> Frames], NEW c \in Index, NEW n \in Nat \ {0}
    PROVE  /\ Run(ring, c, n) # <<>>
           /\ Head(Run(ring, c, n)) = ring[Slot(c)]
           /\ Tail(Run(ring, c, n)) = Run(ring, Plus(c, 1), n - 1)
<1> DEFINE s == Run(ring, c, n)
           t == Run(ring, Plus(c, 1), n - 1)
<1>1. c \in Int /\ Plus(c, 1) \in Int /\ n - 1 \in Nat
  <2>1. c \in Int
    BY IndexIsInt
  <2>2. Plus(c, 1) \in 0 .. Width - 1
    BY <2>1, PlusType DEF Index
  <2> QED
    BY <2>1, <2>2, WidthFits
<1>2. /\ s \in Seq(Frames) /\ Len(s) = n
      /\ \A i \in 1 .. n : s[i] = ring[(c + (i - 1)) % Size]
  <2> HIDE DEF s
  <2> QED
    BY <1>1, RunType DEF s
<1>3. /\ t \in Seq(Frames) /\ Len(t) = n - 1
      /\ \A i \in 1 .. n - 1 : t[i] = ring[(Plus(c, 1) + (i - 1)) % Size]
  <2> DEFINE d == Plus(c, 1)
             m == n - 1
  <2>1. d \in Int /\ m \in Nat
    BY <1>1
  <2> HIDE DEF d, m
  <2>2. /\ Run(ring, d, m) \in Seq(Frames) /\ Len(Run(ring, d, m)) = m
        /\ \A i \in 1 .. m : Run(ring, d, m)[i] = ring[(d + (i - 1)) % Size]
    BY <2>1, RunType
  <2> QED
    BY <2>2 DEF d, m
<1>4. ASSUME NEW i \in 1 .. n - 1
      PROVE  (Plus(c, 1) + (i - 1)) % Size = (c + i) % Size
  <2> DEFINE k == i - 1
             d == Plus(c, 1)
  <2>1. k \in Int /\ 1 + k = i /\ d \in Int
    BY <1>1
  <2> HIDE DEF k
  <2>2. Slot(Plus(d, k)) = (d + k) % Size
    <3> HIDE DEF d
    <3> QED
      BY <2>1, SlotPlus
  <2>3. Plus(d, k) = Plus(c, i)
    <3>1. Plus(Plus(c, 1), k) = Plus(c, 1 + k)
      BY <2>1, <1>1, PlusPlus
    <3> QED
      BY <3>1, <2>1
  <2>4. Slot(Plus(c, i)) = (c + i) % Size
    BY <1>1, SlotPlus
  <2> QED
    BY <2>2, <2>3, <2>4 DEF k
<1> HIDE DEF s, t
<1>5. s # <<>> /\ Head(s) = s[1]
  BY <1>2
<1>6. s[1] = ring[Slot(c)]
  <2>1. 1 \in 1 .. n /\ c + (1 - 1) = c
    BY <1>1
  <2> QED
    BY <2>1, <1>2 DEF Slot
<1>7. ASSUME NEW i \in 1 .. n - 1
      PROVE  Tail(s)[i] = t[i]
  <2>1. i + 1 \in 1 .. n /\ c + ((i + 1) - 1) = c + i
    BY <1>1
  <2>2. Tail(s)[i] = s[i + 1]
    BY <1>2
  <2>3. s[i + 1] = ring[(c + i) % Size]
    BY <1>2, <2>1
  <2> QED
    BY <2>2, <2>3, <1>3, <1>4
<1>8. Tail(s) \in Seq(Frames) /\ Len(Tail(s)) = n - 1
  BY <1>2, <1>5
<1>9. Tail(s) = t
  BY <1>3, <1>7, <1>8
<1> QED
  BY <1>5, <1>6, <1>9 DEF s, t

\* Two runs one behind the other.
LEMMA RunSplit ==
    ASSUME NEW ring \in [0 .. Size - 1 -> Frames], NEW c \in Index, NEW a \in Nat, NEW n \in Nat
    PROVE  Run(ring, c, a + n) = Run(ring, c, a) \o Run(ring, Plus(c, a), n)
<1> DEFINE d == Plus(c, a)
           r == Run(ring, c, a + n)
           s == Run(ring, c, a)
           t == Run(ring, d, n)
<1>1. c \in Int /\ d \in Int /\ a + n \in Nat
  <2>1. c \in Int /\ a \in Int
    BY WidthFits DEF Index
  <2>2. d \in 0 .. Width - 1
    BY <2>1, PlusType DEF Index
  <2> QED
    BY <2>1, <2>2, WidthFits
<1>2. /\ r \in Seq(Frames) /\ Len(r) = a + n
      /\ \A i \in 1 .. a + n : r[i] = ring[(c + (i - 1)) % Size]
  <2> DEFINE m == a + n
  <2> HIDE DEF m
  <2>1. /\ Run(ring, c, m) \in Seq(Frames) /\ Len(Run(ring, c, m)) = m
        /\ \A i \in 1 .. m : Run(ring, c, m)[i] = ring[(c + (i - 1)) % Size]
    BY <1>1, RunType DEF m
  <2> QED
    BY <2>1 DEF m
<1>3. /\ s \in Seq(Frames) /\ Len(s) = a
      /\ \A i \in 1 .. a : s[i] = ring[(c + (i - 1)) % Size]
  BY <1>1, RunType
<1>4. /\ t \in Seq(Frames) /\ Len(t) = n
      /\ \A i \in 1 .. n : t[i] = ring[(d + (i - 1)) % Size]
  <2> HIDE DEF d
  <2> QED
    BY <1>1, RunType
<1> HIDE DEF r, s, t
<1>5. ASSUME NEW i \in 1 .. n
      PROVE  t[i] = r[a + i]
  <2> DEFINE k == i - 1
             j == a + i
  <2>1. k \in Int /\ j \in 1 .. a + n /\ a + k = j - 1 /\ a + k \in Int
    OBVIOUS
  <2>2. Slot(Plus(d, k)) = (d + k) % Size
    <3> HIDE DEF d, k
    <3> QED
      BY <2>1, <1>1, SlotPlus
  <2>3. Plus(d, k) = Plus(c, a + k)
    <3> HIDE DEF k
    <3> QED
      BY <2>1, <1>1, PlusPlus
  <2>4. Slot(Plus(c, a + k)) = (c + (a + k)) % Size
    <3> DEFINE m == a + k
    <3> HIDE DEF m
    <3>1. Slot(Plus(c, m)) = (c + m) % Size
      BY <2>1, <1>1, SlotPlus DEF m
    <3> QED
      BY <3>1 DEF m
  <2>5. r[j] = ring[(c + (a + k)) % Size]
    <3> HIDE DEF j, k
    <3> QED
      BY <2>1, <1>2
  <2> QED
    BY <2>2, <2>3, <2>4, <2>5, <1>4
<1>6. s \o t \in Seq(Frames) /\ Len(s \o t) = a + n
  BY <1>3, <1>4
<1>7. ASSUME NEW i \in 1 .. a + n
      PROVE  (s \o t)[i] = r[i]
  <2>1. CASE i <= a
    BY <2>1, <1>2, <1>3, <1>4
  <2>2. CASE i > a
    <3>1. i - a \in 1 .. n /\ a + (i - a) = i
      BY <2>2
    <3>2. (s \o t)[i] = t[i - a]
      BY <2>2, <1>3, <1>4
    <3> QED
      BY <3>1, <3>2, <1>5
  <2>3. i <= a \/ i > a
    OBVIOUS
  <2> QED
    BY <2>1, <2>2, <2>3
<1>8. s \o t = r
  <2> DEFINE q == s \o t
             l == a + n
  <2>1. q \in Seq(Frames) /\ Len(q) = l /\ r \in Seq(Frames) /\ Len(r) = l
    BY <1>2, <1>6
  <2>2. \A i \in 1 .. l : q[i] = r[i]
    BY <1>7
  <2> HIDE DEF q, l
  <2>3. q = r
    BY <2>1, <2>2
  <2> QED
    BY <2>3 DEF q
<1> QED
  BY <1>8 DEF r, s, t

\* new is ring with f stored into the entry behind the run of a from c on.
Stores(new, ring, c, a, f) ==
  /\ ring \in [0 .. Size - 1 -> Frames] /\ new \in [0 .. Size - 1 -> Frames]
  /\ c \in Index /\ a \in 0 .. Size - 1 /\ f \in Frames
  /\ new[Slot(Plus(c, a))] = f
  /\ \A i \in 0 .. Size - 1 : i # Slot(Plus(c, a)) => new[i] = ring[i]

\* The run is then one longer, and its parts are what they were.
LEMMA RunStore ==
    ASSUME NEW ring, NEW c, NEW a, NEW f, NEW new, Stores(new, ring, c, a, f)
    PROVE  /\ Run(new, c, a + 1) = Append(Run(ring, c, a), f)
           /\ \A n \in 0 .. a : Run(new, c, n) = Run(ring, c, n)
<1>0. /\ ring \in [0 .. Size - 1 -> Frames] /\ new \in [0 .. Size - 1 -> Frames]
      /\ c \in Index /\ a \in 0 .. Size - 1 /\ f \in Frames
  BY DEF Stores
<1> USE <1>0
<1>1. c \in Int /\ a \in Nat /\ a + 1 \in Nat
  BY WidthFits DEF Index
<1> DEFINE p == (c + a) % Size
<1>2. /\ p \in 0 .. Size - 1 /\ new[p] = f
      /\ \A i \in 0 .. Size - 1 : i # p => new[i] = ring[i]
  <2> DEFINE x == c + a
  <2>1. x \in Int
    BY <1>1
  <2>2. x % Size \in 0 .. Size - 1
    <3> HIDE DEF x
    <3> QED
      BY <2>1, WidthFits, ModType
  <2>3. Slot(Plus(c, a)) = p
    BY <1>1, SlotPlus
  <2>4. /\ new[Slot(Plus(c, a))] = f
        /\ \A i \in 0 .. Size - 1 : i # Slot(Plus(c, a)) => new[i] = ring[i]
    BY DEF Stores
  <2> QED
    BY <2>2, <2>3, <2>4
<1>3. ASSUME NEW i \in 1 .. a
      PROVE  new[(c + (i - 1)) % Size] = ring[(c + (i - 1)) % Size]
  <2> DEFINE x == c + (i - 1)
             y == c + a
  <2>1. x \in Int /\ y \in Int /\ x < y /\ y < x + Size
    BY <1>1, WidthFits
  <2>2. x % Size # y % Size
    <3> HIDE DEF x, y
    <3> QED
      BY <2>1, WidthFits, ModDistinct
  <2>3. x % Size \in 0 .. Size - 1
    <3> HIDE DEF x
    <3> QED
      BY <2>1, WidthFits, ModType
  <2> DEFINE q == x % Size
  <2>4. q \in 0 .. Size - 1 /\ q # p
    BY <2>2, <2>3
  <2> HIDE DEF p, q
  <2>5. new[q] = ring[q]
    BY <1>2, <2>4
  <2> QED
    BY <2>5 DEF q
<1>4. ASSUME NEW n \in 0 .. a
      PROVE  Run(new, c, n) = Run(ring, c, n)
  <2>1. \A i \in 1 .. n : i \in 1 .. a
    BY <1>1
  <2> QED
    BY <2>1, <1>3 DEF Run
<1> DEFINE s == Run(ring, c, a)
           t == Run(new, c, a + 1)
<1>5. /\ s \in Seq(Frames) /\ Len(s) = a
      /\ \A i \in 1 .. a : s[i] = ring[(c + (i - 1)) % Size]
  BY <1>1, RunType
<1>6. /\ t \in Seq(Frames) /\ Len(t) = a + 1
      /\ \A i \in 1 .. a + 1 : t[i] = new[(c + (i - 1)) % Size]
  <2> DEFINE m == a + 1
  <2> HIDE DEF m
  <2>1. /\ Run(new, c, m) \in Seq(Frames) /\ Len(Run(new, c, m)) = m
        /\ \A i \in 1 .. m : Run(new, c, m)[i] = new[(c + (i - 1)) % Size]
    BY <1>1, RunType DEF m
  <2> QED
    BY <2>1 DEF m
<1>7. t[a + 1] = f
  <2>1. a + 1 \in 1 .. a + 1 /\ c + ((a + 1) - 1) = c + a
    BY <1>1
  <2> HIDE DEF t
  <2> QED
    BY <2>1, <1>2, <1>6
<1> HIDE DEF s, t, p
<1>8. \A i \in 1 .. a : t[i] = s[i]
  <2>1. \A i \in 1 .. a : i \in 1 .. a + 1
    BY <1>1
  <2> QED
    BY <2>1, <1>3, <1>5, <1>6
<1>9. t = Append(s, f)
  <2>1. Append(s, f) \in Seq(Frames) /\ Len(Append(s, f)) = a + 1
    BY <1>5
  <2>2. Append(s, f)[a + 1] = f /\ \A i \in 1 .. a : Append(s, f)[i] = s[i]
    BY <1>5
  <2>3. \A i \in 1 .. a + 1 : i = a + 1 \/ i \in 1 .. a
    BY <1>1
  <2>4. \A i \in 1 .. a + 1 : Append(s, f)[i] = t[i]
    BY <2>2, <2>3, <1>7, <1>8
  <2> QED
    BY <2>1, <2>4, <1>6
<1> QED
  BY <1>4, <1>9 DEF s, t

(***************************************************************************)
(* Sequences without repetition.                                           *)
(***************************************************************************)
LEMMA EntriesAppend ==
    ASSUME NEW s \in Seq(Frames), NEW f \in Frames
    PROVE  /\ Append(s, f) \in Seq(Frames)
           /\ Entries(Append(s, f)) = Entries(s) \cup {f}
           /\ Distinct(s) /\ f \notin Entries(s) => Distinct(Append(s, f))
<1> DEFINE t == Append(s, f)
           n == Len(s)
<1>1. /\ t \in Seq(Frames) /\ n \in Nat
      /\ DOMAIN s = 1 .. n /\ DOMAIN t = 1 .. n + 1
      /\ t[n + 1] = f /\ \A i \in 1 .. n : t[i] = s[i]
  OBVIOUS
<1> HIDE DEF t, n
<1>2. /\ n + 1 \in 1 .. n + 1
      /\ \A i \in 1 .. n + 1 : i \in 1 .. n \/ i = n + 1
      /\ \A i \in 1 .. n : i \in 1 .. n + 1
  BY <1>1
<1>3. Entries(t) = Entries(s) \cup {f}
  BY <1>1, <1>2 DEF Entries
<1>4. ASSUME Distinct(s), f \notin Entries(s)
      PROVE  Distinct(t)
  BY <1>1, <1>2, <1>4 DEF Distinct, Entries
<1> QED
  BY <1>1, <1>3, <1>4 DEF t

LEMMA EntriesTail ==
    ASSUME NEW s \in Seq(Frames), s # <<>>, Distinct(s)
    PROVE  /\ Head(s) \in Frames /\ Tail(s) \in Seq(Frames)
           /\ Entries(s) = Entries(Tail(s)) \cup {Head(s)}
           /\ Distinct(Tail(s)) /\ Head(s) \notin Entries(Tail(s))
<1> DEFINE t == Tail(s)
           n == Len(s)
<1>1. /\ t \in Seq(Frames) /\ n \in Nat \ {0} /\ Head(s) = s[1] /\ Head(s) \in Frames
      /\ DOMAIN s = 1 .. n /\ DOMAIN t = 1 .. n - 1
      /\ \A i \in 1 .. n - 1 : t[i] = s[i + 1]
  OBVIOUS
<1> HIDE DEF t, n
<1>2. /\ 1 \in 1 .. n
      /\ \A i \in 1 .. n - 1 : i + 1 \in 1 .. n /\ i + 1 # 1
      /\ \A i, j \in 1 .. n - 1 : i + 1 = j + 1 => i = j
      /\ \A i \in 1 .. n : i = 1 \/ \E j \in 1 .. n - 1 : i = j + 1
  <2>1. ASSUME NEW i \in 1 .. n, i # 1
        PROVE  \E j \in 1 .. n - 1 : i = j + 1
    <3>1. i - 1 \in 1 .. n - 1 /\ i = (i - 1) + 1
      BY <2>1, <1>1
    <3> QED
      BY <3>1
  <2> QED
    BY <2>1, <1>1
<1>3. Entries(s) = Entries(t) \cup {Head(s)}
  <2>1. ASSUME NEW i \in 1 .. n
        PROVE  s[i] \in Entries(t) \cup {Head(s)}
    <3>1. CASE i = 1
      BY <3>1, <1>1
    <3>2. CASE i # 1
      <4>1. PICK j \in 1 .. n - 1 : i = j + 1
        BY <3>2, <1>2
      <4>2. s[i] = t[j]
        BY <4>1, <1>1
      <4> QED
        BY <4>2, <1>1 DEF Entries
    <3> QED
      BY <3>1, <3>2
  <2>2. ASSUME NEW i \in 1 .. n - 1
        PROVE  t[i] \in Entries(s)
    BY <1>1, <1>2 DEF Entries
  <2>3. Head(s) \in Entries(s)
    BY <1>1, <1>2 DEF Entries
  <2> QED
    BY <2>1, <2>2, <2>3, <1>1 DEF Entries
<1>4. Distinct(t)
  <2> SUFFICES ASSUME NEW i \in 1 .. n - 1, NEW j \in 1 .. n - 1, t[i] = t[j]
               PROVE  i = j
    BY <1>1 DEF Distinct
  <2>1. s[i + 1] = s[j + 1] /\ i + 1 \in DOMAIN s /\ j + 1 \in DOMAIN s
    BY <1>1, <1>2
  <2>2. i + 1 = j + 1
    BY <2>1 DEF Distinct
  <2> QED
    BY <2>2, <1>2
<1>5. Head(s) \notin Entries(t)
  <2>1. ASSUME NEW i \in 1 .. n - 1
        PROVE  t[i] # Head(s)
    <3>1. t[i] = s[i + 1] /\ i + 1 \in DOMAIN s /\ 1 \in DOMAIN s /\ i + 1 # 1
      BY <1>1, <1>2
    <3> QED
      BY <3>1, <1>1 DEF Distinct
  <2> QED
    BY <2>1, <1>1 DEF Entries
<1> QED
  BY <1>1, <1>3, <1>4, <1>5 DEF t

LEMMA EntriesConcat ==
    ASSUME NEW s \in Seq(Frames), NEW t \in Seq(Frames), Distinct(s \o t)
    PROVE  /\ Distinct(t) /\ Entries(s) \cap Entries(t) = {}
           /\ Entries(s) \subseteq Entries(s \o t) /\ Entries(t) \subseteq Entries(s \o t)
<1> DEFINE r == s \o t
           n == Len(s)
           m == Len(t)
<1>1. /\ n \in Nat /\ m \in Nat
      /\ DOMAIN s = 1 .. n /\ DOMAIN t = 1 .. m /\ DOMAIN r = 1 .. n + m
  OBVIOUS
<1>2. \A i \in 1 .. n : r[i] = s[i]
  OBVIOUS
<1>3. \A i \in 1 .. m : r[n + i] = t[i]
  OBVIOUS
<1> HIDE DEF r, n, m
<1>4. /\ \A i \in 1 .. n : i \in 1 .. n + m
      /\ \A i \in 1 .. m : n + i \in 1 .. n + m
      /\ \A i, j \in 1 .. m : n + i = n + j => i = j
      /\ \A i \in 1 .. n, j \in 1 .. m : i # n + j
  BY <1>1
<1>5. Distinct(r)
  BY DEF r
<1>6. Distinct(t)
  <2> SUFFICES ASSUME NEW i \in 1 .. m, NEW j \in 1 .. m, t[i] = t[j]
               PROVE  i = j
    BY <1>1 DEF Distinct
  <2>1. r[n + i] = r[n + j] /\ n + i \in DOMAIN r /\ n + j \in DOMAIN r
    BY <1>1, <1>3, <1>4
  <2>2. n + i = n + j
    BY <2>1, <1>5 DEF Distinct
  <2> QED
    BY <2>2, <1>4
<1>7. Entries(s) \cap Entries(t) = {}
  <2> SUFFICES ASSUME NEW i \in 1 .. n, NEW j \in 1 .. m, s[i] = t[j]
               PROVE  FALSE
    BY <1>1 DEF Entries
  <2>1. i \in DOMAIN r /\ n + j \in DOMAIN r /\ r[i] = r[n + j]
    BY <1>1, <1>2, <1>3, <1>4
  <2>2. i = n + j
    BY <2>1, <1>5 DEF Distinct
  <2> QED
    BY <2>2, <1>4
<1>8. Entries(s) \subseteq Entries(r) /\ Entries(t) \subseteq Entries(r)
  <2>1. \A i \in DOMAIN s : i \in DOMAIN r /\ r[i] = s[i]
    BY <1>1, <1>2, <1>4
  <2>2. \A i \in DOMAIN t : n + i \in DOMAIN r /\ r[n + i] = t[i]
    BY <1>1, <1>3, <1>4
  <2>3. Entries(s) \subseteq Entries(r)
    BY <2>1 DEF Entries
  <2>4. Entries(t) \subseteq Entries(r)
    BY <2>2 DEF Entries
  <2> QED
    BY <2>3, <2>4
<1> QED
  BY <1>6, <1>7, <1>8 DEF r

(***************************************************************************)
(* What the invariant says of the rings' contents.                         *)
(***************************************************************************)
\* Of a ring to produce into: the submitted entries are a run from the consumer
\* on, and the written ones follow it.
LEMMA ProdShape ==
    ASSUME NEW p, NEW r, NEW a \in Nat, NEW free \in Nat, ProdAt(p, r, a, free)
    PROVE  /\ Between(p.ring, p.consumer, p.producer) = Run(p.ring, p.consumer, a)
           /\ Minus(p.producer, p.consumer) = a
           /\ p.ring \in [0 .. Size - 1 -> Frames] /\ p.consumer \in Index /\ p.producer \in Index
           /\ r.n \in Nat /\ r.done \in Nat /\ a + r.n <= Size /\ r.done <= r.n
<1>1. /\ p.ring \in [0 .. Size - 1 -> Frames] /\ p.consumer \in Index /\ p.producer \in Index
      /\ r.n \in Nat /\ r.done \in Nat /\ r.done <= r.n
      /\ a + r.n + free <= Size /\ p.producer = Plus(p.consumer, a)
  BY DEF ProdAt, RingType, Handle
<1>2. a \in 0 .. Size /\ a + r.n <= Size /\ a \in Index
  BY <1>1, WidthFits DEF Index
<1>3. Minus(p.producer, p.consumer) = a
  BY <1>1, <1>2, MinusPlus
<1>4. Between(p.ring, p.consumer, p.producer) = Run(p.ring, p.consumer, a)
  BY <1>1, <1>2, BetweenIsRun
<1> QED
  BY <1>1, <1>2, <1>3, <1>4

\* Of a ring to consume from: what is not read is a run from the first entry
\* that is not.
UnreadOf(p, r) == Between(p.ring, IF r.n = 0 THEN p.cached_cons ELSE Plus(r.idx, r.done), p.producer)

LEMMA ConsShape ==
    ASSUME NEW p, NEW r, NEW u \in Nat, NEW v \in Nat, ConsAt(p, r, u, v)
    PROVE  /\ UnreadOf(p, r) = Run(p.ring, Plus(p.consumer, r.done), (r.n - r.done) + u)
           /\ (r.n - r.done) + u \in 0 .. Size /\ Plus(p.consumer, r.done) \in Index
           /\ p.ring \in [0 .. Size - 1 -> Frames] /\ p.consumer \in Index
           /\ r.n \in Nat /\ r.done \in Nat /\ r.n + u <= Size /\ r.done <= r.n
<1>1. /\ p.ring \in [0 .. Size - 1 -> Frames] /\ p.consumer \in Index
      /\ r.n \in Nat /\ r.done \in Nat /\ r.done <= r.n /\ r.n + u <= Size
      /\ p.producer = Plus(p.consumer, r.n + u) /\ p.cached_cons = Plus(p.consumer, r.n)
      /\ r.n > 0 => r.idx = p.consumer
  BY DEF ConsAt, RingType, Handle
<1> DEFINE c == p.consumer
           n == r.n
           k == r.done
           m == (n - k) + u
<1>2. /\ c \in Int /\ n \in Nat /\ k \in Nat /\ k <= n /\ n + u <= Size
      /\ m \in 0 .. Size /\ k + m = n + u /\ m \in Int
  BY <1>1, WidthFits DEF Index
<1>3. (IF r.n = 0 THEN p.cached_cons ELSE Plus(r.idx, r.done)) = Plus(c, k)
  BY <1>1, <1>2
<1>4. Plus(c, k) \in Index
  <2> HIDE DEF c, k
  <2> QED
    BY <1>2, PlusType
<1>5. p.producer = Plus(Plus(c, k), m)
  <2>1. p.producer = Plus(c, n + u)
    BY <1>1
  <2> HIDE DEF c, k, m, n
  <2>2. Plus(Plus(c, k), m) = Plus(c, k + m)
    BY <1>2, PlusPlus
  <2> QED
    BY <1>2, <2>1, <2>2
<1>6. UnreadOf(p, r) = Run(p.ring, Plus(c, k), m)
  <2> DEFINE d == Plus(c, k)
  <2>1. UnreadOf(p, r) = Between(p.ring, d, Plus(d, m))
    BY <1>3, <1>5 DEF UnreadOf
  <2> HIDE DEF d, m
  <2>2. Between(p.ring, d, Plus(d, m)) = Run(p.ring, d, m)
    BY <1>2, <1>4, BetweenIsRun DEF d
  <2> QED
    BY <2>1, <2>2 DEF d
<1> QED
  BY <1>1, <1>2, <1>4, <1>6

(***************************************************************************)
(* The steps: each keeps the invariant, and is a step of the queues or     *)
(* changes nothing they see.                                               *)
(***************************************************************************)
QueueStep == [Queues!QNext]_(Queues!qvars)

\* A step that leaves both queues and the kernel's frames alone.
LEMMA Unseen ==
    ASSUME Sent' = Sent, Unread' = Unread, kernel' = kernel
    PROVE  QueueStep
  BY DEF QueueStep, Queues!qvars

LEMMA ReserveStep ==
    ASSUME RingInv, NEW nb \in 1 .. MaxBatch, Reserve(nb)
    PROVE  RingInv' /\ QueueStep
<1>1. PICK a \in Nat, free \in Nat : ProdAt(prod, reserved, a, free)
  BY DEF RingInv
<1>2. /\ prod.ring \in [0 .. Size - 1 -> Frames] /\ prod.consumer \in Index
      /\ Sent = Run(prod.ring, prod.consumer, a)
      /\ Minus(prod.producer, prod.consumer) = a
  BY <1>1, ProdShape DEF Sent
<1>3. /\ reserved.n = 0 /\ reserved.done = 0 /\ a + free <= Size
      /\ prod.producer = Plus(prod.consumer, a)
      /\ prod.cached_prod = Plus(prod.consumer, a)
      /\ prod.cached_cons = Plus(prod.consumer, a + free)
      /\ prod \in RingType /\ reserved \in Handle
  <2>1. reserved.n = 0
    BY DEF Reserve
  <2> QED
    BY <1>1, <2>1 DEF ProdAt, Handle
<1>4. nb \in Nat \ {0} /\ cons' = cons /\ mine' = mine /\ peeked' = peeked /\ kernel' = kernel
  BY RingAssumption DEF Reserve
<1>5. Minus(prod.cached_cons, prod.cached_prod) = free
  <2> DEFINE b == a + free
  <2>1. b \in Nat /\ a <= b /\ b <= Size /\ b - a = free
    BY <1>3, WidthFits
  <2> HIDE DEF b
  <2>2. Minus(Plus(prod.consumer, b), Plus(prod.consumer, a)) = b - a
    BY <1>2, <2>1, Distance
  <2> QED
    BY <2>1, <2>2, <1>3 DEF b
<1> DEFINE r == NbFree(prod, nb)
\* What is known to be free afterwards, read again or not.
<1>6. PICK g \in Nat :
         /\ r.n = g /\ a + g <= Size
         /\ r.ring = [prod EXCEPT !.cached_cons = Plus(prod.consumer, a + g)]
  <2>1. CASE free >= nb
    <3>1. r = [ring |-> prod, n |-> free]
      BY <2>1, <1>5 DEF NbFree
    <3>2. prod = [prod EXCEPT !.cached_cons = Plus(prod.consumer, a + free)]
      BY <1>3 DEF RingType
    <3> QED
      BY <3>1, <3>2, <1>3
  <2>2. CASE ~(free >= nb)
    <3> DEFINE fresh == Plus(prod.consumer, Size)
    <3>1. r = [ring |-> [prod EXCEPT !.cached_cons = fresh], n |-> Minus(fresh, prod.cached_prod)]
      BY <2>2, <1>5 DEF NbFree
    <3>2. a \in Nat /\ a <= Size /\ Size \in Nat
      BY <1>3, WidthFits
    <3>3. Minus(fresh, prod.cached_prod) = Size - a
      <4>1. Minus(Plus(prod.consumer, Size), Plus(prod.consumer, a)) = Size - a
        BY <1>2, <3>2, Distance
      <4> QED
        BY <4>1, <1>3
    <3>4. Size - a \in Nat /\ a + (Size - a) = Size
      BY <3>2
    <3> QED
      BY <3>1, <3>3, <3>4
  <2> QED
    BY <2>1, <2>2
<1> DEFINE c == prod.consumer
<1>7. /\ prod'.ring = prod.ring /\ prod'.consumer = prod.consumer
      /\ prod'.producer = prod.producer /\ reserved'.done = 0
      /\ \E e \in Nat : ProdAt(prod', reserved', a, e)
  <2>1. c \in Int /\ a \in Int /\ a + g \in Int /\ nb \in Int
    BY <1>2, <1>4, <1>6, WidthFits DEF Index
  <2>2. Plus(c, a + g) \in Index
    <3> DEFINE m == a + g
    <3> HIDE DEF m, c
    <3>1. Plus(c, m) \in Index
      BY <2>1, PlusType DEF m
    <3> QED
      BY <3>1 DEF m
  <2>3. CASE r.n < nb
    <3>1. prod' = r.ring /\ reserved' = reserved
      BY <2>3 DEF Reserve
    <3> HIDE DEF r, c
    <3>2. prod' = [prod EXCEPT !.cached_cons = Plus(c, a + g)]
      BY <3>1, <1>6 DEF c
    <3>3. /\ prod' \in RingType /\ prod'.ring = prod.ring /\ prod'.consumer = prod.consumer
          /\ prod'.producer = prod.producer /\ prod'.cached_prod = prod.cached_prod
          /\ prod'.cached_cons = Plus(c, a + g)
      BY <3>2, <2>2, <1>3 DEF RingType
    <3>4. a + 0 = a /\ a + 0 + g = a + g
      BY <1>6
    <3>5. ProdAt(prod', reserved', a, g)
      BY <3>1, <3>3, <3>4, <1>3, <1>6 DEF ProdAt, c
    <3> QED
      BY <3>1, <3>3, <3>5, <1>3
  <2>4. CASE ~(r.n < nb)
    <3>1. /\ reserved' = [idx |-> prod.cached_prod, n |-> nb, done |-> 0]
          /\ prod' = [r.ring EXCEPT !.cached_prod = Plus(@, nb)]
      BY <2>4 DEF Reserve
    <3>2. g >= nb
      BY <2>4, <1>4, <1>6
    <3> HIDE DEF r, c
    <3>3. Plus(prod.cached_prod, nb) = Plus(c, a + nb)
      <4>1. Plus(Plus(c, a), nb) = Plus(c, a + nb)
        BY <2>1, PlusPlus
      <4> QED
        BY <4>1, <1>3 DEF c
    <3>4. Plus(c, a + nb) \in Index
      <4> DEFINE m == a + nb
      <4>1. m \in Int
        BY <2>1
      <4> HIDE DEF m
      <4>2. Plus(c, m) \in Index
        BY <2>1, <4>1, PlusType
      <4> QED
        BY <4>2 DEF m
    <3>5. prod' = [prod EXCEPT !.cached_cons = Plus(c, a + g), !.cached_prod = Plus(c, a + nb)]
      BY <3>1, <3>3, <1>3, <1>6 DEF c, RingType
    <3>6. /\ prod' \in RingType /\ prod'.ring = prod.ring /\ prod'.consumer = prod.consumer
          /\ prod'.producer = prod.producer /\ prod'.cached_prod = Plus(c, a + nb)
          /\ prod'.cached_cons = Plus(c, a + g)
      BY <3>4, <3>5, <2>2, <1>3 DEF RingType
    <3>7. g - nb \in Nat /\ a + nb + (g - nb) = a + g
      BY <3>2, <1>4, <1>6
    <3>8. reserved' \in Handle /\ reserved'.n = nb /\ reserved'.done = 0 /\ reserved'.idx = prod.producer
      BY <3>1, <1>3, <1>4 DEF Handle, RingType
    <3>9. ProdAt(prod', reserved', a, g - nb)
      BY <3>6, <3>7, <3>8, <1>3, <1>4, <1>6 DEF ProdAt, c
    <3> QED
      BY <3>6, <3>7, <3>8, <3>9
  <2> QED
    BY <2>3, <2>4
<1>8. Sent' = Sent /\ Filled' = Filled
  BY <1>3, <1>7 DEF Sent, Filled
<1>9. Unread' = Unread
  BY <1>4 DEF Unread
<1>10. Apart(mine, Filled, kernel, Unread)'
  BY <1>4, <1>8, <1>9 DEF RingInv
<1> QED
  BY <1>4, <1>7, <1>8, <1>9, <1>10, Unseen DEF RingInv

LEMMA WriteStep ==
    ASSUME RingInv, NEW f \in Frames, Write(f)
    PROVE  RingInv' /\ QueueStep
<1>1. PICK a \in Nat, free \in Nat : ProdAt(prod, reserved, a, free)
  BY DEF RingInv
<1> DEFINE c == prod.consumer
           k == reserved.done
<1>2. /\ prod.ring \in [0 .. Size - 1 -> Frames] /\ c \in Index
      /\ Sent = Run(prod.ring, c, a)
      /\ Minus(prod.producer, c) = a
      /\ reserved.n \in Nat /\ k \in Nat /\ a + reserved.n <= Size
  BY <1>1, ProdShape DEF Sent
<1>3. /\ k < reserved.n /\ f \in mine
      /\ reserved' = [reserved EXCEPT !.done = @ + 1]
      /\ mine' = mine \ {f}
      /\ cons' = cons /\ peeked' = peeked /\ kernel' = kernel
  BY DEF Write
<1>4. a + k \in 0 .. Size - 1 /\ c \in Int /\ a \in 0 .. a + k
  <2> DEFINE n == reserved.n
  <2>1. n \in Nat /\ k \in Nat /\ k < n /\ a + n <= Size
    BY <1>2, <1>3
  <2>2. c \in Int
    BY <1>2, IndexIsInt
  <2> HIDE DEF n, k
  <2>3. a + k \in 0 .. Size - 1 /\ a \in 0 .. a + k
    BY <2>1, WidthFits
  <2> QED
    BY <2>2, <2>3
<1>5. Plus(reserved.idx, k) = Plus(c, a + k)
  <2>1. reserved.idx = Plus(c, a)
    BY <1>1, <1>2, <1>3 DEF ProdAt
  <2>2. a \in Int /\ k \in Int
    BY <1>2
  <2> HIDE DEF c, k
  <2>3. Plus(Plus(c, a), k) = Plus(c, a + k)
    BY <2>2, <1>4, PlusPlus
  <2> QED
    BY <2>1, <2>3
<1> DEFINE new == [prod.ring EXCEPT ![Slot(Plus(c, a + k))] = f]
<1>6. prod' = [prod EXCEPT !.ring = new]
  BY <1>1, <1>5 DEF Write, ProdAt, RingType
<1>7. /\ new \in [0 .. Size - 1 -> Frames]
      /\ Run(new, c, (a + k) + 1) = Append(Run(prod.ring, c, a + k), f)
      /\ Run(new, c, a) = Run(prod.ring, c, a)
  <2> DEFINE m == a + k
             ring == prod.ring
             p == Slot(Plus(c, m))
  <2>1. m \in 0 .. Size - 1 /\ a \in 0 .. m /\ ring \in [0 .. Size - 1 -> Frames] /\ c \in Index
    BY <1>2, <1>4
  <2>2. p \in 0 .. Size - 1
    <3> DEFINE x == Plus(c, m)
    <3>1. m \in Int
      BY <1>2
    <3>2. x \in Index
      <4> HIDE DEF c, m
      <4> QED
        BY <3>1, <1>4, PlusType
    <3>3. x \in Int
      <4> HIDE DEF x
      <4> QED
        BY <3>2, WidthFits DEF Index
    <3> HIDE DEF x
    <3>4. x % Size \in 0 .. Size - 1
      BY <3>3, WidthFits, ModType
    <3> QED
      BY <3>4 DEF Slot, x
  <2>3. new = [ring EXCEPT ![p] = f]
    OBVIOUS
  <2> HIDE DEF ring, new, p
  <2>4. /\ new \in [0 .. Size - 1 -> Frames] /\ new[p] = f
        /\ \A i \in 0 .. Size - 1 : i # p => new[i] = ring[i]
    BY <2>1, <2>2, <2>3
  <2> HIDE DEF m, c
  <2>5. /\ Run(new, c, m + 1) = Append(Run(ring, c, m), f)
        /\ \A l \in 0 .. m : Run(new, c, l) = Run(ring, c, l)
    <3>1. Stores(new, ring, c, m, f)
      BY <2>1, <2>4 DEF p, Stores
    <3> QED
      BY <3>1, RunStore
  <2> QED
    BY <2>1, <2>4, <2>5 DEF m, ring
<1> HIDE DEF new
<1>8. /\ prod' \in RingType /\ prod'.ring = new /\ prod'.consumer = prod.consumer
      /\ prod'.producer = prod.producer /\ prod'.cached_prod = prod.cached_prod
      /\ prod'.cached_cons = prod.cached_cons
  BY <1>1, <1>6, <1>7 DEF ProdAt, RingType
<1>9. /\ reserved' \in Handle /\ reserved'.n = reserved.n /\ reserved'.idx = reserved.idx
      /\ reserved'.done = k + 1
  BY <1>1, <1>3 DEF ProdAt, Handle
<1>10. ProdAt(prod', reserved', a, free)
  <2>1. k + 1 <= reserved.n
    BY <1>2, <1>3
  <2> QED
    BY <2>1, <1>1, <1>8, <1>9 DEF ProdAt
<1>11. Sent' = Sent
  <2>1. Sent' = Run(prod'.ring, prod'.consumer, a)
    BY <1>10, ProdShape DEF Sent
  <2> QED
    BY <2>1, <1>2, <1>7, <1>8
<1>12. Filled' = Append(Filled, f)
  <2>1. Filled = Run(prod.ring, c, a + k)
    BY <1>2 DEF Filled
  <2>2. Filled' = Run(new, c, a + (k + 1))
    BY <1>2, <1>8, <1>9 DEF Filled
  <2>3. a + (k + 1) = (a + k) + 1
    BY <1>2
  <2> QED
    BY <2>1, <2>2, <2>3, <1>7
<1>13. Unread' = Unread
  BY <1>3 DEF Unread
<1>14. Apart(mine', Filled', kernel', Unread')
  <2>1. Apart(mine, Filled, kernel, Unread)
    BY DEF RingInv
  <2>2. Filled \in Seq(Frames) /\ Distinct(Filled) /\ f \notin Entries(Filled)
    BY <2>1, <1>3 DEF Apart
  <2>3. /\ Filled' \in Seq(Frames) /\ Entries(Filled') = Entries(Filled) \cup {f}
        /\ Distinct(Filled')
    BY <2>2, <1>12, EntriesAppend
  <2> QED
    BY <2>1, <2>3, <1>3, <1>13 DEF Apart
<1> QED
  BY <1>3, <1>10, <1>11, <1>13, <1>14, Unseen DEF RingInv

LEMMA SubmitStep ==
    ASSUME RingInv, Submit
    PROVE  RingInv' /\ QueueStep
<1>1. PICK a \in Nat, free \in Nat : ProdAt(prod, reserved, a, free)
  BY DEF RingInv
<1> DEFINE c == prod.consumer
           n == reserved.n
<1>2. /\ prod.ring \in [0 .. Size - 1 -> Frames] /\ c \in Index
      /\ Sent = Run(prod.ring, c, a)
      /\ Minus(prod.producer, c) = a
      /\ n \in Nat /\ a + n <= Size
  BY <1>1, ProdShape DEF Sent
<1>3. /\ n > 0 /\ reserved.done = n
      /\ prod' = [prod EXCEPT !.producer = Plus(@, n)]
      /\ reserved' = Nowhere
      /\ cons' = cons /\ mine' = mine /\ peeked' = peeked /\ kernel' = kernel
  BY DEF Submit
<1>4. c \in Int /\ a + n \in 0 .. Size /\ 0 \in Index
  BY <1>2, WidthFits DEF Index
<1>5. Plus(prod.producer, n) = Plus(c, a + n) /\ Plus(c, a + n) \in Index
  <2>1. prod.producer = Plus(c, a)
    BY <1>1 DEF ProdAt
  <2> HIDE DEF c, n
  <2>2. Plus(Plus(c, a), n) = Plus(c, a + n)
    BY <1>2, <1>4, PlusPlus
  <2> DEFINE m == a + n
  <2>3. m \in Int
    BY <1>2
  <2> HIDE DEF m
  <2>4. Plus(c, m) \in Index
    BY <1>4, <2>3, PlusType
  <2> QED
    BY <2>1, <2>2, <2>4 DEF m
<1>6. /\ prod' \in RingType /\ prod'.ring = prod.ring /\ prod'.consumer = prod.consumer
      /\ prod'.producer = Plus(c, a + n) /\ prod'.cached_prod = prod.cached_prod
      /\ prod'.cached_cons = prod.cached_cons
  BY <1>1, <1>3, <1>5 DEF ProdAt, RingType
<1>7. reserved' \in Handle /\ reserved'.n = 0 /\ reserved'.done = 0
  BY <1>3, <1>4 DEF Handle, Nowhere
<1>8. ProdAt(prod', reserved', a + n, free)
  <2>1. /\ prod.cached_prod = Plus(c, a + n) /\ prod.cached_cons = Plus(c, a + n + free)
        /\ a + n + free <= Size
    BY <1>1 DEF ProdAt
  <2>2. a + n + 0 = a + n /\ a + n + 0 + free = a + n + free
    BY <1>2
  <2> QED
    BY <2>1, <2>2, <1>6, <1>7 DEF ProdAt
<1>9. a + n \in Nat
  BY <1>2
<1>10. Sent' = Run(prod.ring, c, a + n) /\ Minus(prod'.producer, prod'.consumer) = a + n
  <2> DEFINE m == a + n
  <2>1. m \in Nat /\ ProdAt(prod', reserved', m, free)
    BY <1>8, <1>9
  <2> HIDE DEF m
  <2>2. Sent' = Run(prod'.ring, prod'.consumer, m) /\ Minus(prod'.producer, prod'.consumer) = m
    BY <2>1, ProdShape DEF Sent
  <2> QED
    BY <2>2, <1>6 DEF m
<1> DEFINE batch == Run(prod.ring, Plus(c, a), n)
<1>11. Sent' = Sent \o batch
  <2> HIDE DEF c, n
  <2> QED
    BY <1>2, <1>10, RunSplit
<1>12. Filled = Sent' /\ Filled' = Sent'
  <2>1. Filled = Run(prod.ring, c, a + n)
    BY <1>2, <1>3 DEF Filled
  <2>2. Filled' = Run(prod.ring, c, (a + n) + 0)
    BY <1>6, <1>7, <1>10 DEF Filled
  <2>3. (a + n) + 0 = a + n
    BY <1>9
  <2> QED
    BY <2>1, <2>2, <2>3, <1>10
<1>13. Unread' = Unread
  BY <1>3 DEF Unread
<1>14. RingInv'
  <2>1. Apart(mine, Filled, kernel, Unread)'
    BY <1>3, <1>12, <1>13 DEF RingInv
  <2> HIDE DEF c, n
  <2> QED
    BY <2>1, <1>3, <1>8, <1>9 DEF RingInv
<1>15. Queues!Submit
  <2>1. /\ Sent \in Seq(Frames) /\ Len(Sent) = a
    <3>1. c \in Int
      BY <1>4
    <3> HIDE DEF c
    <3> QED
      BY <3>1, <1>2, RunType
  <2>2. /\ batch \in Seq(Frames) /\ Len(batch) = n /\ DOMAIN batch = 1 .. n
    <3> DEFINE d == Plus(c, a)
    <3>1. d \in Int
      <4>1. a \in Int
        OBVIOUS
      <4>2. d \in Index
        <5> HIDE DEF c
        <5> QED
          BY <4>1, <1>4, PlusType
      <4> HIDE DEF d
      <4> QED
        BY <4>2, WidthFits DEF Index
    <3> HIDE DEF d, n
    <3>2. /\ Run(prod.ring, d, n) \in Seq(Frames) /\ Len(Run(prod.ring, d, n)) = n
          /\ DOMAIN Run(prod.ring, d, n) = 1 .. n
      BY <3>1, <1>2, RunType
    <3> QED
      BY <3>2 DEF d
  <2> HIDE DEF batch
  <2>3. Apart(mine, Sent \o batch, kernel, Unread)
    BY <1>11, <1>12 DEF RingInv
  <2>4. /\ Distinct(batch) /\ Entries(Sent) \cap Entries(batch) = {}
        /\ Entries(batch) \subseteq Entries(Sent \o batch)
    BY <2>1, <2>2, <2>3, EntriesConcat DEF Apart
  <2>5. Entries(batch) \cap Queues!Away = {}
    BY <2>3, <2>4 DEF Apart, Entries, Queues!Away, Queues!Places
  <2>6. batch \in [1 .. n -> Frames \ Queues!Away]
    <3>1. \A i \in 1 .. n : batch[i] \in Frames /\ batch[i] \in Entries(batch)
      BY <2>2 DEF Entries
    <3>2. \A i \in 1 .. n : batch[i] \in Frames \ Queues!Away
      BY <3>1, <2>5
    <3> HIDE DEF n
    <3> QED
      BY <3>2, <2>2
  <2>7. \A i, j \in 1 .. n : batch[i] = batch[j] => i = j
    BY <2>2, <2>4 DEF Distinct
  <2>8. n \in 1 .. Size - Len(Sent)
    BY <2>1, <1>2, <1>3, WidthFits
  <2> HIDE DEF n
  <2> QED
    BY <2>6, <2>7, <2>8, <1>3, <1>11, <1>13 DEF Queues!Submit
<1> QED
  BY <1>14, <1>15 DEF QueueStep, Queues!QNext

LEMMA TakeStep ==
    ASSUME RingInv, KernelTake
    PROVE  RingInv' /\ QueueStep
<1>1. PICK a \in Nat, free \in Nat : ProdAt(prod, reserved, a, free)
  BY DEF RingInv
<1> DEFINE c == prod.consumer
           k == reserved.done
           n == reserved.n
           e == Plus(c, 1)
<1>2. /\ prod.ring \in [0 .. Size - 1 -> Frames] /\ c \in Index
      /\ Sent = Run(prod.ring, c, a)
      /\ Minus(prod.producer, c) = a
      /\ n \in Nat /\ k \in Nat /\ a + n <= Size /\ k <= n
  BY <1>1, ProdShape DEF Sent
<1>3. /\ prod.producer # c
      /\ kernel' = kernel \cup {prod.ring[Slot(c)]}
      /\ prod' = [prod EXCEPT !.consumer = e]
      /\ cons' = cons /\ mine' = mine /\ reserved' = reserved /\ peeked' = peeked
  BY DEF KernelTake
<1>4. c \in Int /\ e \in Index
  <2>1. c \in Int
    BY <1>2, IndexIsInt
  <2> HIDE DEF c
  <2> QED
    BY <2>1, PlusType
<1>5. a # 0
  <2>1. ASSUME a = 0 PROVE FALSE
    <3>1. prod.producer = Plus(c, 0)
      BY <1>1, <2>1 DEF ProdAt
    <3> QED
      BY <3>1, <1>2, <1>3, PlusZero
  <2> QED
    BY <2>1
<1>6. \A m \in Nat : Plus(c, m) = Plus(e, m - 1)
  <2> TAKE m \in Nat
  <2> DEFINE l == m - 1
  <2>1. l \in Int /\ 1 + l = m
    OBVIOUS
  <2> HIDE DEF l, c
  <2>2. Plus(Plus(c, 1), l) = Plus(c, 1 + l)
    BY <2>1, <1>4, PlusPlus
  <2> QED
    BY <2>1, <2>2 DEF l
<1>7. /\ prod' \in RingType /\ prod'.ring = prod.ring /\ prod'.consumer = e
      /\ prod'.producer = prod.producer /\ prod'.cached_prod = prod.cached_prod
      /\ prod'.cached_cons = prod.cached_cons
  <2> HIDE DEF e
  <2> QED
    BY <1>1, <1>3, <1>4 DEF ProdAt, RingType
<1>8. a - 1 \in Nat /\ ProdAt(prod', reserved', a - 1, free)
  <2>1. /\ prod.producer = Plus(c, a) /\ prod.cached_prod = Plus(c, a + n)
        /\ prod.cached_cons = Plus(c, a + n + free) /\ a + n + free <= Size
    BY <1>1 DEF ProdAt
  <2> HIDE DEF c, e, n
  <2>2. /\ a + n \in Nat /\ a + n + free \in Nat /\ a - 1 \in Nat
        /\ (a + n) - 1 = (a - 1) + n /\ (a + n + free) - 1 = (a - 1) + n + free
        /\ (a - 1) + n + free <= Size
    <3>1. n \in Nat /\ Size \in Nat /\ a + n + free <= Size
      BY <2>1, <1>2, WidthFits
    <3> QED
      BY <3>1, <1>5
  <2>3. Plus(c, a) = Plus(e, a - 1)
    BY <1>6
  <2>4. Plus(c, a + n) = Plus(e, (a - 1) + n)
    BY <1>6, <2>2
  <2>5. Plus(c, a + n + free) = Plus(e, (a - 1) + n + free)
    BY <1>6, <2>2
  <2> QED
    BY <2>1, <2>2, <2>3, <2>4, <2>5, <1>1, <1>3, <1>7 DEF ProdAt, n
<1>9. Sent' = Run(prod.ring, e, a - 1) /\ Minus(prod'.producer, prod'.consumer) = a - 1
  <2> DEFINE m == a - 1
  <2>1. m \in Nat /\ ProdAt(prod', reserved', m, free)
    BY <1>8
  <2> HIDE DEF m, e
  <2>2. Sent' = Run(prod'.ring, prod'.consumer, m) /\ Minus(prod'.producer, prod'.consumer) = m
    BY <2>1, ProdShape DEF Sent
  <2> QED
    BY <2>2, <1>7 DEF m
<1>10. /\ Sent # <<>> /\ Head(Sent) = prod.ring[Slot(c)] /\ Sent' = Tail(Sent)
  <2> HIDE DEF c
  <2> QED
    BY <1>2, <1>5, <1>9, RunTail
<1>11. /\ Filled # <<>> /\ Head(Filled) = prod.ring[Slot(c)] /\ Filled' = Tail(Filled)
  <2> DEFINE m == a + k
  <2>1. m \in Nat \ {0} /\ (a - 1) + k = m - 1
    BY <1>2, <1>5
  <2>2. Filled = Run(prod.ring, c, m)
    BY <1>2 DEF Filled
  <2>3. Filled' = Run(prod.ring, e, (a - 1) + k)
    BY <1>3, <1>7, <1>9 DEF Filled
  <2> HIDE DEF m, c
  <2>4. /\ Run(prod.ring, c, m) # <<>> /\ Head(Run(prod.ring, c, m)) = prod.ring[Slot(c)]
        /\ Tail(Run(prod.ring, c, m)) = Run(prod.ring, Plus(c, 1), m - 1)
    BY <2>1, <1>2, RunTail
  <2> QED
    BY <2>1, <2>2, <2>3, <2>4
<1>12. Unread' = Unread
  BY <1>3 DEF Unread
<1>13. Apart(mine', Filled', kernel', Unread')
  <2>1. Apart(mine, Filled, kernel, Unread)
    BY DEF RingInv
  <2> DEFINE f == prod.ring[Slot(c)]
  <2>2. /\ f \in Frames /\ Filled' \in Seq(Frames)
        /\ Entries(Filled) = Entries(Filled') \cup {f}
        /\ Distinct(Filled') /\ f \notin Entries(Filled')
    BY <2>1, <1>11, EntriesTail DEF Apart
  <2>3. kernel' = kernel \cup {f}
    BY <1>3
  <2> HIDE DEF f
  <2> QED
    BY <2>1, <2>2, <2>3, <1>3, <1>12 DEF Apart
<1>14. Queues!Take
  BY <1>3, <1>10, <1>12 DEF Queues!Take
<1>15. \E b \in Nat, g \in Nat : ProdAt(prod', reserved', b, g)
  BY <1>8
<1> QED
  BY <1>3, <1>13, <1>14, <1>15 DEF RingInv, QueueStep, Queues!QNext

LEMMA PeekStep ==
    ASSUME RingInv, NEW nb \in 1 .. MaxBatch, Peek(nb)
    PROVE  RingInv' /\ QueueStep
<1>1. PICK u \in Nat, v \in Nat : ConsAt(cons, peeked, u, v)
  BY DEF RingInv
<1> DEFINE c == cons.consumer
<1>2. /\ c \in Index /\ c \in Int
      /\ peeked.n = 0 /\ peeked.done = 0 /\ v <= u /\ u <= Size
      /\ cons.producer = Plus(c, u) /\ cons.cached_prod = Plus(c, v) /\ cons.cached_cons = c
      /\ cons \in RingType /\ peeked \in Handle
  <2>1. peeked.n = 0
    BY DEF Peek
  <2>2. c \in Index /\ c \in Int
    BY <1>1, WidthFits DEF ConsAt, RingType, Index
  <2>3. /\ peeked.done = 0 /\ v <= u /\ 0 + u <= Size
        /\ cons.producer = Plus(c, 0 + u) /\ cons.cached_prod = Plus(c, 0 + v)
        /\ cons.cached_cons = Plus(c, 0) /\ cons \in RingType /\ peeked \in Handle
    BY <1>1, <2>1 DEF ConsAt, Handle
  <2>4. 0 + u = u /\ 0 + v = v
    OBVIOUS
  <2> QED
    BY <2>1, <2>2, <2>3, <2>4, PlusZero
<1>3. nb \in Nat \ {0} /\ prod' = prod /\ mine' = mine /\ reserved' = reserved /\ kernel' = kernel
  BY RingAssumption DEF Peek
<1> DEFINE r == NbAvail(cons, nb)
           fresh == IF cons.cached_prod = cons.cached_cons THEN cons.producer ELSE cons.cached_prod
\* What is known to wait afterwards, read again or not.
<1>4. PICK w \in Nat : w <= u /\ fresh = Plus(c, w)
  BY <1>2
<1>5. Minus(fresh, cons.cached_cons) = w
  <2>1. w \in Index
    BY <1>2, <1>4, WidthFits DEF Index
  <2> HIDE DEF fresh, c
  <2> QED
    BY <2>1, <1>2, <1>4, MinusPlus
<1>6. r = [ring |-> [cons EXCEPT !.cached_prod = fresh], n |-> IF w > nb THEN nb ELSE w]
  BY <1>5 DEF NbAvail
<1> DEFINE n == r.n
<1>7. n \in Nat /\ n <= w /\ n <= u
  BY <1>2, <1>3, <1>4, <1>6
<1>8. fresh \in Index /\ Plus(c, n) \in Index
  <2>1. fresh \in Index
    BY <1>2 DEF RingType
  <2>2. n \in Int
    BY <1>7
  <2>3. Plus(c, n) \in Index
    <3> HIDE DEF c, n
    <3> QED
      BY <2>2, <1>2, PlusType
  <2> QED
    BY <2>1, <2>3
<1>9. /\ cons' \in RingType /\ cons'.ring = cons.ring /\ cons'.consumer = c
      /\ cons'.producer = cons.producer /\ cons'.cached_prod = fresh
      /\ cons'.cached_cons = Plus(c, n)
      /\ peeked' \in Handle /\ peeked'.n = n /\ peeked'.done = 0
      /\ n > 0 => peeked'.idx = c
  <2>1. r.ring = [cons EXCEPT !.cached_prod = fresh]
    BY <1>6
  <2>2. CASE n = 0
    <3>1. cons' = r.ring /\ peeked' = peeked
      BY <2>2 DEF Peek
    <3>2. Plus(c, n) = c
      BY <2>2, <1>2, PlusZero
    <3>3. cons' = [cons EXCEPT !.cached_prod = fresh]
      BY <2>1, <3>1
    <3> HIDE DEF r, n, fresh, c
    <3> QED
      BY <2>2, <3>1, <3>2, <3>3, <1>2, <1>8 DEF RingType, c
  <2>3. CASE n # 0
    <3>1. /\ peeked' = [idx |-> c, n |-> n, done |-> 0]
          /\ cons' = [r.ring EXCEPT !.cached_cons = Plus(@, n)]
      BY <2>3, <1>2 DEF Peek
    <3>2. cons' = [cons EXCEPT !.cached_prod = fresh, !.cached_cons = Plus(c, n)]
      <4> HIDE DEF r, n, fresh
      <4> QED
        BY <2>1, <3>1, <1>2 DEF RingType
    <3> HIDE DEF r, n, fresh, c
    <3> QED
      BY <3>1, <3>2, <1>2, <1>7, <1>8 DEF RingType, Handle, c
  <2> QED
    BY <2>2, <2>3
<1> HIDE DEF r, n, fresh
<1>10. u - n \in Nat /\ w - n \in Nat /\ ConsAt(cons', peeked', u - n, w - n)
  <2>1. /\ u - n \in Nat /\ w - n \in Nat /\ w - n <= u - n
        /\ n + (u - n) = u /\ n + (w - n) = w
    BY <1>4, <1>7
  <2> HIDE DEF c
  <2> QED
    BY <2>1, <1>2, <1>4, <1>7, <1>9 DEF ConsAt
<1>11. Unread' = Unread
  <2>1. Unread = Run(cons.ring, Plus(c, 0), (0 - 0) + u)
    BY <1>1, <1>2, ConsShape DEF Unread, UnreadOf
  <2> DEFINE x == u - n
             y == w - n
  <2>2. UnreadOf(cons', peeked') = Run(cons'.ring, Plus(cons'.consumer, peeked'.done), (peeked'.n - peeked'.done) + x)
    <3>1. x \in Nat /\ y \in Nat /\ ConsAt(cons', peeked', x, y)
      BY <1>10
    <3> HIDE DEF x, y
    <3> QED
      BY <3>1, ConsShape
  <2>3. Unread' = UnreadOf(cons', peeked')
    BY DEF Unread, UnreadOf
  <2>4. Unread' = Run(cons.ring, Plus(c, 0), (n - 0) + x)
    BY <2>2, <2>3, <1>9
  <2>5. (0 - 0) + u = u /\ (n - 0) + x = u
    BY <1>7
  <2> QED
    BY <2>1, <2>4, <2>5
<1>12. Sent' = Sent /\ Filled' = Filled
  BY <1>3 DEF Sent, Filled
<1>13. Apart(mine, Filled, kernel, Unread)'
  BY <1>3, <1>11, <1>12 DEF RingInv
<1>14. \E x \in Nat, y \in Nat : ConsAt(cons', peeked', x, y)
  BY <1>10
<1> QED
  BY <1>3, <1>11, <1>12, <1>13, <1>14, Unseen DEF RingInv

LEMMA ReadStep ==
    ASSUME RingInv, Read
    PROVE  RingInv' /\ QueueStep
<1>1. PICK u \in Nat, v \in Nat : ConsAt(cons, peeked, u, v)
  BY DEF RingInv
<1> DEFINE c == cons.consumer
           n == peeked.n
           k == peeked.done
           d == Plus(c, k)
           m == (n - k) + u
<1>2. /\ Unread = Run(cons.ring, d, m) /\ d \in Index
      /\ cons.ring \in [0 .. Size - 1 -> Frames] /\ c \in Index
      /\ n \in Nat /\ k \in Nat
  BY <1>1, ConsShape DEF Unread, UnreadOf
<1>3. /\ k < n /\ peeked.idx = c
      /\ mine' = mine \cup {cons.ring[Slot(d)]}
      /\ peeked' = [peeked EXCEPT !.done = @ + 1]
      /\ prod' = prod /\ cons' = cons /\ reserved' = reserved /\ kernel' = kernel
  <2>1. k < n
    BY DEF Read
  <2>2. n > 0 => peeked.idx = c
    BY <1>1 DEF ConsAt
  <2>3. n > 0
    <3>1. n \in Nat /\ k \in Nat
      BY <1>2
    <3> HIDE DEF n, k
    <3> QED
      BY <2>1, <3>1
  <2> QED
    BY <2>1, <2>2, <2>3 DEF Read
<1>4. m \in Nat \ {0} /\ c \in Int /\ (n - (k + 1)) + u = m - 1 /\ k + 1 <= n
  <2>1. c \in Int
    BY <1>2, IndexIsInt
  <2>2. n \in Nat /\ k \in Nat /\ k < n
    BY <1>2, <1>3
  <2> HIDE DEF n, k
  <2> QED
    BY <2>1, <2>2
<1>5. peeked' \in Handle /\ peeked'.n = n /\ peeked'.done = k + 1 /\ peeked'.idx = peeked.idx
  BY <1>1, <1>3 DEF ConsAt, Handle
<1>6. ConsAt(cons', peeked', u, v)
  BY <1>1, <1>3, <1>4, <1>5 DEF ConsAt
<1>7. Unread' = Run(cons.ring, Plus(c, k + 1), m - 1)
  <2>1. UnreadOf(cons', peeked') = Run(cons'.ring, Plus(cons'.consumer, peeked'.done), (peeked'.n - peeked'.done) + u)
    BY <1>6, ConsShape
  <2>2. Unread' = UnreadOf(cons', peeked')
    BY DEF Unread, UnreadOf
  <2> QED
    BY <2>1, <2>2, <1>3, <1>4, <1>5
<1>8. Plus(c, k + 1) = Plus(d, 1)
  <2>1. k \in Int
    BY <1>2
  <2> HIDE DEF c, k
  <2> QED
    BY <2>1, <1>4, PlusPlus
<1>9. Unread # <<>> /\ Head(Unread) = cons.ring[Slot(d)] /\ Unread' = Tail(Unread)
  <2>1. Unread' = Run(cons.ring, Plus(d, 1), m - 1)
    BY <1>7, <1>8
  <2> HIDE DEF d, m
  <2>2. /\ Run(cons.ring, d, m) # <<>> /\ Head(Run(cons.ring, d, m)) = cons.ring[Slot(d)]
        /\ Tail(Run(cons.ring, d, m)) = Run(cons.ring, Plus(d, 1), m - 1)
    BY <1>2, <1>4, RunTail
  <2> QED
    BY <2>1, <2>2, <1>2
<1>10. Sent' = Sent /\ Filled' = Filled
  BY <1>3 DEF Sent, Filled
<1>11. Apart(mine', Filled', kernel', Unread')
  <2>1. Apart(mine, Filled, kernel, Unread)
    BY DEF RingInv
  <2> DEFINE f == cons.ring[Slot(d)]
  <2>2. /\ f \in Frames /\ Unread' \in Seq(Frames)
        /\ Entries(Unread) = Entries(Unread') \cup {f}
        /\ Distinct(Unread') /\ f \notin Entries(Unread')
    <3>1. Unread \in Seq(Frames) /\ Distinct(Unread)
      BY <2>1 DEF Apart
    <3>2. /\ Head(Unread) \in Frames /\ Tail(Unread) \in Seq(Frames)
          /\ Entries(Unread) = Entries(Tail(Unread)) \cup {Head(Unread)}
          /\ Distinct(Tail(Unread)) /\ Head(Unread) \notin Entries(Tail(Unread))
      BY <3>1, <1>9, EntriesTail
    <3> HIDE DEF d
    <3> QED
      BY <3>2, <1>9
  <2>3. mine' = mine \cup {f}
    BY <1>3
  <2> HIDE DEF f
  <2> QED
    BY <2>1, <2>2, <2>3, <1>3, <1>10 DEF Apart
<1>12. Queues!See
  BY <1>3, <1>9, <1>10 DEF Queues!See
<1> QED
  BY <1>3, <1>6, <1>11, <1>12 DEF RingInv, QueueStep, Queues!QNext

LEMMA ReleaseStep ==
    ASSUME RingInv, Release
    PROVE  RingInv' /\ QueueStep
<1>1. PICK u \in Nat, v \in Nat : ConsAt(cons, peeked, u, v)
  BY DEF RingInv
<1> DEFINE c == cons.consumer
           n == peeked.n
           d == Plus(c, n)
<1>2. /\ c \in Index /\ n \in Nat /\ n + u <= Size /\ v <= u /\ cons \in RingType
      /\ cons.producer = Plus(c, n + u) /\ cons.cached_prod = Plus(c, n + v)
      /\ cons.cached_cons = d
  BY <1>1 DEF ConsAt, RingType, Handle
<1>3. /\ peeked.done = n
      /\ cons' = [cons EXCEPT !.consumer = d]
      /\ peeked' = Nowhere
      /\ prod' = prod /\ mine' = mine /\ reserved' = reserved /\ kernel' = kernel
  BY DEF Release
<1>4. c \in Int /\ n \in Int /\ 0 \in Index /\ u <= Size
  <2>1. c \in Index /\ n \in Nat /\ n + u <= Size
    BY <1>2
  <2> HIDE DEF c, n
  <2> QED
    BY <2>1, IndexIsInt
<1>5. d \in Index
  BY <1>2 DEF RingType
<1>6. \A x \in Nat : Plus(c, n + x) = Plus(d, x)
  <2> TAKE x \in Nat
  <2>1. x \in Int
    OBVIOUS
  <2> HIDE DEF c, n
  <2> QED
    BY <2>1, <1>4, PlusPlus
<1>7. /\ cons' \in RingType /\ cons'.ring = cons.ring /\ cons'.consumer = d
      /\ cons'.producer = cons.producer /\ cons'.cached_prod = cons.cached_prod
      /\ cons'.cached_cons = cons.cached_cons
  <2> HIDE DEF d
  <2> QED
    BY <1>2, <1>3, <1>5 DEF RingType
<1>8. peeked' \in Handle /\ peeked'.n = 0 /\ peeked'.done = 0
  BY <1>3, <1>4 DEF Handle, Nowhere
<1>9. ConsAt(cons', peeked', u, v)
  <2>1. cons'.producer = Plus(d, u) /\ cons'.cached_prod = Plus(d, v) /\ cons'.cached_cons = Plus(d, 0)
    BY <1>2, <1>5, <1>6, <1>7, PlusZero
  <2>2. 0 + u = u /\ 0 + v = v /\ 0 <= 0 /\ ~(0 > 0)
    OBVIOUS
  <2> HIDE DEF d
  <2> QED
    BY <2>1, <2>2, <1>2, <1>4, <1>7, <1>8 DEF ConsAt
<1>10. Unread' = Unread
  <2>1. Unread = Run(cons.ring, d, (n - n) + u)
    BY <1>1, <1>3, ConsShape DEF Unread, UnreadOf
  <2>2. UnreadOf(cons', peeked') = Run(cons'.ring, Plus(cons'.consumer, peeked'.done), (peeked'.n - peeked'.done) + u)
    BY <1>9, ConsShape
  <2>3. Unread' = UnreadOf(cons', peeked')
    BY DEF Unread, UnreadOf
  <2>4. Unread' = Run(cons.ring, Plus(d, 0), (0 - 0) + u)
    BY <2>2, <2>3, <1>7, <1>8
  <2>5. (n - n) + u = u /\ (0 - 0) + u = u /\ Plus(d, 0) = d
    BY <1>2, <1>5, PlusZero
  <2> QED
    BY <2>1, <2>4, <2>5
<1>11. Sent' = Sent /\ Filled' = Filled
  BY <1>3 DEF Sent, Filled
<1>12. Apart(mine, Filled, kernel, Unread)'
  BY <1>3, <1>10, <1>11 DEF RingInv
<1> QED
  BY <1>3, <1>9, <1>10, <1>11, <1>12, Unseen DEF RingInv

LEMMA GiveStep ==
    ASSUME RingInv, NEW f \in Frames, KernelGive(f)
    PROVE  RingInv' /\ QueueStep
<1>1. PICK u \in Nat, v \in Nat : ConsAt(cons, peeked, u, v)
  BY DEF RingInv
<1> DEFINE c == cons.consumer
           n == peeked.n
           k == peeked.done
           d == Plus(c, k)
           m == (n - k) + u
           p == cons.producer
<1>2. /\ Unread = Run(cons.ring, d, m) /\ d \in Index /\ m \in 0 .. Size
      /\ cons.ring \in [0 .. Size - 1 -> Frames] /\ c \in Index
      /\ n \in Nat /\ k \in Nat /\ n + u <= Size /\ k <= n
  BY <1>1, ConsShape DEF Unread, UnreadOf
<1>3. /\ cons \in RingType /\ peeked \in Handle /\ v <= u
      /\ n > 0 => peeked.idx = c
      /\ p = Plus(c, n + u) /\ p \in Index
      /\ cons.cached_prod = Plus(c, n + v) /\ cons.cached_cons = Plus(c, n)
  BY <1>1 DEF ConsAt, RingType
<1>4. /\ f \in kernel /\ Minus(p, c) < Size
      /\ kernel' = kernel \ {f}
      /\ cons' = [cons EXCEPT !.ring[Slot(p)] = f, !.producer = Plus(@, 1)]
      /\ prod' = prod /\ mine' = mine /\ reserved' = reserved /\ peeked' = peeked
  BY DEF KernelGive
<1>5. n + u < Size
  <2> DEFINE x == n + u
  <2>1. x \in Index
    <3>1. n \in Nat /\ n + u <= Size
      BY <1>2
    <3> HIDE DEF n
    <3>2. n + u \in 0 .. Size
      BY <3>1, IndexIsInt
    <3> QED
      BY <3>2, IndexIsInt
  <2>2. p = Plus(c, x)
    BY <1>3
  <2> HIDE DEF x, p, c
  <2>3. Minus(Plus(c, x), c) = x
    BY <2>1, <1>2, MinusPlus
  <2> QED
    BY <2>2, <2>3, <1>4 DEF x
<1>6. m \in 0 .. Size - 1 /\ c \in Int /\ k \in Int /\ m \in Int /\ k + m = n + u
  <2>1. c \in Int
    BY <1>2, IndexIsInt
  <2>2. n \in Nat /\ k \in Nat /\ k <= n /\ n + u < Size /\ Size \in Nat
    BY <1>2, <1>5, WidthFits
  <2> HIDE DEF n, k
  <2> QED
    BY <2>1, <2>2
<1>7. p = Plus(d, m)
  <2> HIDE DEF c, k, m, n, p
  <2>1. Plus(Plus(c, k), m) = Plus(c, k + m)
    BY <1>6, PlusPlus
  <2> QED
    BY <2>1, <1>3, <1>6
<1>8. Plus(p, 1) = Plus(c, n + (u + 1)) /\ Plus(p, 1) \in Index
  <2> DEFINE x == n + u
  <2>1. x \in Int /\ p \in Int /\ x + 1 = n + (u + 1) /\ p = Plus(c, x)
    <3>1. n \in Nat /\ p \in Index /\ p = Plus(c, n + u)
      BY <1>2, <1>3
    <3> HIDE DEF n, p, c
    <3> QED
      BY <3>1, IndexIsInt
  <2> HIDE DEF x, p, c
  <2>2. Plus(Plus(c, x), 1) = Plus(c, x + 1)
    BY <2>1, <1>6, PlusPlus
  <2>3. Plus(p, 1) \in Index
    BY <2>1, PlusType
  <2> QED
    BY <2>1, <2>2, <2>3
<1> DEFINE s == Slot(p)
           new == [cons.ring EXCEPT ![s] = f]
<1>9. s \in 0 .. Size - 1
  <2>1. p \in Int
    BY <1>3, IndexIsInt
  <2> HIDE DEF p
  <2> QED
    BY <2>1, WidthFits, ModType DEF Slot
<1>10. /\ new \in [0 .. Size - 1 -> Frames] /\ new[s] = f
       /\ \A i \in 0 .. Size - 1 : i # s => new[i] = cons.ring[i]
  <2> HIDE DEF s
  <2> QED
    BY <1>2, <1>9
<1>11. cons' = [cons EXCEPT !.ring = new, !.producer = Plus(p, 1)]
  <2> HIDE DEF s
  <2> QED
    BY <1>3, <1>4 DEF RingType, s
<1>12. Run(new, d, m + 1) = Append(Run(cons.ring, d, m), f)
  <2> DEFINE ring == cons.ring
  <2>1. /\ new \in [0 .. Size - 1 -> Frames] /\ new[Slot(Plus(d, m))] = f
        /\ \A i \in 0 .. Size - 1 : i # Slot(Plus(d, m)) => new[i] = ring[i]
    <3> HIDE DEF new, d, m, p
    <3> QED
      BY <1>7, <1>10
  <2>2. ring \in [0 .. Size - 1 -> Frames] /\ d \in Index /\ m \in 0 .. Size - 1
    BY <1>2, <1>6
  <2> HIDE DEF new, d, m, ring
  <2>3. Run(new, d, m + 1) = Append(Run(ring, d, m), f)
    <3>1. Stores(new, ring, d, m, f)
      BY <2>1, <2>2 DEF Stores
    <3> QED
      BY <3>1, RunStore
  <2> QED
    BY <2>3 DEF ring
<1> HIDE DEF new, s
<1>13. /\ cons' \in RingType /\ cons'.ring = new /\ cons'.consumer = c
       /\ cons'.producer = Plus(p, 1) /\ cons'.cached_prod = cons.cached_prod
       /\ cons'.cached_cons = cons.cached_cons
  <2> HIDE DEF p
  <2> QED
    BY <1>3, <1>8, <1>10, <1>11 DEF RingType
<1>14. u + 1 \in Nat /\ ConsAt(cons', peeked', u + 1, v)
  <2>1. u + 1 \in Nat /\ v <= u + 1 /\ n + (u + 1) <= Size
    <3>1. n \in Nat /\ Size \in Nat
      BY <1>2, WidthFits
    <3> HIDE DEF n
    <3> QED
      BY <3>1, <1>3, <1>5
  <2>2. k <= n
    BY <1>2
  <2> QED
    BY <2>1, <2>2, <1>3, <1>4, <1>8, <1>13 DEF ConsAt
<1>15. Unread' = Append(Unread, f)
  <2> DEFINE x == u + 1
  <2>1. UnreadOf(cons', peeked') = Run(cons'.ring, Plus(cons'.consumer, peeked'.done), (peeked'.n - peeked'.done) + x)
    <3>1. x \in Nat /\ ConsAt(cons', peeked', x, v)
      BY <1>14
    <3> HIDE DEF x
    <3> QED
      BY <3>1, ConsShape
  <2>2. Unread' = UnreadOf(cons', peeked')
    BY DEF Unread, UnreadOf
  <2>3. (n - k) + x = m + 1
    <3>1. n \in Nat /\ k \in Nat
      BY <1>2
    <3> HIDE DEF n, k
    <3> QED
      BY <3>1
  <2>4. Unread' = Run(new, d, (n - k) + x)
    BY <2>1, <2>2, <1>4, <1>13
  <2> QED
    BY <2>3, <2>4, <1>2, <1>12
<1>16. Sent' = Sent /\ Filled' = Filled
  BY <1>4 DEF Sent, Filled
<1>17. Apart(mine', Filled', kernel', Unread')
  <2>1. Apart(mine, Filled, kernel, Unread)
    BY DEF RingInv
  <2>2. Unread \in Seq(Frames) /\ Distinct(Unread) /\ f \notin Entries(Unread)
    BY <2>1, <1>4 DEF Apart
  <2>3. /\ Unread' \in Seq(Frames) /\ Entries(Unread') = Entries(Unread) \cup {f}
        /\ Distinct(Unread')
    BY <2>2, <1>15, EntriesAppend
  <2> QED
    BY <2>1, <2>3, <1>4, <1>16 DEF Apart
<1>18. Queues!Give
  <2>1. Len(Unread) < Size
    <3>1. m \in Nat /\ m < Size /\ d \in Int
      <4>1. m \in 0 .. Size - 1 /\ d \in Index
        BY <1>2, <1>6
      <4> HIDE DEF m, d
      <4> QED
        BY <4>1, WidthFits DEF Index
    <3> HIDE DEF m, d
    <3>2. Len(Run(cons.ring, d, m)) = m
      BY <3>1, <1>2, RunType
    <3> QED
      BY <3>1, <3>2, <1>2
  <2> QED
    BY <2>1, <1>4, <1>15, <1>16 DEF Queues!Give
<1>19. \E x \in Nat, y \in Nat : ConsAt(cons', peeked', x, y)
  BY <1>14
<1> QED
  BY <1>4, <1>17, <1>18, <1>19 DEF RingInv, QueueStep, Queues!QNext

LEMMA RingStart == XInit => RingInv /\ Queues!QInit
<1> SUFFICES ASSUME XInit PROVE RingInv /\ Queues!QInit
  OBVIOUS
<1>1. PICK zero \in Frames :
         LET ring == [i \in 0 .. Size - 1 |-> zero]
         IN /\ prod = [producer |-> 0, consumer |-> 0, ring |-> ring,
                       cached_prod |-> 0, cached_cons |-> Size]
            /\ cons = [producer |-> 0, consumer |-> 0, ring |-> ring,
                       cached_prod |-> 0, cached_cons |-> 0]
  BY DEF XInit
<1>2. reserved = Nowhere /\ peeked = Nowhere /\ mine = Frames /\ kernel = {}
  BY DEF XInit
<1>3. 0 \in Index /\ Size \in Index /\ Size \in Nat
  BY WidthFits DEF Index
<1>4. Plus(0, 0) = 0 /\ Plus(0, Size) = Size
  <2>1. Size % Width = Size
    BY <1>3, WidthFits, ModSmall DEF Index
  <2>2. 0 + Size = Size
    BY <1>3
  <2> QED
    BY <2>1, <2>2, <1>3, PlusZero DEF Plus
<1>5. prod \in RingType /\ cons \in RingType /\ Nowhere \in Handle
  BY <1>1, <1>3 DEF RingType, Handle, Nowhere
<1>6. 0 + 0 = 0 /\ 0 + 0 + Size = Size /\ 0 <= 0 /\ 0 <= Size /\ ~(0 > 0) /\ Size <= Size
  BY <1>3
<1>7. ProdAt(prod, reserved, 0, Size)
  BY <1>1, <1>2, <1>4, <1>5, <1>6 DEF ProdAt, Nowhere
<1>8. ConsAt(cons, peeked, 0, 0)
  BY <1>1, <1>2, <1>4, <1>5, <1>6 DEF ConsAt, Nowhere
<1>9. \A ring, x : Run(ring, x, 0) = <<>>
  BY DEF Run
<1>10. Sent = <<>> /\ Minus(prod.producer, prod.consumer) = 0
  BY <1>3, <1>7, <1>9, ProdShape DEF Sent
<1>11. Filled = <<>>
  BY <1>2, <1>6, <1>9, <1>10 DEF Filled, Nowhere
<1>12. Unread = <<>>
  <2>1. Unread = Run(cons.ring, Plus(cons.consumer, 0), (0 - 0) + 0)
    BY <1>2, <1>8, ConsShape DEF Unread, UnreadOf, Nowhere
  <2>2. (0 - 0) + 0 = 0
    OBVIOUS
  <2> QED
    BY <2>1, <2>2, <1>9
<1>13. Apart(mine, Filled, kernel, Unread)
  <2>1. <<>> \in Seq(Frames) /\ DOMAIN <<>> = {}
    OBVIOUS
  <2>2. Entries(<<>>) = {} /\ Distinct(<<>>)
    BY <2>1 DEF Entries, Distinct
  <2> QED
    BY <2>1, <2>2, <1>2, <1>11, <1>12 DEF Apart
<1>14. RingInv
  BY <1>3, <1>7, <1>8, <1>13 DEF RingInv
<1> QED
  BY <1>2, <1>10, <1>12, <1>14 DEF Queues!QInit

LEMMA RingStep == RingInv /\ [XNext]_xvars => RingInv' /\ QueueStep
<1> SUFFICES ASSUME RingInv, [XNext]_xvars PROVE RingInv' /\ QueueStep
  OBVIOUS
<1>1. CASE UNCHANGED xvars
  <2>1. /\ prod' = prod /\ cons' = cons /\ mine' = mine
        /\ reserved' = reserved /\ peeked' = peeked /\ kernel' = kernel
    BY <1>1 DEF xvars
  <2>2. Sent' = Sent /\ Filled' = Filled /\ Unread' = Unread
    BY <2>1 DEF Sent, Filled, Unread
  <2>3. Apart(mine, Filled, kernel, Unread)'
    BY <2>1, <2>2 DEF RingInv
  <2> QED
    BY <2>1, <2>2, <2>3, Unseen DEF RingInv
<1>2. CASE AppStep
  BY <1>2, ReserveStep, PeekStep, WriteStep, SubmitStep, ReadStep, ReleaseStep DEF AppStep
<1>3. CASE KernelTake
  BY <1>3, TakeStep
<1>4. CASE \E f \in Frames : KernelGive(f)
  BY <1>4, GiveStep
<1> QED
  BY <1>1, <1>2, <1>3, <1>4 DEF XNext

\* The invariant of the inline functions of xsk.h and the kernel: the counters
\* differ by what is submitted, reserved, peeked and waiting, and a frame is in
\* one place.
THEOREM RingSafe == XSpec => []RingInv
<1>1. RingInv /\ [XNext]_xvars => RingInv'
  BY RingStep
<1>2. XInit => RingInv
  BY RingStart
<1> QED
  BY <1>1, <1>2, PTL DEF XSpec

\* The rings of xsk.h with their cached counters, which wrap, are two bounded
\* queues: frames in order, none lost, none twice, for every number of frames,
\* size of a ring, width of a counter and batch.
THEOREM RingsImplementQueues == XSpec => RingsAreQueues
<1>1. XInit => Queues!QInit
  BY RingStart
<1>2. RingInv /\ [XNext]_xvars => [Queues!QNext]_(Queues!qvars)
  BY RingStep DEF QueueStep
<1> QED
  BY <1>1, <1>2, RingSafe, PTL DEF XSpec, RingsAreQueues, Queues!QSpec

=============================================================================
