---------------------------- MODULE IouRingsProofs ----------------------------
(***************************************************************************)
(* Proofs about IouRings: rings of any size, counters of any width, both   *)
(* modes.                                                                  *)
(***************************************************************************)
EXTENDS IouRings, TLAPS

-----------------------------------------------------------------------------
(***************************************************************************)
(* Counters and slots.                                                     *)
(***************************************************************************)

\* What remains of a division is less than the divisor.
LEMMA Division ==
  ASSUME NEW N \in Nat \ {0}, NEW x \in Int
  PROVE  /\ x \div N \in Int /\ x % N \in Int
         /\ x = N * (x \div N) + (x % N)
         /\ 0 <= x % N /\ x % N < N
  OBVIOUS

\* A multiple that is less than the number itself is 0.
LEMMA NoMultiple ==
  ASSUME NEW N \in Nat \ {0}, NEW m \in Int, -N < N * m, N * m < N
  PROVE  m = 0
<1>1. m >= 1 => N * m >= N
  OBVIOUS
<1>2. m <= -1 => N * m <= -N
  OBVIOUS
<1> QED BY <1>1, <1>2

\* Quotient and remainder are the only ones.
LEMMA Unique ==
  ASSUME NEW N \in Nat \ {0}, NEW x \in Int,
         NEW q \in Int, NEW r \in Int, x = N * q + r, 0 <= r, r < N
  PROVE  x % N = r
<1>1. PICK p \in Int, s \in Int :
        /\ p = x \div N /\ s = x % N
        /\ x = N * p + s /\ 0 <= s /\ s < N
  BY Division
<1>2. N * (p - q) = N * p - N * q
  BY <1>1
<1>3. N * (p - q) = r - s
  BY <1>1, <1>2
<1>4. p - q = 0
  BY <1>1, <1>3, NoMultiple
<1> QED BY <1>1, <1>3, <1>4

\* Numbers less than N apart have different remainders.
LEMMA ModDistinct ==
  ASSUME NEW N \in Nat \ {0}, NEW x \in Int, NEW y \in Int,
         x % N = y % N, -N < x - y, x - y < N
  PROVE  x = y
<1>1. PICK p \in Int, q \in Int, r \in Int :
        r = x % N /\ x = N * p + r /\ y = N * q + r
  <2>1. PICK p \in Int, r \in Int : r = x % N /\ x = N * p + r
    BY Division
  <2>2. PICK q \in Int, s \in Int : s = y % N /\ y = N * q + s
    BY Division
  <2> QED BY <2>1, <2>2
<1>2. PICK m \in Int : m = p - q
  OBVIOUS
<1>3. N * m = N * p - N * q
  BY <1>1, <1>2
<1>4. N * m = x - y
  <2>1. PICK c \in Int, d \in Int : c = N * p /\ d = N * q
    BY <1>1
  <2>2. N * m = c - d /\ x = c + r /\ y = d + r
    BY <1>1, <1>3, <2>1
  <2>3. x - y = c - d
    BY <2>2
  <2> QED BY <2>2, <2>3
<1>5. m = 0
  BY <1>4, NoMultiple
<1> QED BY <1>4, <1>5

\* A multiple of N does not show in the remainder.
LEMMA ModShift ==
  ASSUME NEW N \in Nat \ {0}, NEW W \in Int, W % N = 0, NEW x \in Int
  PROVE  (x + W) % N = x % N /\ (x - W) % N = x % N
<1>1. PICK v \in Int : W = N * v
  <2>1. W \div N \in Int /\ W = N * (W \div N) + (W % N)
    BY Division
  <2> QED BY <2>1
<1>2. PICK q \in Int, r \in Int :
        r = x % N /\ x = N * q + r /\ 0 <= r /\ r < N
  BY Division
<1>3. PICK m \in Int, n \in Int : m = q + v /\ n = q - v
  OBVIOUS
<1>4. N * m = N * q + N * v /\ N * n = N * q - N * v
  BY <1>1, <1>2, <1>3
<1>5. PICK a \in Int, b \in Int : a = x + W /\ b = x - W
  OBVIOUS
<1>6. a = N * m + r /\ b = N * n + r
  <2>1. PICK c \in Int, d \in Int : c = N * q /\ d = N * v
    BY <1>1, <1>2
  <2>2. N * m = c + d /\ N * n = c - d /\ x = c + r /\ W = d
    BY <1>1, <1>2, <1>4, <2>1
  <2> QED BY <1>2, <1>5, <2>1, <2>2
<1>7. a % N = r /\ b % N = r
  BY <1>2, <1>6, Unique
<1> QED BY <1>2, <1>5, <1>7

\* What 2m divides, m divides.
LEMMA HalfDivides ==
  ASSUME NEW m \in Nat \ {0}, NEW W \in Nat, W % (2 * m) = 0
  PROVE  W % m = 0
<1>1. PICK d \in Nat \ {0} : d = 2 * m
  OBVIOUS
<1>2. W \div d \in Int /\ W = d * (W \div d) + (W % d)
  BY Division
<1>3. W % d = 0
  BY <1>1
<1>4. PICK q \in Int : W = d * q
  BY <1>2, <1>3
<1>5. PICK p \in Int : p = 2 * q
  OBVIOUS
<1>6. d * q = m * p
  BY <1>1, <1>4, <1>5
<1>7. W = m * p + 0
  BY <1>4, <1>6
<1> QED BY <1>7, Unique

\* What io_uring_setup makes of the size it is given.
LEMMA EntriesFacts ==
  ASSUME NEW n \in RingSizes
  PROVE  /\ n \in Nat \ {0} /\ Entries(n) \in n..(2 * n - 1)
         /\ Entries(n) \in Nat \ {0} /\ CqEntries(n) \in Nat \ {0}
         /\ Word \in Nat \ {0} /\ CqEntries(n) = 2 * Entries(n)
         /\ Word % Entries(n) = 0 /\ Word % CqEntries(n) = 0
         /\ CqEntries(n) < Word
<1>1. n \in Nat \ {0} /\ Word \in Nat /\ CqEntries(n) < Word
  BY RingAssumption
<1>2. Entries(n) \in n..(2 * n - 1) /\ Word % (2 * Entries(n)) = 0
  BY RingAssumption DEF Entries
<1>3. PICK m \in Nat \ {0} : m = Entries(n)
  BY <1>1, <1>2
<1>4. Word % m = 0
  BY <1>1, <1>2, <1>3, HalfDivides
<1>5. CqEntries(n) = 2 * m /\ 2 * m \in Nat \ {0}
  BY <1>3 DEF CqEntries
<1>6. Word \in Nat \ {0}
  BY <1>1, <1>5
<1> QED BY <1>1, <1>2, <1>3, <1>4, <1>5, <1>6

Counters == 0..(Word - 1)

\* The next value of a counter.
LEMMA Step ==
  ASSUME Word \in Nat \ {0}, NEW i \in Counters
  PROVE  (i + 1) % Word = IF i + 1 = Word THEN 0 ELSE i + 1
<1>1. PICK x \in Int : x = i + 1
  BY DEF Counters
<1>2. ASSUME x = Word PROVE x % Word = 0
  BY <1>2, Word = Word * 1 + 0, Unique
<1>3. ASSUME x # Word PROVE x % Word = x
  <2>1. x = Word * 0 + x /\ 0 <= x /\ x < Word
    BY <1>1, <1>3 DEF Counters
  <2> QED BY <2>1, Unique
<1> QED BY <1>1, <1>2, <1>3

\* The difference of two counters.
LEMMA Difference ==
  ASSUME Word \in Nat \ {0}, NEW i \in Counters, NEW j \in Counters
  PROVE  /\ Minus(i, j) = IF i >= j THEN i - j ELSE i - j + Word
         /\ Minus(i, j) \in Counters
<1>1. PICK x \in Int : x = i - j
  BY DEF Counters
<1>2. ASSUME i >= j PROVE x % Word = x
  <2>1. x = Word * 0 + x /\ 0 <= x /\ x < Word
    BY <1>1, <1>2 DEF Counters
  <2> QED BY <2>1, Unique
<1>3. ASSUME ~ i >= j PROVE x % Word = x + Word
  <2>1. x = Word * (-1) + (x + Word) /\ 0 <= x + Word /\ x + Word < Word
    BY <1>1, <1>3 DEF Counters
  <2> QED BY <2>1, Unique
<1> QED BY <1>1, <1>2, <1>3 DEF Minus, Counters

\* A counter is what it counts from plus the difference, in every ring.
LEMMA TailSlot ==
  ASSUME Word \in Nat \ {0}, NEW i \in Counters, NEW j \in Counters,
         NEW N \in Nat \ {0}, Word % N = 0
  PROVE  (j + Minus(i, j)) % N = i % N
<1>1. Minus(i, j) = IF i >= j THEN i - j ELSE i - j + Word
  BY Difference
<1>2. i \in Int /\ j \in Int /\ Word \in Int
  BY DEF Counters
<1>3. j + Minus(i, j) = i \/ j + Minus(i, j) = i + Word
  BY <1>1, <1>2
<1>4. (i + Word) % N = i % N
  BY <1>2, ModShift
<1> QED BY <1>3, <1>4

\* Stepping a counter moves every offset by one.
LEMMA StepSlot ==
  ASSUME Word \in Nat \ {0}, NEW j \in Counters, NEW k \in Nat,
         NEW N \in Nat \ {0}, Word % N = 0
  PROVE  (((j + 1) % Word) + k) % N = (j + (k + 1)) % N
<1>1. PICK x \in Int : x = j + (k + 1)
  BY DEF Counters
<1>2. ((j + 1) % Word) + k = x \/ ((j + 1) % Word) + k = x - Word
  <2>1. (j + 1) % Word = IF j + 1 = Word THEN 0 ELSE j + 1
    BY Step
  <2> QED BY <1>1, <2>1 DEF Counters
<1>3. (x - Word) % N = x % N
  <2>1. Word \in Int
    OBVIOUS
  <2> QED BY <2>1, ModShift
<1> QED BY <1>1, <1>2, <1>3

\* Two offsets less than the size of the ring have different slots.
LEMMA SlotsDiffer ==
  ASSUME NEW j \in Counters, Word \in Nat, NEW N \in Nat \ {0},
         NEW k \in 0..(N - 1), NEW l \in 0..(N - 1), k # l
  PROVE  (j + k) % N # (j + l) % N
<1>1. PICK x \in Int, y \in Int : x = j + k /\ y = j + l
  BY DEF Counters
<1>2. -N < x - y /\ x - y < N /\ x # y
  BY <1>1 DEF Counters
<1>3. x % N # y % N
  BY <1>2, ModDistinct
<1> QED BY <1>1, <1>3

\* The tail is stepped.
LEMMA Grow ==
  ASSUME Word \in Nat \ {0}, NEW i \in Counters, NEW j \in Counters,
         Minus(i, j) < Word - 1
  PROVE  /\ (i + 1) % Word \in Counters
         /\ Minus((i + 1) % Word, j) = Minus(i, j) + 1
<1>1. (i + 1) % Word = IF i + 1 = Word THEN 0 ELSE i + 1
  BY Step
<1>2. (i + 1) % Word \in Counters
  BY <1>1 DEF Counters
<1>3. PICK l \in Counters : l = (i + 1) % Word
  BY <1>2
<1>4. Minus(l, j) = IF l >= j THEN l - j ELSE l - j + Word
  BY Difference
<1>5. Minus(i, j) = IF i >= j THEN i - j ELSE i - j + Word
  BY Difference
<1>6. i \in Int /\ j \in Int /\ i < Word /\ j < Word /\ i >= 0 /\ j >= 0
  BY DEF Counters
<1>7. Minus(l, j) = Minus(i, j) + 1
  BY <1>1, <1>3, <1>4, <1>5, <1>6
<1> QED BY <1>2, <1>3, <1>7

\* The head is stepped.
LEMMA Shrink ==
  ASSUME Word \in Nat \ {0}, NEW i \in Counters, NEW j \in Counters, i # j
  PROVE  /\ (j + 1) % Word \in Counters
         /\ Minus(i, (j + 1) % Word) = Minus(i, j) - 1
         /\ Minus(i, j) > 0
<1>1. (j + 1) % Word = IF j + 1 = Word THEN 0 ELSE j + 1
  BY Step
<1>2. (j + 1) % Word \in Counters
  BY <1>1 DEF Counters
<1>3. PICK l \in Counters : l = (j + 1) % Word
  BY <1>2
<1>4. Minus(i, l) = IF i >= l THEN i - l ELSE i - l + Word
  BY Difference
<1>5. Minus(i, j) = IF i >= j THEN i - j ELSE i - j + Word
  BY Difference
<1>6. i \in Int /\ j \in Int /\ i < Word /\ j < Word /\ i >= 0 /\ j >= 0
  BY DEF Counters
<1>7. Minus(i, l) = Minus(i, j) - 1
  BY <1>1, <1>3, <1>4, <1>5, <1>6
<1>8. Minus(i, j) > 0
  BY <1>5, <1>6
<1> QED BY <1>2, <1>3, <1>7, <1>8

-----------------------------------------------------------------------------
(***************************************************************************)
(* The two rings in a state.                                               *)
(***************************************************************************)

\* Sizes, counters and slots are in their ranges.
Ranges ==
  /\ ring_size \in Nat \ {0} /\ Word \in Nat \ {0}
  /\ Entries(ring_size) \in Nat \ {0} /\ CqEntries(ring_size) \in Nat \ {0}
  /\ ring_size <= Entries(ring_size)
  /\ CqEntries(ring_size) < Word /\ Entries(ring_size) < Word - 1
  /\ sqHead \in Counters /\ sqTail \in Counters /\ seenTail \in Counters
  /\ cqHead \in Counters /\ cqTail \in Counters
  /\ SqLen \in Nat /\ CqLen \in Nat /\ Minus(seenTail, sqHead) \in Nat
  /\ \A x \in Int : SqIndex(x) \in Slots /\ CqIndex(x) \in CqSlots

\* The types put sizes, counters and slots in their ranges.
LEMMA TypeRanges == TypeOK => Ranges
<1> SUFFICES ASSUME TypeOK PROVE Ranges
  OBVIOUS
<1>1. /\ ring_size \in Nat \ {0} /\ Word \in Nat \ {0}
      /\ Entries(ring_size) \in Nat \ {0} /\ CqEntries(ring_size) \in Nat \ {0}
      /\ ring_size <= Entries(ring_size)
      /\ CqEntries(ring_size) = 2 * Entries(ring_size)
      /\ CqEntries(ring_size) < Word
  BY EntriesFacts DEF TypeOK
<1>2. Entries(ring_size) < Word - 1
  BY <1>1
<1>3. /\ sqHead \in Counters /\ sqTail \in Counters /\ seenTail \in Counters
      /\ cqHead \in Counters /\ cqTail \in Counters
  BY DEF TypeOK, Counters
<1>4. Counters \subseteq Nat
  BY <1>1 DEF Counters
<1>5. SqLen \in Nat /\ CqLen \in Nat /\ Minus(seenTail, sqHead) \in Nat
  BY <1>1, <1>3, <1>4, Difference DEF SqLen, CqLen
<1>6. ASSUME NEW x \in Int PROVE SqIndex(x) \in Slots /\ CqIndex(x) \in CqSlots
  <2>1. ASSUME NEW N \in Nat \ {0} PROVE x % N \in 0..(N - 1)
    BY Division
  <2> QED BY <1>1, <2>1 DEF SqIndex, CqIndex, Slots, CqSlots
<1> QED BY <1>1, <1>2, <1>3, <1>5, <1>6 DEF Ranges

\* The slot at the tail comes after the slots in use, stepping the head moves
\* every offset by one, and the slots of a ring are different.
SqRing ==
  /\ SqIndex(sqTail) = SqIndex(sqHead + SqLen)
  /\ \A k \in Nat :
       SqIndex(((sqHead + 1) % Word) + k) = SqIndex(sqHead + (k + 1))
  /\ \A k, l \in 0..(Entries(ring_size) - 1) :
       k # l => SqIndex(sqHead + k) # SqIndex(sqHead + l)

CqRing ==
  /\ CqIndex(cqTail) = CqIndex(cqHead + CqLen)
  /\ \A k \in Nat :
       CqIndex(((cqHead + 1) % Word) + k) = CqIndex(cqHead + (k + 1))
  /\ \A k, l \in 0..(CqEntries(ring_size) - 1) :
       k # l => CqIndex(cqHead + k) # CqIndex(cqHead + l)

\* The slots of both rings are where their counters say, also across a wrap.
LEMMA TypeRings == TypeOK => SqRing /\ CqRing
<1> SUFFICES ASSUME TypeOK PROVE SqRing /\ CqRing
  OBVIOUS
<1> DEFINE N == Entries(ring_size)
           M == CqEntries(ring_size)
<1>1. Ranges
  BY TypeRanges
<1>2. /\ N \in Nat \ {0} /\ M \in Nat \ {0} /\ Word \in Nat \ {0}
      /\ sqHead \in Counters /\ sqTail \in Counters
      /\ cqHead \in Counters /\ cqTail \in Counters
  BY <1>1 DEF Ranges
<1>3. Word % N = 0 /\ Word % M = 0
  BY EntriesFacts DEF TypeOK
<1> HIDE DEF N, M
<1>4. SqRing
  <2>1. (sqHead + Minus(sqTail, sqHead)) % N = sqTail % N
    BY <1>2, <1>3, TailSlot
  <2>2. ASSUME NEW k \in Nat
        PROVE  (((sqHead + 1) % Word) + k) % N = (sqHead + (k + 1)) % N
    BY <1>2, <1>3, StepSlot
  <2>3. ASSUME NEW k \in 0..(N - 1), NEW l \in 0..(N - 1), k # l
        PROVE  (sqHead + k) % N # (sqHead + l) % N
    BY <1>2, <2>3, SlotsDiffer
  <2> QED BY <2>1, <2>2, <2>3 DEF SqRing, SqIndex, SqLen, N
<1>5. CqRing
  <2>1. (cqHead + Minus(cqTail, cqHead)) % M = cqTail % M
    BY <1>2, <1>3, TailSlot
  <2>2. ASSUME NEW k \in Nat
        PROVE  (((cqHead + 1) % Word) + k) % M = (cqHead + (k + 1)) % M
    BY <1>2, <1>3, StepSlot
  <2>3. ASSUME NEW k \in 0..(M - 1), NEW l \in 0..(M - 1), k # l
        PROVE  (cqHead + k) % M # (cqHead + l) % M
    BY <1>2, <2>3, SlotsDiffer
  <2> QED BY <2>1, <2>2, <2>3 DEF CqRing, CqIndex, CqLen, M
<1> QED BY <1>4, <1>5

\* The queues the rings stand for.
SqQueue ==
  /\ Submitted \in Seq(Ops) /\ Len(Submitted) = SqLen
  /\ \A k \in 1..SqLen : Submitted[k] = sqes[SqIndex(sqHead + (k - 1))]

CqQueue ==
  /\ Completed \in Seq(Ops) /\ Len(Completed) = CqLen
  /\ \A k \in 1..CqLen : Completed[k] = cqes[CqIndex(cqHead + (k - 1))]

\* An array given entry by entry.
LEMMA SeqMake ==
  ASSUME NEW n \in Nat, NEW f \in [1..n -> Ops]
  PROVE  f \in Seq(Ops) /\ Len(f) = n
  OBVIOUS

\* Whole entries make each ring a queue of objects, oldest first.
LEMMA RingQueues == Ranges /\ SqInv /\ CqInv => SqQueue /\ CqQueue
<1> SUFFICES ASSUME Ranges, SqInv, CqInv PROVE SqQueue /\ CqQueue
  OBVIOUS
<1>1. SqLen \in Nat /\ CqLen \in Nat /\ sqHead \in Int /\ cqHead \in Int
  BY DEF Ranges, Counters
<1>2. ASSUME NEW k \in 1..SqLen
      PROVE  /\ sqHead + k - 1 = sqHead + (k - 1) /\ k - 1 \in 0..(SqLen - 1)
             /\ sqes[array[SqIndex(sqHead + k - 1)]] =
                  sqes[SqIndex(sqHead + (k - 1))]
             /\ sqes[SqIndex(sqHead + (k - 1))] \in Ops
  <2>1. sqHead + k - 1 = sqHead + (k - 1) /\ k - 1 \in 0..(SqLen - 1)
    BY <1>1
  <2> QED BY <2>1 DEF SqInv
<1>3. ASSUME NEW k \in 1..CqLen
      PROVE  /\ cqHead + k - 1 = cqHead + (k - 1) /\ k - 1 \in 0..(CqLen - 1)
             /\ cqes[CqIndex(cqHead + (k - 1))] \in Ops
  <2>1. cqHead + k - 1 = cqHead + (k - 1) /\ k - 1 \in 0..(CqLen - 1)
    BY <1>1
  <2> QED BY <2>1 DEF CqInv
<1>4. SqQueue
  <2>1. Submitted \in [1..SqLen -> Ops]
    BY <1>2 DEF Submitted, SqLen
  <2>2. \A k \in 1..SqLen : Submitted[k] = sqes[SqIndex(sqHead + (k - 1))]
    BY <1>2 DEF Submitted, SqLen
  <2> QED BY <1>1, <2>1, <2>2, SeqMake DEF SqQueue
<1>5. CqQueue
  <2>1. Completed \in [1..CqLen -> Ops]
    BY <1>3 DEF Completed, CqLen
  <2>2. \A k \in 1..CqLen : Completed[k] = cqes[CqIndex(cqHead + (k - 1))]
    BY <1>3 DEF Completed, CqLen
  <2> QED BY <1>1, <2>1, <2>2, SeqMake DEF CqQueue
<1> QED BY <1>4, <1>5

-----------------------------------------------------------------------------
(***************************************************************************)
(* Steps that touch neither slots nor counters, except that stores become  *)
(* visible.                                                                *)
(***************************************************************************)

QStep == [Queues!Next]_(Queues!vars)

\* What these steps leave alone.
RingsRest ==
  /\ UNCHANGED <<sqpoll, ring_size, todo, parked, sqes, array, sqHead, sqTail,
                 cqes, cqHead, cqTail, kern>>
  /\ seenTail' \in {seenTail, sqTail}

\* Such a step keeps both rings, and what they stand for.
LEMMA RestRings ==
  RInv /\ RingsRest =>
    /\ SqInv' /\ CqInv' /\ SqLen' = SqLen /\ CqLen' = CqLen
    /\ Submitted' = Submitted /\ Completed' = Completed
<1> SUFFICES ASSUME RInv, RingsRest
             PROVE  /\ SqInv' /\ CqInv' /\ SqLen' = SqLen /\ CqLen' = CqLen
                    /\ Submitted' = Submitted /\ Completed' = Completed
  OBVIOUS
<1>1. Ranges
  BY TypeRanges DEF RInv
<1>2. SqLen' = SqLen /\ CqLen' = CqLen
  BY DEF RingsRest, SqLen, CqLen
<1>3. SqInv'
  <2>1. Minus(seenTail', sqHead) \in {Minus(seenTail, sqHead), SqLen}
    BY DEF RingsRest, SqLen
  <2>2. Minus(seenTail', sqHead) <= SqLen
    BY <1>1, <2>1 DEF RInv, SqInv, Ranges
  <2> QED BY <1>2, <2>2 DEF RInv, SqInv, RingsRest, SqIndex
<1>4. CqInv'
  BY <1>2 DEF RInv, CqInv, RingsRest, CqIndex
<1>5. Submitted' = Submitted /\ Completed' = Completed
  BY DEF RingsRest, Submitted, Completed, SqIndex, CqIndex
<1> QED BY <1>2, <1>3, <1>4, <1>5

\* The types, when only variables without slots change.
LEMMA RestTypes ==
  ASSUME TypeOK, RingsRest,
         pc' \in {"loop", "consumed", "handle", "filled", "enter", "kernel",
                  "failed"},
         cqe_storage' \in Ops \cup {Free},
         io_events_to_submit' \in Nat, allow' \in Nat,
         flag' \in BOOLEAN, short' \in BOOLEAN,
         thread' \in {"running", "checking", "asleep"}
  PROVE  TypeOK'
<1>1. seenTail' \in 0..(Word - 1)
  BY DEF TypeOK, RingsRest
<1>2. sqes' \in [Slots' -> Ops \cup {Free}] /\ array' \in [Slots' -> Slots']
      /\ cqes' \in [CqSlots' -> Ops \cup {Free}]
  BY DEF TypeOK, RingsRest, Slots, CqSlots
<1> QED BY <1>1, <1>2 DEF TypeOK, RingsRest

\* The process goes on, so nothing happens to the queues.
LEMMA RestStep ==
  ASSUME RInv, RingsRest, TypeOK', pc' = "failed" <=> pc = "failed",
         pc' \in {"loop", "consumed", "enter", "kernel"} => todo = <<>>,
         pc' = "filled" => pc = "filled",
         pc' = "consumed" =>
           \/ pc = "consumed" /\ cqe_storage' = cqe_storage
           \/ cqHead # cqTail /\ cqe_storage' = cqes[CqIndex(cqHead)]
  PROVE  RInv' /\ QStep
<1>1. /\ SqInv' /\ CqInv' /\ SqLen' = SqLen /\ CqLen' = CqLen
      /\ Submitted' = Submitted /\ Completed' = Completed
  BY RestRings
<1>2. HandlerInv'
  BY DEF RInv, HandlerInv, RingsRest, InSeq
<1>3. HeldInv'
  <2>1. pc' = "filled" =>
          /\ todo' # <<>> /\ SqLen' < ring_size'
          /\ sqes'[(SqIndex(sqTail))'] = Head(todo')
    BY <1>1 DEF RInv, HeldInv, RingsRest, SqIndex
  <2>2. Ranges
    BY TypeRanges DEF RInv
  <2>3. cqHead # cqTail => CqLen > 0
    BY <2>2, Shrink DEF Ranges, CqLen
  <2>4. pc' = "consumed" =>
          CqLen' > 0 /\ cqe_storage' = cqes'[(CqIndex(cqHead))']
    BY <1>1, <2>3 DEF RInv, HeldInv, RingsRest, CqIndex
  <2> QED BY <2>1, <2>4 DEF HeldInv
<1>4. QStep
  <2>1. UNCHANGED <<ring_size, parked \cup InSeq(todo), Submitted, kern,
                    Completed, pc = "failed">>
    BY <1>1 DEF RingsRest, InSeq
  <2> QED BY <2>1 DEF QStep, Queues!vars
<1> QED BY <1>1, <1>2, <1>3, <1>4 DEF RInv

\* iou_get_cqe copies the completion at the head; it is still there.
LEMMA CopyCqeStep == RInv /\ CopyCqe => RInv' /\ QStep
<1> SUFFICES ASSUME RInv, CopyCqe PROVE RInv' /\ QStep
  OBVIOUS
<1>1. RingsRest
  BY DEF CopyCqe, sqRing, cqRing, kernel, RingsRest
<1>2. cqe_storage' \in Ops \cup {Free}
  <2>1. Ranges
    BY TypeRanges DEF RInv
  <2>2. CqIndex(cqHead) \in CqSlots
    BY <2>1 DEF Ranges, Counters
  <2> QED BY <2>2 DEF CopyCqe, RInv, TypeOK
<1>3. TypeOK'
  BY <1>1, <1>2, RestTypes DEF CopyCqe, RInv, TypeOK, kernel
<1>4. todo = <<>>
  BY DEF CopyCqe, RInv, HandlerInv
<1> QED BY <1>1, <1>3, <1>4, RestStep DEF CopyCqe

\* iou_get_cqe finds the queue empty.
LEMMA NoCqeStep == RInv /\ NoCqe => RInv' /\ QStep
<1> SUFFICES ASSUME RInv, NoCqe PROVE RInv' /\ QStep
  OBVIOUS
<1>1. RingsRest
  BY DEF NoCqe, sqRing, cqRing, kernel, RingsRest
<1>2. TypeOK'
  BY <1>1, RestTypes DEF NoCqe, RInv, TypeOK, kernel
<1>3. todo = <<>>
  BY DEF NoCqe, RInv, HandlerInv
<1> QED BY <1>1, <1>2, <1>3, RestStep DEF NoCqe

\* The handler has submitted what it had to.
LEMMA HandledStep == RInv /\ Handled => RInv' /\ QStep
<1> SUFFICES ASSUME RInv, Handled PROVE RInv' /\ QStep
  OBVIOUS
<1>1. RingsRest
  BY DEF Handled, sqRing, cqRing, kernel, RingsRest
<1>2. TypeOK'
  BY <1>1, RestTypes DEF Handled, RInv, TypeOK, kernel
<1> QED BY <1>1, <1>2, RestStep DEF Handled

\* io_uring_enter is called with the count of service_loop.
LEMMA EnterStep == RInv /\ Enter => RInv' /\ QStep
<1> SUFFICES ASSUME RInv, Enter PROVE RInv' /\ QStep
  OBVIOUS
<1>1. RingsRest
  BY DEF Enter, cqRing, RingsRest
<1>2. TypeOK'
  BY <1>1, RestTypes DEF Enter, RInv, TypeOK
<1>3. todo = <<>>
  BY DEF Enter, RInv, HandlerInv
<1> QED BY <1>1, <1>2, <1>3, RestStep DEF Enter

\* The SQPOLL thread is woken, or seen to be running.
LEMMA WakeStep == RInv /\ Wake => RInv' /\ QStep
<1> SUFFICES ASSUME RInv, Wake PROVE RInv' /\ QStep
  OBVIOUS
<1>1. RingsRest
  BY DEF Wake, cqRing, RingsRest
<1>2. TypeOK'
  BY <1>1, RestTypes DEF Wake, RInv, TypeOK
<1>3. todo = <<>>
  BY DEF Wake, RInv, HandlerInv
<1> QED BY <1>1, <1>2, <1>3, RestStep DEF Wake

\* io_uring_enter returns.
LEMMA ReturnStep == RInv /\ Return => RInv' /\ QStep
<1> SUFFICES ASSUME RInv, Return PROVE RInv' /\ QStep
  OBVIOUS
<1>1. RingsRest
  BY DEF Return, sqRing, cqRing, RingsRest
<1>2. TypeOK'
  BY <1>1, RestTypes DEF Return, RInv, TypeOK
<1>3. todo = <<>>
  BY DEF Return, RInv, HandlerInv
<1> QED BY <1>1, <1>2, <1>3, RestStep DEF Return

\* The store of the tail becomes visible to the kernel.
LEMMA DrainStep == RInv /\ Drain => RInv' /\ QStep
<1> SUFFICES ASSUME RInv, Drain PROVE RInv' /\ QStep
  OBVIOUS
<1>1. RingsRest
  BY DEF Drain, server, cqRing, kernel, RingsRest
<1>2. TypeOK'
  BY <1>1, RestTypes DEF Drain, RInv, TypeOK, server, kernel
<1> QED BY <1>1, <1>2, RestStep DEF Drain, server, RInv, HandlerInv

\* The SQPOLL thread sets its flag, looks again and sleeps.
LEMMA ThreadStep == RInv /\ (GoIdle \/ LookAgain) => RInv' /\ QStep
<1> SUFFICES ASSUME RInv, GoIdle \/ LookAgain PROVE RInv' /\ QStep
  OBVIOUS
<1>1. RingsRest
  BY DEF GoIdle, LookAgain, server, sqRing, cqRing, RingsRest
<1>2. TypeOK'
  BY <1>1, RestTypes DEF GoIdle, LookAgain, RInv, TypeOK, server
<1> QED BY <1>1, <1>2, RestStep DEF GoIdle, LookAgain, server, RInv, HandlerInv

-----------------------------------------------------------------------------
(***************************************************************************)
(* Sequences.                                                              *)
(***************************************************************************)

\* Sequences of one length with the same entries are equal.
LEMMA SameSeq ==
  ASSUME NEW f \in Seq(Ops), NEW g \in Seq(Ops), Len(f) = Len(g),
         \A k \in 1..Len(f) : f[k] = g[k]
  PROVE  f = g
  OBVIOUS

\* A queue with one entry more.
LEMMA OneMore ==
  ASSUME NEW f \in Seq(Ops), NEW g \in Seq(Ops), Len(g) = Len(f) + 1,
         NEW o \in Ops, \A k \in 1..Len(f) : g[k] = f[k], g[Len(f) + 1] = o
  PROVE  g = Append(f, o)
<1>1. Append(f, o) \in Seq(Ops) /\ Len(Append(f, o)) = Len(f) + 1
  OBVIOUS
<1>2. \A k \in 1..(Len(f) + 1) :
        Append(f, o)[k] = IF k = Len(f) + 1 THEN o ELSE f[k]
  OBVIOUS
<1>3. \A k \in 1..(Len(f) + 1) : k = Len(f) + 1 \/ k \in 1..Len(f)
  OBVIOUS
<1>4. \A k \in 1..(Len(f) + 1) : g[k] = Append(f, o)[k]
  BY <1>2, <1>3
<1> QED BY <1>1, <1>4, SameSeq

\* A queue without its first entry.
LEMMA OneLess ==
  ASSUME NEW f \in Seq(Ops), NEW g \in Seq(Ops), f # <<>>,
         Len(g) = Len(f) - 1, \A k \in 1..Len(g) : g[k] = f[k + 1]
  PROVE  g = Tail(f) /\ Head(f) = f[1] /\ f[1] \in Ops
<1>1. Tail(f) \in Seq(Ops) /\ Len(Tail(f)) = Len(f) - 1
  OBVIOUS
<1>2. \A k \in 1..(Len(f) - 1) : Tail(f)[k] = f[k + 1]
  OBVIOUS
<1>3. Head(f) = f[1] /\ f[1] \in Ops
  OBVIOUS
<1> QED BY <1>1, <1>2, <1>3, SameSeq

\* What the handler submits is one entry,
LEMMA InOne == ASSUME NEW o PROVE InSeq(<<o>>) = {o} /\ Head(<<o>>) = o
                                   /\ Tail(<<o>>) = <<>>
  BY DEF InSeq

\* two entries,
LEMMA InTwo ==
  ASSUME NEW o, NEW p
  PROVE  /\ InSeq(<<o, p>>) = {o, p} /\ Head(<<o, p>>) = o
         /\ Tail(<<o, p>>) = <<p>>
  BY DEF InSeq

\* or none.
LEMMA InNone == InSeq(<<>>) = {}
  BY DEF InSeq

-----------------------------------------------------------------------------
(***************************************************************************)
(* Steps on one ring leave the other alone.                                *)
(***************************************************************************)

\* The submission ring is where it was.
LEMMA SqSame ==
  ASSUME SqInv, UNCHANGED <<ring_size, sqRing>>
  PROVE  SqInv' /\ SqLen' = SqLen /\ Submitted' = Submitted
<1>1. SqLen' = SqLen /\ Submitted' = Submitted
  BY DEF SqLen, Submitted, SqIndex, sqRing
<1> QED BY <1>1 DEF SqInv, sqRing, SqIndex

\* The completion ring is where it was.
LEMMA CqSame ==
  ASSUME CqInv, UNCHANGED <<ring_size, cqRing>>
  PROVE  CqInv' /\ CqLen' = CqLen /\ Completed' = Completed
<1>1. CqLen' = CqLen /\ Completed' = Completed
  BY DEF CqLen, Completed, CqIndex, cqRing
<1> QED BY <1>1 DEF CqInv, cqRing, CqIndex

\* The queues of the next state.
LEMMA NextQueues ==
  TypeOK' /\ SqInv' /\ CqInv' => SqQueue' /\ CqQueue' /\ Ranges'
<1>1. TypeOK' => Ranges'
  BY TypeRanges, PTL
<1>2. Ranges' /\ SqInv' /\ CqInv' => SqQueue' /\ CqQueue'
  BY RingQueues, PTL
<1> QED BY <1>1, <1>2

\* The queues of this state.
LEMMA ThisState == RInv => Ranges /\ SqRing /\ CqRing /\ SqQueue /\ CqQueue
  BY TypeRanges, TypeRings, RingQueues DEF RInv

-----------------------------------------------------------------------------
(***************************************************************************)
(* The server fills an entry: none of those that wait.                     *)
(***************************************************************************)

\* The handler has something to submit.
LEMMA TodoHead ==
  ASSUME RInv, todo # <<>>
  PROVE  /\ Head(todo) \in Ops /\ Head(todo) \in InSeq(todo)
         /\ InSeq(todo) = {Head(todo)} \cup InSeq(Tail(todo))
         /\ Head(todo) \notin InSeq(Tail(todo))
         /\ Tail(todo) = <<>> \/ \E o \in Ops : Tail(todo) = <<o>>
<1>1. \/ \E o \in Ops : todo = <<o>>
      \/ \E o \in Ops \ {AcceptOp} : todo = <<o, AcceptOp>>
  BY DEF RInv, HandlerInv
<1>2. CASE \E o \in Ops : todo = <<o>>
  <2>1. PICK o \in Ops : todo = <<o>>
    BY <1>2
  <2> QED BY <2>1, InOne, InNone
<1>3. CASE \E o \in Ops \ {AcceptOp} : todo = <<o, AcceptOp>>
  <2>1. PICK o \in Ops \ {AcceptOp} : todo = <<o, AcceptOp>>
    BY <1>3
  <2>2. AcceptOp \in Ops
    BY RingAssumption
  <2>3. /\ Head(todo) = o /\ Tail(todo) = <<AcceptOp>>
        /\ InSeq(todo) = {o, AcceptOp} /\ InSeq(Tail(todo)) = {AcceptOp}
    BY <2>1, InTwo, InOne
  <2> QED BY <2>2, <2>3
<1> QED BY <1>1, <1>2, <1>3

\* iou_acquire_sqe refuses: that many entries wait.
LEMMA RefuseStep == RInv /\ AcquireSqe /\ SqFull => RInv' /\ QStep
<1> SUFFICES ASSUME RInv, AcquireSqe, SqFull PROVE RInv' /\ QStep
  OBVIOUS
<1>1. Ranges /\ SqQueue
  BY ThisState
<1>2. RingsRest /\ pc' = "failed"
  BY DEF AcquireSqe, RingsRest, cqRing, kernel
<1>3. TypeOK'
  BY <1>2, RestTypes DEF AcquireSqe, RInv, TypeOK, kernel
<1>4. /\ SqInv' /\ CqInv' /\ Submitted' = Submitted /\ Completed' = Completed
  BY <1>2, RestRings
<1>5. HandlerInv' /\ HeldInv'
  BY <1>2 DEF RInv, HandlerInv, HeldInv, RingsRest, InSeq
<1>6. Queues!Refuse
  <2>1. Len(Submitted) >= ring_size
    BY <1>1 DEF SqQueue, SqFull, SqLen
  <2> QED BY <1>2, <1>4, <2>1 DEF Queues!Refuse, RingsRest, InSeq
<1> QED BY <1>3, <1>4, <1>5, <1>6 DEF RInv, QStep, Queues!Next

\* It finds a slot, behind those in use.
LEMMA AcquireStep == RInv /\ AcquireSqe /\ ~ SqFull => RInv' /\ QStep
<1> SUFFICES ASSUME RInv, AcquireSqe, ~ SqFull PROVE RInv' /\ QStep
  OBVIOUS
<1> DEFINE free == SqIndex(sqTail)
<1>1. Ranges /\ SqRing /\ SqQueue
  BY ThisState
<1>2. Head(todo) \in Ops /\ todo # <<>>
  BY TodoHead DEF AcquireSqe
<1>3. SqLen < ring_size /\ SqLen \in 0..(Entries(ring_size) - 1)
  BY <1>1 DEF SqFull, SqLen, Ranges
<1>4. /\ sqes' = [sqes EXCEPT ![free] = Head(todo)] /\ pc' = "filled"
      /\ free \in Slots /\ sqes \in [Slots -> Ops \cup {Free}]
      /\ UNCHANGED <<sqpoll, ring_size, todo, parked, cqe_storage,
                     io_events_to_submit, array, sqHead, sqTail, seenTail,
                     cqRing, kernel>>
  BY <1>1 DEF AcquireSqe, RInv, TypeOK, Ranges, Counters
<1>5. ASSUME NEW k \in 0..(SqLen - 1)
      PROVE  SqIndex(sqHead + k) # free
  <2>1. k \in 0..(Entries(ring_size) - 1) /\ k # SqLen
    BY <1>1, <1>3 DEF Ranges
  <2> QED BY <1>1, <1>3, <2>1 DEF SqRing
<1>6. SqLen' = SqLen
  BY <1>4 DEF SqLen
<1> HIDE DEF free
<1>7. TypeOK'
  <2>1. sqes' \in [Slots -> Ops \cup {Free}] /\ Slots' = Slots
        /\ CqSlots' = CqSlots
    BY <1>2, <1>4 DEF Slots, CqSlots
  <2> QED BY <1>4, <2>1 DEF RInv, TypeOK, cqRing, kernel
<1>8. SqInv'
  <2>1. ASSUME NEW k \in 0..(SqLen - 1)
        PROVE  LET slot == SqIndex(sqHead + k) IN
                 array[slot] = slot /\ sqes'[slot] \in Ops
    <3>1. /\ array[SqIndex(sqHead + k)] = SqIndex(sqHead + k)
          /\ sqes[SqIndex(sqHead + k)] \in Ops
      BY DEF RInv, SqInv
    <3>2. SqIndex(sqHead + k) \in Slots
      BY <1>1 DEF Ranges, Counters
    <3> QED BY <1>4, <1>5, <3>1, <3>2
  <2> QED BY <1>4, <1>6, <2>1 DEF RInv, SqInv, SqIndex
<1>9. CqInv' /\ CqLen' = CqLen /\ Completed' = Completed
  BY <1>4, CqSame DEF RInv
<1>10. HandlerInv' /\ HeldInv'
  <2>1. sqes'[free] = Head(todo)
    BY <1>4
  <2> QED BY <1>2, <1>3, <1>4, <1>6, <2>1
          DEF RInv, HandlerInv, HeldInv, InSeq, SqIndex, free
<1>11. Submitted' = Submitted
  <2>1. SqQueue'
    BY <1>7, <1>8, <1>9, NextQueues
  <2>2. ASSUME NEW k \in 1..SqLen PROVE Submitted'[k] = Submitted[k]
    <3>1. k - 1 \in 0..(SqLen - 1) /\ sqHead + (k - 1) \in Int
      BY <1>1 DEF Ranges, Counters
    <3>2. /\ SqIndex(sqHead + (k - 1)) # free
          /\ SqIndex(sqHead + (k - 1)) \in Slots
      BY <1>1, <1>5, <3>1 DEF Ranges
    <3>3. sqes'[SqIndex(sqHead + (k - 1))] = sqes[SqIndex(sqHead + (k - 1))]
      BY <1>4, <3>2
    <3>4. Submitted'[k] = sqes'[SqIndex(sqHead + (k - 1))]
      BY <1>4, <1>6, <2>1 DEF SqQueue, SqIndex
    <3> QED BY <1>1, <3>3, <3>4 DEF SqQueue
  <2>3. /\ Submitted' \in Seq(Ops) /\ Submitted \in Seq(Ops)
        /\ Len(Submitted') = SqLen /\ Len(Submitted) = SqLen
    BY <1>1, <1>6, <2>1 DEF SqQueue
  <2> QED BY <2>2, <2>3, SameSeq
<1>12. QStep
  <2>1. pc # "failed" /\ pc' # "failed"
    BY <1>4 DEF AcquireSqe
  <2> QED BY <1>4, <1>9, <1>11, <2>1 DEF QStep, Queues!vars, InSeq, kernel
<1> QED BY <1>7, <1>8, <1>9, <1>10, <1>12 DEF RInv

-----------------------------------------------------------------------------
(***************************************************************************)
(* The entry is announced, after its index is written.                     *)
(***************************************************************************)

\* iou_submit_sqe makes the entry the last of the queue.
LEMMA SubmitStep == RInv /\ SubmitSqe => RInv' /\ QStep
<1> SUFFICES ASSUME RInv, SubmitSqe PROVE RInv' /\ QStep
  OBVIOUS
<1> DEFINE free == SqIndex(sqTail)
           o == Head(todo)
<1>1. Ranges /\ SqRing /\ SqQueue
  BY ThisState
<1>2. /\ pc = "filled" /\ todo # <<>> /\ sqes[free] = o
      /\ SqLen < ring_size /\ SqLen \in 0..(Entries(ring_size) - 1)
  BY <1>1 DEF SubmitSqe, RInv, HeldInv, Ranges
<1>3. /\ o \in Ops /\ o \in InSeq(todo)
      /\ InSeq(todo) = {o} \cup InSeq(Tail(todo)) /\ o \notin InSeq(Tail(todo))
      /\ Tail(todo) = <<>> \/ \E p \in Ops : Tail(todo) = <<p>>
  BY <1>2, TodoHead
<1>4. /\ array' = [array EXCEPT ![free] = free] /\ sqTail' = (sqTail + 1) % Word
      /\ todo' = Tail(todo) /\ pc' = "handle"
      /\ io_events_to_submit' \in Nat
      /\ free \in Slots /\ array \in [Slots -> Slots]
      /\ UNCHANGED <<sqpoll, ring_size, parked, cqe_storage, sqes, sqHead,
                     seenTail, cqRing, kernel>>
  BY <1>1 DEF SubmitSqe, RInv, TypeOK, Ranges, Counters
<1>5. ASSUME NEW k \in 0..(SqLen - 1)
      PROVE  SqIndex(sqHead + k) # free
  <2>1. k \in 0..(Entries(ring_size) - 1) /\ k # SqLen
    BY <1>1, <1>2 DEF Ranges
  <2> QED BY <1>1, <1>2, <2>1 DEF SqRing
<1>6. SqLen' = SqLen + 1 /\ sqTail' \in Counters
  <2>1. Minus(sqTail, sqHead) < Word - 1
    BY <1>1, <1>2 DEF Ranges, SqLen
  <2> QED BY <1>1, <1>4, <2>1, Grow DEF Ranges, SqLen
<1>7. SqIndex(sqHead + SqLen) = free
  BY <1>1 DEF SqRing
<1> HIDE DEF free, o
<1>8. TypeOK'
  <2>1. /\ array' \in [Slots -> Slots] /\ Slots' = Slots /\ CqSlots' = CqSlots
        /\ sqTail' \in 0..(Word - 1)
    BY <1>4, <1>6 DEF Slots, CqSlots, Counters
  <2>2. todo' \in Seq(Ops)
    BY <1>2, <1>4 DEF RInv, TypeOK
  <2> QED BY <1>4, <2>1, <2>2 DEF RInv, TypeOK, cqRing, kernel
<1>9. SqInv'
  <2>1. ASSUME NEW k \in 0..SqLen
        PROVE  LET slot == SqIndex(sqHead + k) IN
                 array'[slot] = slot /\ sqes[slot] \in Ops
    <3>1. CASE k = SqLen
      BY <1>2, <1>3, <1>4, <1>7, <3>1
    <3>2. CASE k # SqLen
      <4>1. k \in 0..(SqLen - 1) /\ sqHead + k \in Int
        BY <1>1, <3>2 DEF Ranges, Counters
      <4>2. /\ array[SqIndex(sqHead + k)] = SqIndex(sqHead + k)
            /\ sqes[SqIndex(sqHead + k)] \in Ops
        BY <4>1 DEF RInv, SqInv
      <4>3. SqIndex(sqHead + k) \in Slots /\ SqIndex(sqHead + k) # free
        BY <1>1, <1>5, <4>1 DEF Ranges
      <4> QED BY <1>4, <4>2, <4>3
    <3> QED BY <3>1, <3>2
  <2>2. SqLen' <= ring_size /\ Minus(seenTail, sqHead) <= SqLen'
    BY <1>1, <1>2, <1>6 DEF RInv, SqInv, Ranges
  <2>3. 0..(SqLen' - 1) = 0..SqLen
    BY <1>1, <1>6 DEF Ranges
  <2> QED BY <1>4, <2>1, <2>2, <2>3 DEF SqInv, SqIndex
<1>10. CqInv' /\ CqLen' = CqLen /\ Completed' = Completed
  BY <1>4, CqSame DEF RInv
<1>11. HandlerInv' /\ HeldInv'
  <2>1. HandlerInv'
    BY <1>3, <1>4 DEF RInv, HandlerInv, InSeq
  <2> QED BY <1>4, <2>1 DEF HeldInv
<1>12. Submitted' = Append(Submitted, o)
  <2>1. SqQueue'
    BY <1>8, <1>9, <1>10, NextQueues
  <2>2. ASSUME NEW k \in 1..(SqLen + 1)
        PROVE  Submitted'[k] = sqes[SqIndex(sqHead + (k - 1))]
    BY <1>4, <1>6, <2>1 DEF SqQueue, SqIndex
  <2>3. \A k \in 1..SqLen : Submitted'[k] = Submitted[k]
    <3>1. 1..SqLen \subseteq 1..(SqLen + 1)
      BY <1>1 DEF Ranges
    <3> QED BY <1>1, <2>2, <3>1 DEF SqQueue
  <2>4. Submitted'[SqLen + 1] = o
    <3>1. SqLen + 1 \in 1..(SqLen + 1) /\ SqLen + 1 - 1 = SqLen
      BY <1>1 DEF Ranges
    <3> QED BY <1>2, <1>7, <2>2, <3>1
  <2>5. /\ Submitted' \in Seq(Ops) /\ Submitted \in Seq(Ops)
        /\ Len(Submitted') = SqLen + 1 /\ Len(Submitted) = SqLen
    BY <1>1, <1>6, <2>1 DEF SqQueue
  <2> QED BY <1>3, <2>3, <2>4, <2>5, OneMore
<1>13. QStep
  <2>1. parked' \cup InSeq(todo') = (parked \cup InSeq(todo)) \ {o}
    <3>1. InSeq(todo') = InSeq(Tail(todo))
      BY <1>4 DEF InSeq
    <3> QED BY <1>3, <1>4, <3>1 DEF RInv, HandlerInv
  <2>2. Len(Submitted) < ring_size
    BY <1>1, <1>2 DEF SqQueue
  <2>3. kern' = kern /\ (pc' = "failed") = (pc = "failed")
    BY <1>2, <1>4 DEF kernel
  <2>4. o \in parked \cup InSeq(todo)
    BY <1>3
  <2>5. UNCHANGED <<ring_size, kern, Completed, pc = "failed">>
    BY <1>4, <1>10, <2>3
  <2>6. Queues!Submit(o)
    BY <1>12, <2>1, <2>2, <2>4, <2>5 DEF Queues!Submit
  <2> QED BY <1>3, <2>6 DEF QStep, Queues!Next
<1> QED BY <1>8, <1>9, <1>10, <1>11, <1>13 DEF RInv

-----------------------------------------------------------------------------
(***************************************************************************)
(* The kernel takes the entry at the head.                                 *)
(***************************************************************************)

\* The kernel takes the oldest entry, whole.
LEMMA TakeStep == RInv /\ Take => RInv' /\ QStep
<1> SUFFICES ASSUME RInv, Take PROVE RInv' /\ QStep
  OBVIOUS
<1> DEFINE first == SqIndex(sqHead + 0)
<1>1. Ranges /\ SqRing /\ SqQueue
  BY ThisState
<1>2. Minus(seenTail, sqHead) > 0 /\ SqLen > 0
  <2>1. Minus(seenTail, sqHead) > 0
    BY <1>1, Shrink DEF Take, Ranges
  <2> QED BY <1>1, <2>1 DEF RInv, SqInv, Ranges
<1>3. sqTail # sqHead
  BY <1>1, <1>2, Difference DEF Ranges, SqLen, Counters
<1>4. /\ 0 \in 0..(SqLen - 1) /\ sqHead + 0 = sqHead /\ first \in Slots
      /\ SqIndex(sqHead) = first
  BY <1>1, <1>2 DEF Ranges, Counters
<1>5. array[first] = first /\ sqes[first] \in Ops
  BY <1>4 DEF RInv, SqInv
<1> HIDE DEF first
<1>6. /\ kern' = kern \cup {sqes[first]}
      /\ sqes' = [sqes EXCEPT ![first] = Free]
      /\ sqHead' = (sqHead + 1) % Word /\ allow' \in Nat
      /\ sqes \in [Slots -> Ops \cup {Free}]
      /\ UNCHANGED <<sqpoll, ring_size, server, array, sqTail, seenTail, cqRing,
                     thread, flag, short>>
  <2>1. allow' \in Nat
    BY DEF Take, RInv, TypeOK
  <2> QED BY <1>4, <1>5, <2>1 DEF Take, RInv, TypeOK
<1>7. /\ SqLen' = SqLen - 1 /\ sqHead' \in Counters
      /\ Minus(seenTail, sqHead') = Minus(seenTail, sqHead) - 1
  BY <1>1, <1>3, <1>6, Shrink DEF Ranges, SqLen, Take
<1>8. SqLen <= Entries(ring_size)
  BY <1>1 DEF RInv, SqInv, Ranges
<1>9. ASSUME NEW k \in 0..(SqLen - 2)
      PROVE  /\ SqIndex(sqHead' + k) = SqIndex(sqHead + (k + 1))
             /\ SqIndex(sqHead' + k) # first /\ SqIndex(sqHead' + k) \in Slots
             /\ k + 1 \in 0..(SqLen - 1)
  <2>1. k \in Nat /\ k + 1 \in 0..(SqLen - 1) /\ k + 1 # 0
        /\ k + 1 \in 0..(Entries(ring_size) - 1)
        /\ 0 \in 0..(Entries(ring_size) - 1) /\ sqHead + (k + 1) \in Int
    BY <1>1, <1>8 DEF Ranges, Counters
  <2>2. SqIndex(sqHead + (k + 1)) # SqIndex(sqHead + 0)
    BY <1>1, <2>1 DEF SqRing
  <2>3. SqIndex(sqHead' + k) = SqIndex(sqHead + (k + 1))
    BY <1>1, <1>6, <2>1 DEF SqRing
  <2>4. SqIndex(sqHead + (k + 1)) \in Slots
    BY <1>1, <2>1 DEF Ranges
  <2> QED BY <2>1, <2>2, <2>3, <2>4 DEF first
<1>10. TypeOK'
  <2>1. /\ sqes' \in [Slots -> Ops \cup {Free}] /\ Slots' = Slots
        /\ CqSlots' = CqSlots /\ sqHead' \in 0..(Word - 1)
    BY <1>6, <1>7 DEF Slots, CqSlots, Counters
  <2>2. kern' \subseteq Ops
    BY <1>5, <1>6 DEF RInv, TypeOK
  <2> QED BY <1>6, <2>1, <2>2 DEF RInv, TypeOK, cqRing, server
<1>11. SqInv'
  <2>1. ASSUME NEW k \in 0..(SqLen - 2)
        PROVE  LET slot == SqIndex(sqHead' + k) IN
                 array[slot] = slot /\ sqes'[slot] \in Ops
    <3>1. /\ array[SqIndex(sqHead + (k + 1))] = SqIndex(sqHead + (k + 1))
          /\ sqes[SqIndex(sqHead + (k + 1))] \in Ops
      BY <1>9 DEF RInv, SqInv
    <3> QED BY <1>6, <1>9, <3>1
  <2>2. SqLen' <= ring_size /\ Minus(seenTail, sqHead') <= SqLen'
    BY <1>1, <1>7 DEF RInv, SqInv, Ranges
  <2>3. 0..(SqLen' - 1) = 0..(SqLen - 2)
    BY <1>1, <1>7 DEF Ranges
  <2> QED BY <1>6, <2>1, <2>2, <2>3 DEF SqInv, SqIndex
<1>12. CqInv' /\ CqLen' = CqLen /\ Completed' = Completed
  BY <1>6, CqSame DEF RInv
<1>13. HandlerInv' /\ HeldInv'
  <2>1. HandlerInv'
    BY <1>6 DEF RInv, HandlerInv, server, InSeq
  <2>2. ASSUME pc = "filled"
        PROVE  SqLen' < ring_size /\ sqes'[SqIndex(sqTail)] = Head(todo)
               /\ todo # <<>>
    <3>1. SqLen < ring_size /\ sqes[SqIndex(sqTail)] = Head(todo) /\ todo # <<>>
      BY <2>2 DEF RInv, HeldInv
    <3>2. SqLen \in 0..(Entries(ring_size) - 1) /\ SqLen # 0
          /\ 0 \in 0..(Entries(ring_size) - 1)
      BY <1>1, <1>2, <3>1 DEF Ranges
    <3>3. SqIndex(sqTail) # first
      BY <1>1, <3>2 DEF SqRing, first
    <3>4. SqIndex(sqTail) \in Slots
      BY <1>1 DEF Ranges, Counters
    <3> QED BY <1>1, <1>6, <1>7, <3>1, <3>3, <3>4 DEF Ranges
  <2>3. pc = "consumed" => CqLen > 0 /\ cqe_storage = cqes[CqIndex(cqHead)]
    BY DEF RInv, HeldInv
  <2> QED BY <1>6, <1>12, <2>1, <2>2, <2>3
          DEF HeldInv, server, cqRing, SqIndex, CqIndex
<1>14. Submitted' = Tail(Submitted) /\ Head(Submitted) = sqes[first]
       /\ Submitted # <<>>
  <2>1. SqQueue'
    BY <1>10, <1>11, <1>12, NextQueues
  <2>2. ASSUME NEW k \in 1..(SqLen - 1)
        PROVE  Submitted'[k] = Submitted[k + 1]
    <3>1. /\ k - 1 \in 0..(SqLen - 2) /\ k - 1 + 1 = k /\ k + 1 - 1 = k
          /\ k + 1 \in 1..SqLen
      BY <1>1 DEF Ranges
    <3>2. Submitted'[k] = sqes'[SqIndex(sqHead' + (k - 1))]
      BY <1>6, <1>7, <2>1 DEF SqQueue, SqIndex
    <3>3. SqIndex(sqHead' + (k - 1)) = SqIndex(sqHead + k)
          /\ SqIndex(sqHead' + (k - 1)) # first
          /\ SqIndex(sqHead' + (k - 1)) \in Slots
      BY <1>9, <3>1
    <3>4. Submitted[k + 1] = sqes[SqIndex(sqHead + k)]
      BY <1>1, <3>1 DEF SqQueue
    <3> QED BY <1>6, <3>2, <3>3, <3>4
  <2>3. /\ Submitted' \in Seq(Ops) /\ Submitted \in Seq(Ops)
        /\ Len(Submitted') = SqLen - 1 /\ Len(Submitted) = SqLen
    BY <1>1, <1>7, <2>1 DEF SqQueue
  <2>4. Submitted # <<>>
    BY <1>2, <2>3
  <2>5. Submitted[1] = sqes[first]
    <3>1. 1 \in 1..SqLen /\ 1 - 1 = 0
      BY <1>1, <1>2 DEF Ranges
    <3> QED BY <1>1, <3>1 DEF SqQueue, first
  <2> QED BY <2>2, <2>3, <2>4, <2>5, OneLess
<1>15. QStep
  <2>1. UNCHANGED <<ring_size, parked \cup InSeq(todo), Completed,
                    pc = "failed">>
    BY <1>6, <1>12 DEF server, InSeq
  <2>2. Queues!Take
    BY <1>6, <1>14, <2>1 DEF Queues!Take
  <2> QED BY <2>2 DEF QStep, Queues!Next
<1> QED BY <1>10, <1>11, <1>12, <1>13, <1>15 DEF RInv

-----------------------------------------------------------------------------
(***************************************************************************)
(* A completion is announced, where there is room for it.                  *)
(***************************************************************************)

\* A completion becomes the last of its queue and overwrites none that waits.
LEMMA CompleteStep ==
  ASSUME NEW o \in Ops
  PROVE  RInv /\ Complete(o) => RInv' /\ QStep
<1> SUFFICES ASSUME RInv, Complete(o) PROVE RInv' /\ QStep
  OBVIOUS
<1> DEFINE last == CqIndex(cqTail)
<1>1. Ranges /\ CqRing /\ CqQueue
  BY ThisState
<1>2. CqLen < CqEntries(ring_size) /\ CqLen \in 0..(CqEntries(ring_size) - 1)
  BY <1>1 DEF Complete, CqLen, Ranges
<1>3. /\ o \in kern /\ kern' = kern \ {o}
      /\ cqes' = [cqes EXCEPT ![last] = o] /\ cqTail' = (cqTail + 1) % Word
      /\ last \in CqSlots /\ cqes \in [CqSlots -> Ops \cup {Free}]
      /\ UNCHANGED <<sqpoll, ring_size, server, sqRing, cqHead, allow, thread,
                     flag, short>>
  BY <1>1 DEF Complete, RInv, TypeOK, Ranges, Counters
<1>4. ASSUME NEW k \in 0..(CqLen - 1)
      PROVE  CqIndex(cqHead + k) # last /\ CqIndex(cqHead + k) \in CqSlots
  <2>1. k \in 0..(CqEntries(ring_size) - 1) /\ k # CqLen /\ cqHead + k \in Int
    BY <1>1, <1>2 DEF Ranges, Counters
  <2> QED BY <1>1, <1>2, <2>1 DEF CqRing, Ranges
<1>5. CqLen' = CqLen + 1 /\ cqTail' \in Counters
  <2>1. Minus(cqTail, cqHead) < Word - 1
    BY <1>1, <1>2 DEF Ranges, CqLen
  <2> QED BY <1>1, <1>3, <2>1, Grow DEF Ranges, CqLen
<1>6. CqIndex(cqHead + CqLen) = last
  BY <1>1 DEF CqRing
<1> HIDE DEF last
<1>7. TypeOK'
  <2>1. /\ cqes' \in [CqSlots -> Ops \cup {Free}] /\ Slots' = Slots
        /\ CqSlots' = CqSlots /\ cqTail' \in 0..(Word - 1)
        /\ kern' \subseteq Ops
    BY <1>3, <1>5 DEF Slots, CqSlots, Counters, RInv, TypeOK
  <2> QED BY <1>3, <2>1 DEF RInv, TypeOK, sqRing, server
<1>8. SqInv' /\ SqLen' = SqLen /\ Submitted' = Submitted
  BY <1>3, SqSame DEF RInv
<1>9. CqInv'
  <2>1. ASSUME NEW k \in 0..CqLen
        PROVE  cqes'[CqIndex(cqHead + k)] \in Ops
    <3>1. CASE k = CqLen
      BY <1>3, <1>6, <3>1
    <3>2. CASE k # CqLen
      <4>1. k \in 0..(CqLen - 1)
        BY <1>1, <3>2 DEF Ranges
      <4>2. cqes[CqIndex(cqHead + k)] \in Ops
        BY <4>1 DEF RInv, CqInv
      <4> QED BY <1>3, <1>4, <4>1, <4>2
    <3> QED BY <3>1, <3>2
  <2>2. CqLen' <= CqEntries(ring_size) /\ 0..(CqLen' - 1) = 0..CqLen
    BY <1>1, <1>2, <1>5 DEF Ranges
  <2> QED BY <1>3, <2>1, <2>2 DEF CqInv, CqIndex
<1>10. HandlerInv' /\ HeldInv'
  <2>1. HandlerInv'
    BY <1>3 DEF RInv, HandlerInv, server, InSeq
  <2>2. pc = "filled" => /\ todo # <<>> /\ SqLen < ring_size
                         /\ sqes[SqIndex(sqTail)] = Head(todo)
    BY DEF RInv, HeldInv
  <2>3. ASSUME pc = "consumed"
        PROVE  CqLen' > 0 /\ cqe_storage = cqes'[CqIndex(cqHead)]
    <3>1. CqLen > 0 /\ cqe_storage = cqes[CqIndex(cqHead)]
      BY <2>3 DEF RInv, HeldInv
    <3>2. 0 \in 0..(CqLen - 1) /\ cqHead + 0 = cqHead
      BY <1>1, <3>1 DEF Ranges, Counters
    <3>3. CqIndex(cqHead) # last /\ CqIndex(cqHead) \in CqSlots
      BY <1>4, <3>2
    <3> QED BY <1>1, <1>3, <1>5, <3>1, <3>3 DEF Ranges
  <2> QED BY <1>3, <1>8, <2>1, <2>2, <2>3
          DEF HeldInv, server, sqRing, SqIndex, CqIndex
<1>11. Completed' = Append(Completed, o)
  <2>1. CqQueue'
    BY <1>7, <1>8, <1>9, NextQueues
  <2>2. ASSUME NEW k \in 1..(CqLen + 1)
        PROVE  Completed'[k] = cqes'[CqIndex(cqHead + (k - 1))]
    BY <1>3, <1>5, <2>1 DEF CqQueue, CqIndex
  <2>3. ASSUME NEW k \in 1..CqLen
        PROVE  Completed'[k] = Completed[k]
    <3>1. k \in 1..(CqLen + 1) /\ k - 1 \in 0..(CqLen - 1)
      BY <1>1 DEF Ranges
    <3>2. cqes'[CqIndex(cqHead + (k - 1))] = cqes[CqIndex(cqHead + (k - 1))]
      BY <1>3, <1>4, <3>1
    <3> QED BY <1>1, <2>2, <3>1, <3>2 DEF CqQueue
  <2>4. Completed'[CqLen + 1] = o
    <3>1. PICK k \in 1..(CqLen + 1) : k = CqLen + 1 /\ k - 1 = CqLen
      BY <1>1 DEF Ranges
    <3>2. Completed'[k] = cqes'[CqIndex(cqHead + CqLen)]
      BY <2>2, <3>1
    <3>3. cqes'[last] = o
      BY <1>3
    <3> QED BY <1>6, <3>1, <3>2, <3>3
  <2>5. /\ Completed' \in Seq(Ops) /\ Completed \in Seq(Ops)
        /\ Len(Completed') = CqLen + 1 /\ Len(Completed) = CqLen
    BY <1>1, <1>5, <2>1 DEF CqQueue
  <2> QED BY <2>3, <2>4, <2>5, OneMore
<1>12. QStep
  <2>1. UNCHANGED <<ring_size, parked \cup InSeq(todo), Submitted,
                    pc = "failed">>
    BY <1>3, <1>8 DEF server, InSeq
  <2>2. Queues!Complete(o)
    BY <1>3, <1>11, <2>1 DEF Queues!Complete
  <2> QED BY <2>2 DEF QStep, Queues!Next
<1> QED BY <1>7, <1>8, <1>9, <1>10, <1>12 DEF RInv

-----------------------------------------------------------------------------
(***************************************************************************)
(* The completion that was copied is given back, and its handler called.   *)
(***************************************************************************)

\* What the handler will submit are objects that are with the server.
LEMMA FollowersFacts ==
  ASSUME NEW o \in Ops, NEW t \in Followers(o), AcceptOp \notin parked,
         parked \subseteq Ops
  PROVE  /\ t \in Seq(Ops) /\ InSeq(t) \subseteq parked \cup {o}
         /\ o = AcceptOp => AcceptOp \in InSeq(t)
         /\ \/ t = <<>> \/ \E p \in Ops : t = <<p>>
            \/ \E p \in Ops \ {AcceptOp} : t = <<p, AcceptOp>>
<1>1. AcceptOp \in Ops
  BY RingAssumption
<1>2. CASE o = AcceptOp /\ \E p \in parked : t = <<p, AcceptOp>>
  <2>1. PICK p \in parked : t = <<p, AcceptOp>>
    BY <1>2
  <2>2. InSeq(t) = {p, AcceptOp}
    BY <2>1, InTwo
  <2> QED BY <1>1, <1>2, <2>1, <2>2
<1>3. CASE t = <<o>>
  <2>1. InSeq(t) = {o}
    BY <1>3, InOne
  <2> QED BY <1>1, <1>3, <2>1
<1>4. CASE o # AcceptOp /\ t = <<>>
  BY <1>4, InNone
<1> QED BY <1>2, <1>3, <1>4 DEF Followers

\* iou_get_cqe gives the slot back and the object to the handler.
LEMMA ConsumeStep == RInv /\ ConsumeCqe => RInv' /\ QStep
<1> SUFFICES ASSUME RInv, ConsumeCqe PROVE RInv' /\ QStep
  OBVIOUS
<1> DEFINE first == CqIndex(cqHead + 0)
           o == cqe_storage
<1>1. Ranges /\ CqRing /\ CqQueue
  BY ThisState
<1>2. CqLen > 0 /\ o = cqes[CqIndex(cqHead)] /\ todo = <<>>
  BY DEF ConsumeCqe, RInv, HeldInv, HandlerInv
<1>3. cqTail # cqHead
  BY <1>1, <1>2, Difference DEF Ranges, CqLen, Counters
<1>4. /\ 0 \in 0..(CqLen - 1) /\ cqHead + 0 = cqHead /\ first \in CqSlots
      /\ CqIndex(cqHead) = first
  BY <1>1, <1>2 DEF Ranges, Counters
<1>5. o = cqes[first] /\ o \in Ops
  BY <1>2, <1>4 DEF RInv, CqInv
<1> HIDE DEF first
<1>6. /\ cqHead' = (cqHead + 1) % Word /\ cqes' = [cqes EXCEPT ![first] = Free]
      /\ todo' \in Followers(o) /\ parked' = (parked \cup {o}) \ InSeq(todo')
      /\ cqe_storage' = Free /\ pc' = "handle" /\ pc = "consumed"
      /\ cqes \in [CqSlots -> Ops \cup {Free}]
      /\ UNCHANGED <<sqpoll, ring_size, io_events_to_submit, sqRing, cqTail,
                     kernel>>
  BY <1>4 DEF ConsumeCqe, RInv, TypeOK
<1> HIDE DEF o
<1>7. /\ todo' \in Seq(Ops) /\ InSeq(todo') \subseteq parked \cup {o}
      /\ o = AcceptOp => AcceptOp \in InSeq(todo')
      /\ \/ todo' = <<>> \/ \E p \in Ops : todo' = <<p>>
         \/ \E p \in Ops \ {AcceptOp} : todo' = <<p, AcceptOp>>
      /\ AcceptOp \notin parked /\ parked \subseteq Ops
  <2>1. AcceptOp \notin parked /\ parked \subseteq Ops
    BY DEF RInv, HandlerInv, TypeOK
  <2> QED BY <1>5, <1>6, <2>1, FollowersFacts
<1>8. CqLen' = CqLen - 1 /\ cqHead' \in Counters
  BY <1>1, <1>3, <1>6, Shrink DEF Ranges, CqLen
<1>9. ASSUME NEW k \in 0..(CqLen - 2)
      PROVE  /\ CqIndex(cqHead' + k) = CqIndex(cqHead + (k + 1))
             /\ CqIndex(cqHead' + k) # first /\ CqIndex(cqHead' + k) \in CqSlots
             /\ k + 1 \in 0..(CqLen - 1)
  <2>1. k \in Nat /\ k + 1 \in 0..(CqLen - 1) /\ k + 1 # 0
        /\ k + 1 \in 0..(CqEntries(ring_size) - 1)
        /\ 0 \in 0..(CqEntries(ring_size) - 1) /\ cqHead + (k + 1) \in Int
    BY <1>1 DEF Ranges, Counters, RInv, CqInv
  <2>2. CqIndex(cqHead + (k + 1)) # CqIndex(cqHead + 0)
    BY <1>1, <2>1 DEF CqRing
  <2>3. CqIndex(cqHead' + k) = CqIndex(cqHead + (k + 1))
    BY <1>1, <1>6, <2>1 DEF CqRing
  <2>4. CqIndex(cqHead + (k + 1)) \in CqSlots
    BY <1>1, <2>1 DEF Ranges
  <2> QED BY <2>1, <2>2, <2>3, <2>4 DEF first
<1>10. TypeOK'
  <2>1. /\ cqes' \in [CqSlots -> Ops \cup {Free}] /\ Slots' = Slots
        /\ CqSlots' = CqSlots /\ cqHead' \in 0..(Word - 1)
        /\ parked' \subseteq Ops
    BY <1>5, <1>6, <1>7, <1>8 DEF Slots, CqSlots, Counters
  <2> QED BY <1>6, <1>7, <2>1 DEF RInv, TypeOK, sqRing, kernel
<1>11. SqInv' /\ SqLen' = SqLen /\ Submitted' = Submitted
  BY <1>6, SqSame DEF RInv
<1>12. CqInv'
  <2>1. ASSUME NEW k \in 0..(CqLen - 2)
        PROVE  cqes'[CqIndex(cqHead' + k)] \in Ops
    <3>1. cqes[CqIndex(cqHead + (k + 1))] \in Ops
      BY <1>9 DEF RInv, CqInv
    <3> QED BY <1>6, <1>9, <3>1
  <2>2. CqLen' <= CqEntries(ring_size) /\ 0..(CqLen' - 1) = 0..(CqLen - 2)
    BY <1>1, <1>8 DEF RInv, CqInv, Ranges
  <2> QED BY <1>6, <2>1, <2>2 DEF CqInv, CqIndex
<1>13. HandlerInv' /\ HeldInv'
  <2>1. AcceptOp \notin parked' /\ parked' \cap InSeq(todo') = {}
    BY <1>6, <1>7
  <2> QED BY <1>6, <1>7, <2>1 DEF HandlerInv, HeldInv, InSeq
<1>14. Completed' = Tail(Completed) /\ Head(Completed) = o /\ Completed # <<>>
  <2>1. CqQueue'
    BY <1>10, <1>11, <1>12, NextQueues
  <2>2. ASSUME NEW k \in 1..(CqLen - 1)
        PROVE  Completed'[k] = Completed[k + 1]
    <3>1. /\ k - 1 \in 0..(CqLen - 2) /\ k - 1 + 1 = k /\ k + 1 - 1 = k
          /\ k + 1 \in 1..CqLen
      BY <1>1 DEF Ranges
    <3>2. Completed'[k] = cqes'[CqIndex(cqHead' + (k - 1))]
      BY <1>6, <1>8, <2>1 DEF CqQueue, CqIndex
    <3>3. CqIndex(cqHead' + (k - 1)) = CqIndex(cqHead + k)
          /\ CqIndex(cqHead' + (k - 1)) # first
          /\ CqIndex(cqHead' + (k - 1)) \in CqSlots
      BY <1>9, <3>1
    <3>4. Completed[k + 1] = cqes[CqIndex(cqHead + k)]
      BY <1>1, <3>1 DEF CqQueue
    <3> QED BY <1>6, <3>2, <3>3, <3>4
  <2>3. /\ Completed' \in Seq(Ops) /\ Completed \in Seq(Ops)
        /\ Len(Completed') = CqLen - 1 /\ Len(Completed) = CqLen
    BY <1>1, <1>8, <2>1 DEF CqQueue
  <2>4. Completed # <<>>
    BY <1>2, <2>3
  <2>5. Completed[1] = o
    <3>1. 1 \in 1..CqLen /\ 1 - 1 = 0
      BY <1>1, <1>2 DEF Ranges
    <3> QED BY <1>1, <1>5, <3>1 DEF CqQueue, first
  <2> QED BY <2>2, <2>3, <2>4, <2>5, OneLess
<1>15. QStep
  <2>1. parked' \cup InSeq(todo') = (parked \cup InSeq(todo)) \cup {o}
    BY <1>2, <1>6, <1>7, InNone
  <2>2. UNCHANGED <<ring_size, Submitted, kern, pc = "failed">>
    BY <1>6, <1>11 DEF kernel
  <2>3. Queues!Reap
    BY <1>14, <2>1, <2>2 DEF Queues!Reap
  <2> QED BY <2>3 DEF QStep, Queues!Next
<1> QED BY <1>10, <1>11, <1>12, <1>13, <1>15 DEF RInv

-----------------------------------------------------------------------------
(***************************************************************************)
(* The theorems.                                                           *)
(***************************************************************************)

\* Empty rings are consistent, and empty queues.
LEMMA InitRInv == Init => RInv /\ Queues!Init
<1> SUFFICES ASSUME Init PROVE RInv /\ Queues!Init
  OBVIOUS
<1>1. AcceptOp \in Ops /\ ring_size \in RingSizes
  BY RingAssumption DEF Init
<1>2. /\ ring_size \in Nat \ {0} /\ Word \in Nat \ {0}
      /\ Entries(ring_size) \in Nat \ {0} /\ CqEntries(ring_size) \in Nat \ {0}
  BY <1>1, EntriesFacts
<1>3. InSeq(todo) = {AcceptOp} /\ todo \in Seq(Ops)
  BY <1>1, InOne DEF Init
<1>4. 0 \in Counters
  BY <1>2 DEF Counters
<1>5. TypeOK
  <2>1. 0 \in Slots
    BY <1>2 DEF Slots
  <2> QED BY <1>1, <1>3, <1>4, <2>1 DEF Init, TypeOK, Counters
<1>6. SqLen = 0 /\ CqLen = 0 /\ Minus(seenTail, sqHead) = 0
  BY <1>2, <1>4, Difference DEF Init, SqLen, CqLen, Counters
<1>7. SqInv /\ CqInv
  BY <1>2, <1>6 DEF SqInv, CqInv
<1>8. HandlerInv /\ HeldInv
  <2>1. AcceptOp \notin parked /\ parked \cap InSeq(todo) = {}
    BY <1>3 DEF Init
  <2> QED BY <1>1, <2>1 DEF Init, HandlerInv, HeldInv
<1>9. RInv
  BY <1>5, <1>7, <1>8 DEF RInv
<1>10. Queues!Init
  <2>1. SqQueue /\ CqQueue
    BY <1>9, ThisState
  <2>2. Submitted = <<>> /\ Completed = <<>>
    BY <1>6, <2>1 DEF SqQueue, CqQueue
  <2>3. parked \cup InSeq(todo) = Ops
    BY <1>1, <1>3 DEF Init
  <2> QED BY <1>2, <2>2, <2>3 DEF Init, Queues!Init
<1> QED BY <1>9, <1>10

\* Every step keeps the rings consistent and is one of the queues or none.
LEMMA NextRInv == RInv /\ [Next]_vars => RInv' /\ QStep
<1> SUFFICES ASSUME RInv, [Next]_vars PROVE RInv' /\ QStep
  OBVIOUS
<1>1. CASE CopyCqe \/ NoCqe \/ Handled \/ Enter \/ Wake \/ Return \/ Drain
  BY <1>1, CopyCqeStep, NoCqeStep, HandledStep, EnterStep, WakeStep,
     ReturnStep, DrainStep
<1>2. CASE GoIdle \/ LookAgain
  BY <1>2, ThreadStep
<1>3. CASE AcquireSqe
  BY <1>3, RefuseStep, AcquireStep
<1>4. CASE SubmitSqe
  BY <1>4, SubmitStep
<1>5. CASE Take
  BY <1>5, TakeStep
<1>6. CASE \E o \in Ops : Complete(o)
  BY <1>6, CompleteStep
<1>7. CASE ConsumeCqe
  BY <1>7, ConsumeStep
<1>8. CASE UNCHANGED vars
  <2>1. RingsRest
    BY <1>8 DEF vars, server, sqRing, cqRing, kernel, RingsRest
  <2>2. TypeOK'
    BY <1>8 DEF RInv, TypeOK, vars, server, sqRing, cqRing, kernel, Slots,
                CqSlots
  <2> QED BY <1>8, <2>1, <2>2, RestStep
          DEF vars, server, RInv, HandlerInv
<1> QED BY <1>1, <1>2, <1>3, <1>4, <1>5, <1>6, <1>7, <1>8
        DEF Next, ServerStep, Ended, Stranded

\* Counters, slots and what the server holds of them are always consistent,
\* so that iou_acquire_sqe never hands out a slot that waits and iou_get_cqe
\* never reads one that was not written.
THEOREM RingInvariant == SafeSpec => []RInv
<1>1. Init => RInv
  BY InitRInv
<1>2. RInv /\ [Next]_vars => RInv'
  BY NextRInv
<1> QED BY <1>1, <1>2, PTL DEF SafeSpec

\* The counters of the rings stay in their words, the slots hold objects, and
\* the process is where the code can be.
THEOREM TypeCorrect == SafeSpec => []TypeOK
<1>1. RInv => TypeOK
  BY DEF RInv
<1> QED BY <1>1, RingInvariant, PTL

\* The rings are queues, whatever their size and the width of the counters:
\* no entry is overwritten before it is taken, none is taken twice or half
\* written, completions are reaped in order, and iou_acquire_sqe refuses only
\* when as many entries wait as iou_create was asked for.
THEOREM RingsAreQueues == SafeSpec => AreQueues
<1>1. Init => Queues!Init
  BY InitRInv
<1>2. RInv /\ [Next]_vars => [Queues!Next]_(Queues!vars)
  BY NextRInv DEF QStep
<1> QED BY <1>1, <1>2, RingInvariant, PTL
        DEF SafeSpec, AreQueues, Queues!SafeSpec

=============================================================================
