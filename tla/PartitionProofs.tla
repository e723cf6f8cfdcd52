-------------------------- MODULE PartitionProofs --------------------------
(***************************************************************************)
(* What thread_range guarantees, for every number of items and threads:    *)
(* each item belongs to the range of exactly one thread id, among those    *)
(* the threads of an execution can take.                                   *)
(***************************************************************************)
EXTENDS Partition, TLAPS

-----------------------------------------------------------------------------
(***************************************************************************)
(* Arithmetic: the SMT backend is told the few non-linear facts it needs.  *)
(***************************************************************************)

\* Multiplication by a natural number is monotone.
LEMMA ProductMonotone ==
  ASSUME NEW e \in Nat, NEW j \in Nat, NEW k \in Nat, j <= k
  PROVE  e * j <= e * k
<1> DEFINE d == k - j
<1>1. d \in Nat /\ k = j + d
  OBVIOUS
<1>2. e * (j + d) = e * j + e * d
  BY <1>1
<1>3. e * d \in Nat /\ e * j \in Nat
  BY <1>1
<1> QED BY <1>1, <1>2, <1>3

\* Quotient and remainder, as the definitions below use them.
LEMMA Division ==
  ASSUME NEW a \in Nat, NEW b \in Nat \ {0}
  PROVE  /\ a \div b \in Nat
         /\ a % b \in 0 .. b - 1
         /\ a = b * (a \div b) + (a % b)
  OBVIOUS

-----------------------------------------------------------------------------
(***************************************************************************)
(* The number of items per thread.                                         *)
(***************************************************************************)

\* Enough for the threads together to take every item, and not zero if there
\* is an item.
LEMMA ThreadElementsEnough ==
  ASSUME NEW n \in Nat, NEW threads \in Nat \ {0}
  PROVE  /\ ThreadElements(n, threads) \in Nat
         /\ n > 0 => ThreadElements(n, threads) > 0
         /\ n <= ThreadElements(n, threads) * threads
<1> DEFINE q == n \div threads
           r == n % threads
           e == ThreadElements(n, threads)
<1>1. q \in Nat /\ r \in 0 .. threads - 1 /\ n = threads * q + r
  BY Division
<1>2. CASE q = 0
  <2>1. e = n
    BY <1>2 DEF ThreadElements
  <2>2. 1 <= threads
    OBVIOUS
  <2>3. n * 1 <= n * threads
    BY <2>2, ProductMonotone
  <2> QED BY <2>1, <2>3
<1>3. CASE q # 0 /\ r = 0
  <2>1. e = q
    BY <1>1, <1>3 DEF ThreadElements
  <2> QED BY <2>1, <1>1, <1>3
<1>4. CASE q # 0 /\ r # 0
  <2>1. e = q + 1
    BY <1>1, <1>4 DEF ThreadElements
  <2>2. (q + 1) * threads = threads * q + threads
    BY <1>1
  <2> QED BY <2>1, <2>2, <1>1, <1>4
<1> QED BY <1>2, <1>3, <1>4

\* The bounds of a range are integers, it begins at a natural number and it
\* ends at the last item at the latest.
LEMMA ThreadRangeType ==
  ASSUME NEW n \in Nat, NEW threads \in Nat \ {0}, NEW tid \in Nat
  PROVE  /\ ThreadRange(n, threads, tid) \in [start : Nat, end : Nat]
         /\ ThreadRange(n, threads, tid).end <= n
<1> DEFINE e == ThreadElements(n, threads)
<1>1. e \in Nat
  BY ThreadElementsEnough
<1>2. e * tid \in Nat /\ e * (tid + 1) \in Nat
  BY <1>1
<1>3. Lesser(n, e * (tid + 1)) \in Nat /\ Lesser(n, e * (tid + 1)) <= n
  BY <1>2 DEF Lesser
<1> QED BY <1>2, <1>3 DEF ThreadRange

\* A range that begins within the items, or right after them, is not inverted.
LEMMA ThreadRangeNotInverted ==
  ASSUME NEW n \in Nat, NEW threads \in Nat \ {0}, NEW tid \in Nat,
         ThreadRange(n, threads, tid).start <= n
  PROVE  ThreadRange(n, threads, tid).start <= ThreadRange(n, threads, tid).end
<1> DEFINE e == ThreadElements(n, threads)
<1>1. e \in Nat
  BY ThreadElementsEnough
<1>2. e * tid <= e * (tid + 1) /\ e * tid \in Nat /\ e * (tid + 1) \in Nat
  BY <1>1, ProductMonotone
<1>3. e * tid <= n
  BY DEF ThreadRange
<1>4. e * tid <= Lesser(n, e * (tid + 1))
  BY <1>2, <1>3 DEF Lesser
<1> QED BY <1>4 DEF ThreadRange

-----------------------------------------------------------------------------
(***************************************************************************)
(* Every item is in exactly one range, and the ranges follow the ids.      *)
(***************************************************************************)

\* The items of a thread id are all before those of a higher one.
LEMMA RangesOrdered ==
  ASSUME NEW n \in Nat, NEW threads \in Nat \ {0},
         NEW j \in Nat, NEW k \in Nat, j < k,
         NEW h \in Int, NEW i \in Int,
         InRange(n, threads, j, h), InRange(n, threads, k, i)
  PROVE  h < i
<1> DEFINE e == ThreadElements(n, threads)
<1>1. e \in Nat
  BY ThreadElementsEnough
<1>2. e * (j + 1) <= e * k
  BY <1>1, ProductMonotone
<1>3. e * k <= i /\ h < Lesser(n, e * (j + 1))
  BY DEF InRange, ThreadRange
<1>4. e * k \in Nat /\ e * (j + 1) \in Nat
  BY <1>1
<1>5. h < e * (j + 1)
  BY <1>3, <1>4 DEF Lesser
<1> QED BY <1>2, <1>3, <1>4, <1>5

\* thread_range never gives an item to two thread ids.
THEOREM RangesDisjoint ==
  ASSUME NEW n \in Nat, NEW threads \in Nat \ {0},
         NEW j \in Nat, NEW k \in Nat, NEW i \in Int,
         InRange(n, threads, j, i), InRange(n, threads, k, i)
  PROVE  j = k
<1>1. ~ (j < k)
  <2>1. SUFFICES ASSUME j < k PROVE FALSE
    OBVIOUS
  <2>2. i < i
    BY <2>1, RangesOrdered
  <2> QED BY <2>2
<1>2. ~ (k < j)
  <2>1. SUFFICES ASSUME k < j PROVE FALSE
    OBVIOUS
  <2>2. i < i
    BY <2>1, RangesOrdered
  <2> QED BY <2>2
<1> QED BY <1>1, <1>2

\* thread_range leaves no item out: each is in the range of some id below the
\* number of threads.
THEOREM RangesCover ==
  ASSUME NEW n \in Nat, NEW threads \in Nat \ {0}, NEW i \in 0 .. n - 1
  PROVE  \E k \in 0 .. threads - 1 : InRange(n, threads, k, i)
<1> DEFINE e == ThreadElements(n, threads)
           k == i \div e
<1>1. e \in Nat \ {0} /\ n <= e * threads
  BY ThreadElementsEnough
<1> HIDE DEF e
<1>2. k \in Nat /\ i % e \in 0 .. e - 1 /\ i = e * k + (i % e)
  <2>1. i \in Nat
    OBVIOUS
  <2> QED BY <2>1, <1>1, Division
<1> HIDE DEF k
<1>3. e * (k + 1) = e * k + e
  BY <1>1, <1>2
<1>4. e * k \in Nat /\ e * k <= i /\ i < e * (k + 1)
  <2>1. e * k \in Nat
    BY <1>1, <1>2
  <2> QED BY <2>1, <1>1, <1>2, <1>3
<1>5. k < threads
  <2>1. SUFFICES ASSUME threads <= k PROVE FALSE
    BY <1>2
  <2>2. e * threads <= e * k
    BY <2>1, <1>1, <1>2, ProductMonotone
  <2>3. e * threads \in Nat
    BY <1>1
  <2> QED BY <2>2, <2>3, <1>1, <1>4
<1>6. HasRange(n, threads, k)
  <2>1. CASE n \div threads = 0
    <3>1. e = n
      BY <2>1 DEF ThreadElements, e
    <3>2. k = 0
      <4>1. SUFFICES ASSUME 1 <= k PROVE FALSE
        BY <1>2
      <4>2. e * 1 <= e * k
        BY <4>1, <1>1, <1>2, ProductMonotone
      <4> QED BY <4>2, <3>1, <1>1, <1>4
    <3> QED BY <3>2 DEF HasRange
  <2>2. CASE n \div threads # 0
    BY <2>2 DEF HasRange
  <2> QED BY <2>1, <2>2
<1>7. i < Lesser(n, e * (k + 1))
  BY <1>4 DEF Lesser
<1>8. InRange(n, threads, k, i)
  BY <1>4, <1>6, <1>7 DEF InRange, ThreadRange, e
<1>9. k \in 0 .. threads - 1
  BY <1>2, <1>5
<1> QED BY <1>8, <1>9

-----------------------------------------------------------------------------
(***************************************************************************)
(* How many items it takes for no range to begin behind the last of them.  *)
(***************************************************************************)

\* Where the range of the highest thread id begins, if it is rounded up.
LEMMA LastStart ==
  ASSUME NEW threads \in Nat, NEW q \in Nat, NEW r \in Nat
  PROVE  (q + 1) * (threads - 1) = (threads * q + r) - (q + r) + (threads - 1)
  OBVIOUS

\* Below the highest id ranges begin no later.
LEMMA StartBelowLast ==
  ASSUME NEW n \in Nat, NEW threads \in Nat \ {0}, NEW k \in 0 .. threads - 1
  PROVE  /\ ThreadRange(n, threads, k).start \in Nat
         /\ ThreadElements(n, threads) * (threads - 1) \in Nat
         /\ ThreadRange(n, threads, k).start <= ThreadElements(n, threads) * (threads - 1)
<1>1. ThreadElements(n, threads) \in Nat /\ threads - 1 \in Nat /\ k \in Nat /\ k <= threads - 1
  BY ThreadElementsEnough
<1>2. ThreadRange(n, threads, k).start = ThreadElements(n, threads) * k
  BY DEF ThreadRange
<1> QED BY <1>1, <1>2, ProductMonotone

\* With more than (threads - 1) * (threads - 1) items every range that
\* thread_range gives has an item.
THEOREM EveryRangeHasItems ==
  ASSUME NEW n \in Nat, NEW threads \in Nat \ {0}, (threads - 1) * (threads - 1) < n,
         NEW k \in 0 .. threads - 1, HasRange(n, threads, k)
  PROVE  ThreadRange(n, threads, k).start < n
<1> DEFINE q == n \div threads
           r == n % threads
           e == ThreadElements(n, threads)
<1>0. n > 0
  <2>1. (threads - 1) * (threads - 1) \in Nat
    OBVIOUS
  <2> QED BY <2>1
<1>1. q \in Nat /\ r \in 0 .. threads - 1 /\ n = threads * q + r
  BY Division
<1>2. CASE q = 0
  <2>1. k = 0 /\ e \in Nat
    BY <1>2, ThreadElementsEnough DEF HasRange
  <2>2. ThreadRange(n, threads, k).start = e * k
    BY DEF ThreadRange
  <2> QED BY <2>1, <2>2, <1>0
<1>3. CASE q # 0 /\ r = 0
  <2>1. e = q
    BY <1>1, <1>3 DEF ThreadElements
  <2> HIDE DEF q, r, e
  <2>2. e * (threads - 1) = n - q
    BY <2>1, <1>1, <1>3
  <2>3. /\ ThreadRange(n, threads, k).start \in Nat
        /\ ThreadRange(n, threads, k).start <= e * (threads - 1)
    BY StartBelowLast DEF e
  <2>4. ThreadRange(n, threads, k).start <= n - q
    BY <2>2, <2>3
  <2> QED BY <2>3, <2>4, <1>1, <1>3
<1>4. CASE q # 0 /\ r # 0
  <2>1. e = q + 1
    BY <1>1, <1>4 DEF ThreadElements
  <2> HIDE DEF q, r, e
  <2>2. e * (threads - 1) = n - (q + r) + (threads - 1)
    BY <2>1, <1>1, LastStart
  <2>3. threads - 1 < q + r
    <3> SUFFICES ASSUME q + r <= threads - 1 PROVE FALSE
      BY <1>1
    <3>1. q + 1 <= threads - 1 /\ q + 1 \in Nat /\ threads - 1 \in Nat
      BY <1>1, <1>4
    <3>2. (threads - 1) * (q + 1) <= (threads - 1) * (threads - 1)
      BY <3>1, ProductMonotone
    <3>3. (threads - 1) * (q + 1) = e * (threads - 1)
      BY <2>1, <3>1
    <3>4. n <= e * (threads - 1)
      BY <2>2, <1>1
    <3>5. (threads - 1) * (threads - 1) \in Nat /\ e * (threads - 1) \in Nat
      BY <2>1, <3>1
    <3> QED BY <3>2, <3>3, <3>4, <3>5
  <2>4. e * (threads - 1) < n
    BY <2>2, <2>3, <1>1
  <2>5. /\ ThreadRange(n, threads, k).start \in Nat /\ e * (threads - 1) \in Nat
        /\ ThreadRange(n, threads, k).start <= e * (threads - 1)
    BY StartBelowLast DEF e
  <2> QED BY <2>4, <2>5
<1> QED BY <1>1, <1>2, <1>3, <1>4

\* What is as a quotient and a remainder are, is them.
LEMMA OneQuotient ==
  ASSUME NEW a \in Nat, NEW b \in Nat \ {0}, NEW q \in Nat, NEW r \in 0 .. b - 1, a = b * q + r
  PROVE  a \div b = q /\ a % b = r
<1>1. PICK d \in Nat, m \in 0 .. b - 1 : d = a \div b /\ m = a % b /\ a = b * d + m
  BY Division
<1>2. ASSUME NEW x \in Nat, NEW y \in Nat, x + 1 <= y PROVE b * x + b <= b * y
  <2>1. b * (x + 1) <= b * y
    BY <1>2, ProductMonotone
  <2>2. b * (x + 1) = b * x + b
    OBVIOUS
  <2> QED BY <2>1, <2>2
<1>3. b * d \in Nat /\ b * q \in Nat
  BY <1>1
<1>4. ~ (d + 1 <= q)
  <2> SUFFICES ASSUME b * d + b <= b * q PROVE FALSE
    BY <1>2
  <2> QED BY <1>1, <1>3
<1>5. ~ (q + 1 <= d)
  <2> SUFFICES ASSUME b * q + b <= b * d PROVE FALSE
    BY <1>2
  <2> QED BY <1>1, <1>3
<1>6. d = q
  BY <1>4, <1>5
<1> QED BY <1>1, <1>3, <1>6

\* That bound is sharp: with one item less the last of three or more threads
\* has a range without items.
THEOREM LastRangeIsEmpty ==
  ASSUME NEW threads \in Nat, threads >= 3, NEW n \in Nat, n = (threads - 1) * (threads - 1)
  PROVE  HasRange(n, threads, threads - 1) /\ ThreadRange(n, threads, threads - 1).start = n
<1>1. n = threads * (threads - 2) + 1
  OBVIOUS
<1>2. PICK q \in Nat : q = threads - 2
  OBVIOUS
<1>3. n \div threads = q /\ n % threads = 1
  <2>1. n = threads * q + 1 /\ 1 \in 0 .. threads - 1 /\ threads \in Nat \ {0}
    BY <1>1, <1>2
  <2> QED BY <2>1, OneQuotient
<1>4. ThreadElements(n, threads) = threads - 1
  BY <1>2, <1>3 DEF ThreadElements
<1>5. ThreadRange(n, threads, threads - 1).start = (threads - 1) * (threads - 1)
  BY <1>4 DEF ThreadRange
<1> QED BY <1>2, <1>3, <1>5 DEF HasRange

\* Fewer items do for ranges that begin right behind the last item, too.
THEOREM EveryRangeBegins ==
  ASSUME NEW n \in Nat, NEW threads \in Nat \ {0}, threads * (threads - 3) + 1 < n,
         NEW k \in 0 .. threads - 1, HasRange(n, threads, k)
  PROVE  ThreadRange(n, threads, k).start <= n
<1> DEFINE q == n \div threads
           r == n % threads
           e == ThreadElements(n, threads)
<1>1. q \in Nat /\ r \in 0 .. threads - 1 /\ n = threads * q + r
  BY Division
<1>2. CASE q = 0
  <2>1. k = 0 /\ e \in Nat
    BY <1>2, ThreadElementsEnough DEF HasRange
  <2>2. ThreadRange(n, threads, k).start = e * k
    BY DEF ThreadRange
  <2> QED BY <2>1, <2>2
<1>3. CASE q # 0 /\ r = 0
  <2>1. e = q
    BY <1>1, <1>3 DEF ThreadElements
  <2> HIDE DEF q, r, e
  <2>2. e * (threads - 1) = n - q
    BY <2>1, <1>1, <1>3
  <2>3. /\ ThreadRange(n, threads, k).start \in Nat
        /\ ThreadRange(n, threads, k).start <= e * (threads - 1)
    BY StartBelowLast DEF e
  <2>4. ThreadRange(n, threads, k).start <= n - q
    BY <2>2, <2>3
  <2> QED BY <2>3, <2>4, <1>1, <1>3
<1>4. CASE q # 0 /\ r # 0
  <2>1. e = q + 1
    BY <1>1, <1>4 DEF ThreadElements
  <2> HIDE DEF q, r, e
  <2>2. e * (threads - 1) = n - (q + r) + (threads - 1)
    BY <2>1, <1>1, LastStart
  <2>3. threads - 1 <= q + r
    <3> SUFFICES ASSUME q + r <= threads - 2 PROVE FALSE
      BY <1>1
    <3>1. q <= threads - 3 /\ threads - 3 \in Nat /\ threads - 1 \in Nat
      BY <1>1, <1>4
    <3>2. (threads - 1) * q <= (threads - 1) * (threads - 3)
      BY <3>1, <1>1, ProductMonotone
    <3>3. threads * q = (threads - 1) * q + q
      BY <1>1, <3>1
    <3>4. threads * (threads - 3) = (threads - 1) * (threads - 3) + (threads - 3)
      BY <3>1
    <3>5. (threads - 1) * q \in Nat /\ (threads - 1) * (threads - 3) \in Nat
      BY <1>1, <3>1
    <3> QED BY <3>2, <3>3, <3>4, <3>5, <1>1
  <2>4. e * (threads - 1) <= n
    BY <2>2, <2>3, <1>1
  <2>5. /\ ThreadRange(n, threads, k).start \in Nat /\ e * (threads - 1) \in Nat
        /\ ThreadRange(n, threads, k).start <= e * (threads - 1)
    BY StartBelowLast DEF e
  <2> QED BY <2>4, <2>5
<1> QED BY <1>1, <1>2, <1>3, <1>4

=============================================================================
