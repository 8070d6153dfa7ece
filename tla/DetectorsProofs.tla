--------------------------- MODULE DetectorsProofs ---------------------------
(***************************************************************************)
(* TLAPS proofs about the detectors and the windows they read, for every   *)
(* configuration, any events and tapes of any length.                      *)
(*                                                                         *)
(* A window is compared with everything that was ever pushed into it: a    *)
(* function from the events of the tape to the entries pushed for them.    *)
(* An entry is found by how many newer ones there are, so the head of the  *)
(* ring, which wraps, cancels out.                                         *)
(***************************************************************************)
EXTENDS Detectors, FiniteSetTheorems, TLAPS

\* A set of natural numbers that is not empty has a least element.
LEMMA LeastNumber ==
  ASSUME NEW T \in SUBSET Nat, T # {}
  PROVE  \E m \in T : \A n \in T : m <= n
<1> DEFINE Less == OpToRel(<, Nat)
<1>1. IsWellFoundedOn(Less, Nat)
  BY NatLessThanWellFounded
<1>2. \A m, n \in Nat : <<m, n>> \in Less <=> m < n
  BY DEF OpToRel
<1> HIDE DEF Less
<1>3. PICK m \in T : \A n \in T : ~(<<n, m>> \in Less)
  BY <1>1, WFMin
<1>4. ASSUME NEW n \in T PROVE m <= n
  <2>1. m \in Nat /\ n \in Nat
    OBVIOUS
  <2>2. ~(n < m)
    BY <1>2, <1>3, <2>1
  <2>3. QED
    BY <2>1, <2>2
<1>5. QED
  BY <1>4

-----------------------------------------------------------------------------
(***************************************************************************)
(* How many members of a set of numbers are greater than one of them.      *)
(***************************************************************************)
Newer(K, i) == Cardinality({j \in K : j > i})

\* A greater member has fewer above it.
LEMMA NewerFalls ==
  ASSUME NEW K \in SUBSET Nat, IsFiniteSet(K), NEW i \in K
  PROVE  /\ Newer(K, i) \in Nat /\ Newer(K, i) < Cardinality(K) /\ Cardinality(K) \in Nat
         /\ \A j \in K : i < j => Newer(K, j) < Newer(K, i)
         /\ \A j \in K : Newer(K, i) = Newer(K, j) => i = j
         /\ \A j \in K : Newer(K, i) <= Newer(K, j) => j <= i
<1> DEFINE A(x) == {j \in K : j > x}
<1>1. ASSUME NEW x \in K
      PROVE  IsFiniteSet(A(x)) /\ Cardinality(A(x)) \in Nat /\ Newer(K, x) = Cardinality(A(x))
  <2>1. A(x) \in SUBSET K
    OBVIOUS
  <2>2. Newer(K, x) = Cardinality(A(x))
    BY DEF Newer
  <2> HIDE DEF A
  <2>3. QED
    BY <2>1, <2>2, FS_Subset, FS_CardinalityType
<1>2. Cardinality(A(i)) < Cardinality(K) /\ Cardinality(K) \in Nat
  <2>1. A(i) \in SUBSET (K \ {i})
    OBVIOUS
  <2>2. IsFiniteSet(K \ {i}) /\ Cardinality(K \ {i}) = Cardinality(K) - 1
        /\ Cardinality(K) \in Nat
    BY FS_RemoveElement, FS_CardinalityType
  <2> HIDE DEF A
  <2>3. Cardinality(A(i)) <= Cardinality(K \ {i})
    BY <2>1, <2>2, FS_Subset
  <2>4. QED
    BY <1>1, <2>2, <2>3
<1>3. ASSUME NEW x \in K, NEW y \in K, x < y
      PROVE  Cardinality(A(y)) < Cardinality(A(x))
  <2>1. A(y) \cup {y} \in SUBSET A(x)
    <3>1. \A j \in K : j > y => j > x
      BY <1>3
    <3>2. QED
      BY <1>3, <3>1
  <2>2. y \notin A(y)
    OBVIOUS
  <2> HIDE DEF A
  <2>3. Cardinality(A(y) \cup {y}) = Cardinality(A(y)) + 1
    BY <1>1, <2>2, FS_AddElement
  <2>4. Cardinality(A(y) \cup {y}) <= Cardinality(A(x))
    BY <1>1, <2>1, FS_Subset
  <2>5. QED
    BY <1>1, <2>3, <2>4
<1> HIDE DEF A
<1>4. ASSUME NEW j \in K PROVE i < j \/ i = j \/ j < i
  OBVIOUS
<1>5. \A j \in K : i < j => Newer(K, j) < Newer(K, i)
  BY <1>1, <1>3
<1>6. \A j \in K : j < i => Newer(K, i) < Newer(K, j)
  BY <1>1, <1>3
<1>7. \A j \in K : Newer(K, j) \in Nat
  BY <1>1
<1>8. ASSUME NEW j \in K
      PROVE  /\ Newer(K, i) = Newer(K, j) => i = j
             /\ Newer(K, i) <= Newer(K, j) => j <= i
  BY <1>4, <1>5, <1>6, <1>7
<1>9. QED
  BY <1>1, <1>2, <1>5, <1>8

\* For every count there is a member with just so many above it.
LEMMA NewerTaken ==
  ASSUME NEW K \in SUBSET Nat, IsFiniteSet(K), NEW m \in Nat, m < Cardinality(K)
  PROVE  \E i \in K : Newer(K, i) = m
<1> DEFINE N == Cardinality(K)
           D == 0 .. N - 1
           f == [i \in K |-> Newer(K, i)]
<1>1. N \in Nat
  BY FS_CardinalityType
<1>2. IsFiniteSet(D) /\ Cardinality(D) = N
  <2>1. 0 \in Int /\ N - 1 \in Int
    BY <1>1
  <2>2. IsFiniteSet(D) /\ Cardinality(D) = IF 0 > N - 1 THEN 0 ELSE (N - 1) - 0 + 1
    BY ONLY <2>1, FS_Interval
  <2>3. QED
    BY <1>1, <2>2
<1>3. f \in [K -> D]
  BY <1>1, NewerFalls
<1>4. \A i, j \in K : f[i] = f[j] => i = j
  BY NewerFalls
<1> HIDE DEF f
<1>5. f \in Injection(K, D)
  BY <1>3, <1>4 DEF Injection, IsInjective
<1>6. m \in D
  BY <1>1
<1>7. f \in Surjection(K, D)
  <2> HIDE DEF D
  <2>1. QED
    BY <1>2, <1>5, FS_Injection
<1>8. \E i \in K : f[i] = m
  BY <1>6, <1>7 DEF Surjection
<1>9. QED
  BY <1>8 DEF f

\* The newest n of a set are n.
LEMMA NewestCount ==
  ASSUME NEW K \in SUBSET Nat, IsFiniteSet(K), NEW n \in Nat, n <= Cardinality(K)
  PROVE  Cardinality({i \in K : Newer(K, i) < n}) = n
<1> DEFINE R == {i \in K : Newer(K, i) < n}
           D == 0 .. n - 1
           f == [i \in R |-> Newer(K, i)]
<1>1. IsFiniteSet(D) /\ Cardinality(D) = n
  <2>1. 0 \in Int /\ n - 1 \in Int
    OBVIOUS
  <2>2. IsFiniteSet(D) /\ Cardinality(D) = IF 0 > n - 1 THEN 0 ELSE (n - 1) - 0 + 1
    BY ONLY <2>1, FS_Interval
  <2>3. QED
    BY <2>2
<1>2. f \in [R -> D]
  <2>1. ASSUME NEW i \in R PROVE Newer(K, i) \in D
    BY NewerFalls
  <2>2. QED
    BY <2>1
<1>3. \A i, j \in R : f[i] = f[j] => i = j
  BY NewerFalls
<1>4. ASSUME NEW m \in D PROVE \E i \in R : f[i] = m
  <2>1. m \in Nat /\ m < Cardinality(K) /\ m < n
    BY FS_CardinalityType
  <2>2. PICK i \in K : Newer(K, i) = m
    BY <2>1, NewerTaken
  <2>3. QED
    BY <2>1, <2>2
<1> HIDE DEF f, R, D
<1>5. f \in Bijection(R, D)
  BY <1>2, <1>3, <1>4 DEF Bijection, Injection, IsInjective, Surjection
<1>6. IsFiniteSet(R)
  BY FS_Subset DEF R
<1>7. Cardinality(R) = Cardinality(D)
  BY <1>1, <1>5, <1>6, FS_Bijection DEF ExistsBijection
<1>8. QED
  BY <1>1, <1>7 DEF R

\* A number above them all is added.
LEMMA NewerOfMore ==
  ASSUME NEW K \in SUBSET Nat, IsFiniteSet(K), NEW m \in Nat, \A i \in K : i < m
  PROVE  /\ Newer(K \cup {m}, m) = 0
         /\ \A i \in K : Newer(K \cup {m}, i) = Newer(K, i) + 1
         /\ IsFiniteSet(K \cup {m}) /\ Cardinality(K \cup {m}) = Cardinality(K) + 1
<1>1. {j \in K \cup {m} : j > m} = {}
  <2>1. \A j \in K \cup {m} : ~(j > m)
    OBVIOUS
  <2>2. QED
    BY <2>1
<1>2. Newer(K \cup {m}, m) = 0
  BY <1>1, FS_EmptySet DEF Newer
<1>3. ASSUME NEW i \in K PROVE Newer(K \cup {m}, i) = Newer(K, i) + 1
  <2> DEFINE A == {j \in K : j > i}
  <2>1. {j \in K \cup {m} : j > i} = A \cup {m}
    <3>1. m > i
      OBVIOUS
    <3>2. QED
      BY <3>1
  <2>2. m \notin A /\ A \in SUBSET K
    OBVIOUS
  <2>3. Newer(K \cup {m}, i) = Cardinality(A \cup {m}) /\ Newer(K, i) = Cardinality(A)
    BY <2>1 DEF Newer
  <2> HIDE DEF A
  <2>4. IsFiniteSet(A)
    BY <2>2, FS_Subset
  <2>5. Cardinality(A \cup {m}) = Cardinality(A) + 1
    BY <2>2, <2>4, FS_AddElement
  <2>6. QED
    BY <2>3, <2>5
<1>4. m \notin K
  OBVIOUS
<1>5. QED
  BY <1>2, <1>3, <1>4, FS_AddElement

-----------------------------------------------------------------------------
(***************************************************************************)
(* The ring.                                                               *)
(***************************************************************************)
RingOK(w) ==
  /\ DOMAIN w = {"buf", "capacity", "window_ns", "head", "size", "overflowed"}
  /\ w.capacity \in Nat \ {0} /\ w.window_ns \in Int
  /\ w.head \in 0 .. w.capacity - 1 /\ w.size \in 0 .. w.capacity
  /\ DOMAIN w.buf = 0 .. w.capacity - 1
  /\ w.overflowed \in Nat

\* What was pushed: entries in the order of time, under numbers.
PushedOK(pushed) ==
  /\ DOMAIN pushed \in SUBSET Nat /\ IsFiniteSet(DOMAIN pushed)
  /\ \A i \in DOMAIN pushed : pushed[i].ts \in Int
  /\ \A i, j \in DOMAIN pushed : i <= j => pushed[i].ts <= pushed[j].ts

\* A timestamp none of the expiries at `times` drops.
Recent(w, ts, times) == \A t \in times : ts >= t - w.window_ns

\* The window has the newest entries, each in its place, and lacks none that
\* there is room for and that none of the expiries at `times` drops.
Carries(w, pushed, times) ==
  LET K == DOMAIN pushed IN
  /\ w.size <= Cardinality(K)
  /\ \A i \in K : Newer(K, i) < w.size =>
       w.buf[Slot(w, w.size - 1 - Newer(K, i))] = pushed[i]
  /\ \A i \in K : Newer(K, i) < w.capacity /\ Recent(w, pushed[i].ts, times)
                    => Newer(K, i) < w.size

\* ...and it has no entry those expiries drop.
Cleared(w, pushed, times) ==
  \A i \in DOMAIN pushed : Newer(DOMAIN pushed, i) < w.size => Recent(w, pushed[i].ts, times)

\* Positions wrap once.
LEMMA Wraps ==
  ASSUME NEW c \in Nat \ {0}, NEW h \in 0 .. c - 1, NEW p \in 0 .. c
  PROVE  (h + p) % c = IF h + p < c THEN h + p ELSE h + p - c
<1> DEFINE x == h + p
           q == x \div c
           r == x % c
<1>1. x \in Nat /\ x < 2 * c
  OBVIOUS
<1> HIDE DEF x
<1>2. x = c * q + r /\ r \in 0 .. c - 1 /\ q \in Int
  BY <1>1
<1> HIDE DEF q, r
<1>3. q = 0 \/ q = 1
  <2>1. ~(q >= 2)
    <3>1. ASSUME q >= 2 PROVE c * q >= c * 2
      BY <1>2, <3>1
    <3>2. QED
      BY <1>1, <1>2, <3>1
  <2>2. ~(q <= -1)
    <3>1. ASSUME q <= -1 PROVE c * q <= c * (-1)
      BY <1>2, <3>1
    <3>2. QED
      BY <1>1, <1>2, <3>1
  <2>3. QED
    BY <1>2, <2>1, <2>2
<1>4. r = IF x < c THEN x ELSE x - c
  BY <1>1, <1>2, <1>3
<1>5. QED
  BY <1>4 DEF x, r

LEMMA SlotIs ==
  ASSUME NEW w, RingOK(w), NEW p \in 0 .. w.capacity
  PROVE  /\ Slot(w, p) = IF w.head + p < w.capacity THEN w.head + p
                                                    ELSE w.head + p - w.capacity
         /\ Slot(w, p) \in 0 .. w.capacity - 1
<1>1. w.capacity \in Nat \ {0} /\ w.head \in 0 .. w.capacity - 1
  BY DEF RingOK
<1>2. (w.head + p) % w.capacity = IF w.head + p < w.capacity THEN w.head + p
                                                              ELSE w.head + p - w.capacity
  BY <1>1, Wraps
<1>3. QED
  BY <1>1, <1>2 DEF Slot

LEMMA AdvanceIs ==
  ASSUME NEW w, RingOK(w), NEW n \in 0 .. w.size
  PROVE  /\ RingOK(Advance(w, n))
         /\ Advance(w, n).size = w.size - n
         /\ Advance(w, n).buf = w.buf
         /\ Advance(w, n).capacity = w.capacity
         /\ Advance(w, n).window_ns = w.window_ns
         /\ Advance(w, n).overflowed = w.overflowed
         /\ \A p \in 0 .. w.capacity - n : Slot(Advance(w, n), p) = Slot(w, n + p)
<1> DEFINE v == Advance(w, n)
           slot == (w.head + n) % w.capacity
<1>1. /\ DOMAIN v = DOMAIN w /\ v.size = w.size - n /\ v.head = slot
      /\ v.buf = w.buf /\ v.capacity = w.capacity /\ v.window_ns = w.window_ns
      /\ v.overflowed = w.overflowed
  BY DEF Advance, RingOK
<1>2. /\ slot = IF w.head + n < w.capacity THEN w.head + n ELSE w.head + n - w.capacity
      /\ slot \in 0 .. w.capacity - 1
  <2>1. n \in 0 .. w.capacity
    BY DEF RingOK
  <2>2. slot = Slot(w, n)
    BY DEF Slot
  <2> HIDE DEF slot
  <2>3. QED
    BY <2>1, <2>2, SlotIs
<1> HIDE DEF v, slot
<1>3. RingOK(v)
  BY <1>1, <1>2 DEF RingOK
<1>4. ASSUME NEW p \in 0 .. w.capacity - n PROVE Slot(v, p) = Slot(w, n + p)
  <2>1. p \in 0 .. v.capacity /\ n + p \in 0 .. w.capacity
    BY <1>1 DEF RingOK
  <2>2. Slot(v, p) = IF v.head + p < v.capacity THEN v.head + p ELSE v.head + p - v.capacity
    BY <1>3, <2>1, SlotIs
  <2>3. Slot(w, n + p) = IF w.head + (n + p) < w.capacity THEN w.head + (n + p)
                                                     ELSE w.head + (n + p) - w.capacity
    BY <2>1, SlotIs
  <2>4. /\ w.head \in Nat /\ w.capacity \in Nat /\ n \in Nat /\ p \in Nat
        /\ n + p <= w.capacity /\ w.head < w.capacity
    BY <2>1 DEF RingOK
  <2>5. CASE w.head + n < w.capacity
    BY <1>1, <1>2, <2>2, <2>3, <2>4, <2>5
  <2>6. CASE ~(w.head + n < w.capacity)
    BY <1>1, <1>2, <2>2, <2>3, <2>4, <2>6
  <2>7. QED
    BY <2>5, <2>6
<1>5. QED
  BY <1>1, <1>3, <1>4 DEF v

LEMMA EmptyCarries ==
  ASSUME NEW capacity \in Nat, NEW window_ns \in Int, NEW pushed, DOMAIN pushed = {}
  PROVE  LET w == EmptyWindow(capacity, window_ns) IN
         /\ RingOK(w) /\ w.window_ns = window_ns /\ w.overflowed = 0
         /\ w.capacity = IF capacity = 0 THEN 1 ELSE capacity
         /\ \A times : Carries(w, pushed, times) /\ Cleared(w, pushed, times)
<1> DEFINE w == EmptyWindow(capacity, window_ns)
<1>1. /\ DOMAIN w = {"buf", "capacity", "window_ns", "head", "size", "overflowed"}
      /\ w.capacity = (IF capacity = 0 THEN 1 ELSE capacity)
      /\ w.window_ns = window_ns /\ w.head = 0 /\ w.size = 0 /\ w.overflowed = 0
      /\ DOMAIN w.buf = 0 .. w.capacity - 1
  BY DEF EmptyWindow
<1> HIDE DEF w
<1>2. RingOK(w)
  BY <1>1 DEF RingOK
<1>3. \A times : Carries(w, pushed, times) /\ Cleared(w, pushed, times)
  BY <1>1, FS_EmptySet DEF Carries, Cleared
<1>4. QED
  BY <1>1, <1>2, <1>3 DEF w

\* expire drops what is older and nothing else.
LEMMA ExpireCarries ==
  ASSUME NEW w, RingOK(w), NEW pushed, PushedOK(pushed), NEW times,
         Carries(w, pushed, times), NEW time \in Int
  PROVE  /\ RingOK(Expire(w, time))
         /\ Expire(w, time).capacity = w.capacity /\ Expire(w, time).window_ns = w.window_ns
         /\ Expire(w, time).overflowed = w.overflowed
         /\ Carries(Expire(w, time), pushed, times \cup {time})
         /\ Cleared(Expire(w, time), pushed, {time})
         /\ Cleared(w, pushed, times) => Cleared(Expire(w, time), pushed, times \cup {time})
<1> DEFINE K == DOMAIN pushed
           cutoff == time - w.window_ns
           T == {i \in 0 .. w.size : i < w.size => TsAt(w, i) >= cutoff}
           n == Min(T)
           v == Expire(w, time)
<1>1. /\ w.size \in Nat /\ w.capacity \in Nat \ {0} /\ w.size <= w.capacity
      /\ cutoff \in Int /\ w.size <= Cardinality(K)
      /\ K \in SUBSET Nat /\ IsFiniteSet(K)
  BY DEF RingOK, Carries, PushedOK
<1>2. n \in T /\ \A i \in T : n <= i
  <2>1. w.size \in T
    BY <1>1
  <2>2. T \in SUBSET Nat /\ T # {}
    BY <2>1
  <2> HIDE DEF T
  <2>3. \E m \in T : \A i \in T : m <= i
    BY <2>2, LeastNumber
  <2>4. QED
    BY <2>3 DEF Min
<1>3. v = Advance(w, n)
  BY DEF Expire
<1> HIDE DEF v, n
<1>4. /\ n \in 0 .. w.size
      /\ n < w.size => TsAt(w, n) >= cutoff
      /\ \A p \in 0 .. n - 1 : TsAt(w, p) < cutoff
  <2>1. n \in 0 .. w.size /\ (n < w.size => TsAt(w, n) >= cutoff)
    BY <1>2
  <2>2. ASSUME NEW p \in 0 .. n - 1 PROVE TsAt(w, p) < cutoff
    <3>1. p \in 0 .. w.size /\ p < w.size /\ p < n
      BY <1>1, <2>1
    <3>2. p \notin T
      BY <1>2, <2>1, <3>1
    <3>3. TsAt(w, p) \in Int
      <4> DEFINE m == w.size - 1 - p
      <4>0. m \in Nat /\ m < Cardinality(K)
        BY <1>1, <3>1, FS_CardinalityType
      <4>1. PICK i \in K : Newer(K, i) = m
        BY <1>1, <4>0, NewerTaken
      <4>2. w.buf[Slot(w, w.size - 1 - Newer(K, i))] = pushed[i]
        BY <1>1, <3>1, <4>1 DEF Carries
      <4>3. w.size - 1 - Newer(K, i) = p
        BY <1>1, <3>1, <4>1
      <4>4. QED
        BY <4>2, <4>3 DEF TsAt, PushedOK
    <3>4. QED
      BY <1>1, <3>1, <3>2, <3>3
  <2>3. QED
    BY <2>1, <2>2
<1> HIDE DEF T, K
<1>5. /\ RingOK(v) /\ v.size = w.size - n /\ v.buf = w.buf /\ v.capacity = w.capacity
      /\ v.window_ns = w.window_ns /\ v.overflowed = w.overflowed
      /\ \A p \in 0 .. w.capacity - n : Slot(v, p) = Slot(w, n + p)
  BY <1>3, <1>4, AdvanceIs
<1>6. ASSUME NEW i \in K
      PROVE  /\ Newer(K, i) \in Nat
             /\ Newer(K, i) < w.size => /\ w.size - 1 - Newer(K, i) \in 0 .. w.size - 1
                                        /\ TsAt(w, w.size - 1 - Newer(K, i)) = pushed[i].ts
             /\ pushed[i].ts \in Int
  <2>1. Newer(K, i) \in Nat
    BY <1>1, NewerFalls
  <2>2. pushed[i].ts \in Int
    BY DEF PushedOK, K
  <2>3. ASSUME Newer(K, i) < w.size
        PROVE  TsAt(w, w.size - 1 - Newer(K, i)) = pushed[i].ts
    BY <2>3 DEF Carries, TsAt, K
  <2>4. QED
    BY <1>1, <2>1, <2>2, <2>3
<1>7. Carries(v, pushed, times \cup {time})
  <2>1. v.size <= Cardinality(K)
    <3>1. Cardinality(K) \in Nat
      BY <1>1, FS_CardinalityType
    <3>2. QED
      BY <1>1, <1>4, <1>5, <3>1
  <2>2. ASSUME NEW i \in K, Newer(K, i) < v.size
        PROVE  v.buf[Slot(v, v.size - 1 - Newer(K, i))] = pushed[i]
    <3>1. Newer(K, i) < w.size /\ v.size - 1 - Newer(K, i) \in 0 .. w.capacity - n
      BY <1>1, <1>4, <1>5, <1>6, <2>2
    <3>2. n + (v.size - 1 - Newer(K, i)) = w.size - 1 - Newer(K, i)
      BY <1>1, <1>4, <1>5, <1>6
    <3>3. Slot(v, v.size - 1 - Newer(K, i)) = Slot(w, w.size - 1 - Newer(K, i))
      BY <1>5, <3>1, <3>2
    <3>4. w.buf[Slot(w, w.size - 1 - Newer(K, i))] = pushed[i]
      BY <3>1 DEF Carries, K
    <3>5. QED
      BY <1>5, <3>3, <3>4
  <2>3. ASSUME NEW i \in K, Newer(K, i) < v.capacity,
               Recent(v, pushed[i].ts, times \cup {time})
        PROVE  Newer(K, i) < v.size
    <3>1. Recent(w, pushed[i].ts, times) /\ pushed[i].ts >= cutoff
      BY <1>5, <2>3 DEF Recent
    <3>2. Newer(K, i) < w.size
      BY <1>5, <2>3, <3>1 DEF Carries, K
    <3>3. ~(w.size - 1 - Newer(K, i) \in 0 .. n - 1)
      BY <1>1, <1>4, <1>6, <3>1, <3>2
    <3>4. QED
      BY <1>1, <1>4, <1>5, <1>6, <3>2, <3>3
  <2>4. QED
    BY <2>1, <2>2, <2>3 DEF Carries, K
<1>8. ASSUME NEW i \in K, Newer(K, i) < v.size PROVE pushed[i].ts >= cutoff
  <2>1. n < w.size /\ Newer(K, i) < w.size
    BY <1>1, <1>4, <1>5, <1>6, <1>8
  <2> DEFINE m == w.size - 1 - n
  <2>0. m \in Nat /\ m < Cardinality(K)
    BY <1>1, <1>4, <2>1, FS_CardinalityType
  <2>2. PICK k \in K : Newer(K, k) = m
    BY <1>1, <2>0, NewerTaken
  <2>3. w.size - 1 - Newer(K, k) = n /\ Newer(K, k) < w.size
    BY <1>1, <1>4, <2>1, <2>2
  <2>4. pushed[k].ts >= cutoff
    BY <1>4, <1>6, <2>1, <2>3
  <2>5. k <= i
    <3>1. Newer(K, i) <= Newer(K, k)
      BY <1>1, <1>4, <1>5, <1>6, <1>8, <2>2
    <3>2. QED
      BY <1>1, <3>1, NewerFalls
  <2>6. pushed[k].ts <= pushed[i].ts
    BY <2>5 DEF PushedOK, K
  <2>7. QED
    BY <1>1, <1>6, <2>4, <2>6
<1>9. Cleared(v, pushed, {time})
  BY <1>5, <1>8 DEF Cleared, Recent, K
<1>10. ASSUME Cleared(w, pushed, times) PROVE Cleared(v, pushed, times \cup {time})
  <2>1. ASSUME NEW i \in K, Newer(K, i) < v.size PROVE Newer(K, i) < w.size
    BY <1>1, <1>4, <1>5, <1>6, <2>1
  <2>2. QED
    BY <1>5, <1>8, <1>10, <2>1 DEF Cleared, Recent, K
<1>11. QED
  BY <1>5, <1>7, <1>9, <1>10 DEF v

\* A new entry is kept; a full ring gives up its oldest.
WithEntry(pushed, m, entry) ==
  [i \in DOMAIN pushed \cup {m} |-> IF i = m THEN entry ELSE pushed[i]]

LEMMA StoredCarries ==
  ASSUME NEW w, RingOK(w), NEW pushed, PushedOK(pushed), NEW times,
         Carries(w, pushed, times), NEW time \in Int, NEW item, NEW m \in Nat,
         \A i \in DOMAIN pushed : i < m /\ pushed[i].ts <= time
  PROVE  LET more == WithEntry(pushed, m, [ts |-> time, item |-> item]) IN
         /\ RingOK(Stored(w, time, item)) /\ PushedOK(more)
         /\ Stored(w, time, item).capacity = w.capacity
         /\ Stored(w, time, item).window_ns = w.window_ns
         /\ Stored(w, time, item).overflowed
              = w.overflowed + (IF w.size = w.capacity THEN 1 ELSE 0)
         /\ Carries(Stored(w, time, item), more, times)
<1> DEFINE K == DOMAIN pushed
           entry == [ts |-> time, item |-> item]
           more == WithEntry(pushed, m, entry)
           L == DOMAIN more
           room == IF w.size = w.capacity
                     THEN [Advance(w, 1) EXCEPT !.overflowed = @ + 1] ELSE w
           slot == Slot(room, room.size)
           v == Stored(w, time, item)
<1>1. /\ w.size \in Nat /\ w.capacity \in Nat \ {0} /\ w.size <= w.capacity
      /\ w.size <= Cardinality(K) /\ Cardinality(K) \in Nat
      /\ K \in SUBSET Nat /\ IsFiniteSet(K)
  BY FS_CardinalityType DEF RingOK, Carries, PushedOK
<1>2. /\ L = K \cup {m} /\ more[m] = entry /\ \A i \in K : i # m /\ more[i] = pushed[i]
      /\ entry.ts = time
  BY DEF WithEntry
<1>3. /\ Newer(L, m) = 0
      /\ \A i \in K : Newer(L, i) = Newer(K, i) + 1
      /\ IsFiniteSet(L) /\ Cardinality(L) = Cardinality(K) + 1
  BY <1>1, <1>2, NewerOfMore
<1> HIDE DEF more, entry
<1>4. PushedOK(more)
  <2>1. \A i \in L : more[i].ts \in Int
    BY <1>2 DEF PushedOK
  <2>2. ASSUME NEW i \in L, NEW j \in L, i <= j PROVE more[i].ts <= more[j].ts
    BY <1>1, <1>2, <2>2 DEF PushedOK
  <2>3. L \in SUBSET Nat
    BY <1>1, <1>2
  <2>4. QED
    BY <1>3, <2>1, <2>2, <2>3 DEF PushedOK
<1>5. /\ RingOK(room) /\ room.buf = w.buf /\ room.capacity = w.capacity
      /\ room.window_ns = w.window_ns
      /\ room.overflowed = w.overflowed + (IF w.size = w.capacity THEN 1 ELSE 0)
      /\ room.size = (IF w.size = w.capacity THEN w.size - 1 ELSE w.size)
      /\ room.size < w.capacity
      /\ \A p \in 0 .. room.size :
           Slot(room, p) = Slot(w, (IF w.size = w.capacity THEN 1 ELSE 0) + p)
  <2>1. CASE w.size = w.capacity
    <3> DEFINE a == Advance(w, 1)
    <3>1. /\ RingOK(a) /\ a.size = w.size - 1 /\ a.buf = w.buf /\ a.capacity = w.capacity
          /\ a.window_ns = w.window_ns /\ a.overflowed = w.overflowed
          /\ \A p \in 0 .. w.capacity - 1 : Slot(a, p) = Slot(w, 1 + p)
      BY <1>1, <2>1, AdvanceIs
    <3> HIDE DEF a
    <3>2. room = [a EXCEPT !.overflowed = a.overflowed + 1]
      BY <2>1 DEF a
    <3> HIDE DEF room
    <3>3. /\ DOMAIN room = DOMAIN a /\ room.buf = a.buf /\ room.capacity = a.capacity
          /\ room.window_ns = a.window_ns /\ room.overflowed = a.overflowed + 1
          /\ room.size = a.size /\ room.head = a.head
      BY <3>1, <3>2 DEF RingOK
    <3>4. RingOK(room)
      BY <3>1, <3>3 DEF RingOK
    <3>5. \A p : Slot(room, p) = Slot(a, p)
      BY <3>3 DEF Slot
    <3>6. QED
      BY <1>1, <2>1, <3>1, <3>3, <3>4, <3>5 DEF RingOK
  <2>2. CASE w.size # w.capacity
    <3>1. room = w
      BY <2>2
    <3>2. \A p \in 0 .. w.size : 0 + p = p
      BY <1>1
    <3>3. QED
      BY <1>1, <2>2, <3>1, <3>2 DEF RingOK
  <2>3. QED
    BY <2>1, <2>2
<1>6. v = [room EXCEPT !.buf[slot] = entry, !.size = room.size + 1]
  BY DEF Stored, entry
<1> HIDE DEF room, v
<1>7. slot \in 0 .. w.capacity - 1
  <2>1. room.size \in 0 .. room.capacity
    BY <1>5 DEF RingOK
  <2>2. QED
    BY <1>5, <2>1, SlotIs
<1> HIDE DEF slot
<1>8. /\ DOMAIN v = DOMAIN room /\ v.size = room.size + 1 /\ v.head = room.head
      /\ v.capacity = room.capacity /\ v.window_ns = room.window_ns
      /\ v.overflowed = room.overflowed
      /\ v.buf = [room.buf EXCEPT ![slot] = entry]
  BY <1>5, <1>6 DEF RingOK
<1>9. /\ DOMAIN v.buf = 0 .. w.capacity - 1 /\ v.buf[slot] = entry
      /\ \A s \in 0 .. w.capacity - 1 : s # slot => v.buf[s] = w.buf[s]
  BY <1>5, <1>7, <1>8 DEF RingOK
<1>10. RingOK(v)
  BY <1>5, <1>8, <1>9 DEF RingOK
<1>11. Slot(v, v.size - 1) = slot
  <2>1. v.size - 1 = room.size
    BY <1>5, <1>8 DEF RingOK
  <2>2. QED
    BY <1>8, <2>1 DEF Slot, slot
<1>12. ASSUME NEW i \in K, Newer(L, i) < v.size
       PROVE  /\ v.buf[Slot(v, v.size - 1 - Newer(L, i))] = more[i]
              /\ Newer(K, i) < w.size
  <2> DEFINE d == IF w.size = w.capacity THEN 1 ELSE 0
             p == room.size - Newer(L, i)
  <2>1. Newer(K, i) \in Nat
    BY <1>1, NewerFalls
  <2>2. /\ p \in 0 .. room.size - 1 /\ v.size - 1 - Newer(L, i) = p
        /\ d + p = w.size - 1 - Newer(K, i) /\ Newer(K, i) < w.size
    BY <1>1, <1>3, <1>5, <1>8, <1>12, <2>1
  <2>3. Slot(v, p) = Slot(room, p)
    BY <1>8 DEF Slot
  <2>4. Slot(room, p) = Slot(w, w.size - 1 - Newer(K, i))
    <3>1. p \in 0 .. room.size
      BY <1>1, <1>5, <2>2
    <3> HIDE DEF p
    <3>2. Slot(room, p) = Slot(w, d + p)
      BY <1>5, <3>1
    <3> HIDE DEF d
    <3>3. QED
      BY <2>2, <3>2
  <2>5. Slot(room, p) # slot /\ Slot(room, p) \in 0 .. w.capacity - 1
    <3>0. /\ room.head \in 0 .. room.capacity - 1 /\ room.capacity \in Nat
          /\ room.size \in 0 .. room.capacity /\ room.size < room.capacity
      BY <1>5 DEF RingOK
    <3> HIDE DEF p
    <3>1. room.size \in 0 .. room.capacity - 1 /\ p \in 0 .. room.capacity
          /\ room.head \in 0 .. room.capacity - 1 /\ room.capacity \in Nat
      BY <2>2, <3>0
    <3>2. /\ Slot(room, p) = IF room.head + p < room.capacity THEN room.head + p
                                                      ELSE room.head + p - room.capacity
          /\ Slot(room, p) \in 0 .. room.capacity - 1
      BY <1>5, <3>1, SlotIs
    <3>3. slot = IF room.head + room.size < room.capacity
                   THEN room.head + room.size ELSE room.head + room.size - room.capacity
      BY <1>5, <3>1, SlotIs DEF slot
    <3>4. p < room.size
      BY <2>2, <3>1
    <3>5. QED
      BY <1>5, <3>1, <3>2, <3>3, <3>4
  <2>6. w.buf[Slot(w, w.size - 1 - Newer(K, i))] = pushed[i]
    BY <2>2 DEF Carries
  <2>7. v.buf[Slot(v, p)] = pushed[i]
    BY <1>9, <2>3, <2>4, <2>5, <2>6
  <2>8. QED
    BY <1>2, <2>2, <2>7
<1>13. ASSUME NEW i \in K, Newer(L, i) < v.capacity, Recent(v, more[i].ts, times)
       PROVE  Newer(L, i) < v.size
  <2>1. Newer(K, i) \in Nat
    BY <1>1, NewerFalls
  <2>2. Newer(K, i) < w.capacity /\ Recent(w, pushed[i].ts, times)
    <3>1. Newer(L, i) = Newer(K, i) + 1 /\ v.capacity = w.capacity
      BY <1>3, <1>5, <1>8
    <3>2. Newer(K, i) < w.capacity
      BY <1>1, <1>13, <2>1, <3>1
    <3>3. v.window_ns = w.window_ns /\ more[i] = pushed[i]
      BY <1>2, <1>5, <1>8
    <3>4. Recent(w, pushed[i].ts, times)
      BY <1>13, <3>3 DEF Recent
    <3>5. QED
      BY <3>2, <3>4
  <2>3. Newer(K, i) < w.size
    BY <2>2 DEF Carries
  <2>4. QED
    BY <1>1, <1>3, <1>5, <1>8, <1>13, <2>1, <2>3
<1>14. Carries(v, more, times)
  <2>1. v.size <= Cardinality(L)
    BY <1>1, <1>3, <1>5, <1>8
  <2>2. v.buf[Slot(v, v.size - 1 - Newer(L, m))] = more[m] /\ Newer(L, m) < v.size
    BY <1>1, <1>2, <1>3, <1>5, <1>8, <1>9, <1>11
  <2>3. QED
    BY <1>2, <1>12, <1>13, <2>1, <2>2 DEF Carries
<1>15. QED
  BY <1>4, <1>5, <1>8, <1>10, <1>14 DEF more, entry, v

-----------------------------------------------------------------------------
(***************************************************************************)
(* A window of a symbol, between two steps: of what was pushed into it, it *)
(* holds the newest entries there is room for that are not older than the  *)
(* history, counted from the last push and the last scan.                  *)
(***************************************************************************)
Stamps(pushed) == {pushed[i].ts : i \in DOMAIN pushed}

HoldsAsOf(w, pushed, last) ==
  /\ RingOK(w)
  /\ Carries(w, pushed, Stamps(pushed) \cup {last})
  /\ Cleared(w, pushed, Stamps(pushed) \cup {last})

\* Later expiries take the place of earlier ones.
LEMMA LaterExpiries ==
  ASSUME NEW w, RingOK(w), NEW pushed, PushedOK(pushed), NEW T \in SUBSET Int, NEW U \in SUBSET Int,
         \A t \in T : \E u \in U : t <= u
  PROVE  /\ Carries(w, pushed, T) => Carries(w, pushed, U)
         /\ Cleared(w, pushed, U) => Cleared(w, pushed, T)
<1>1. ASSUME NEW i \in DOMAIN pushed, Recent(w, pushed[i].ts, U)
      PROVE  Recent(w, pushed[i].ts, T)
  <2>1. pushed[i].ts \in Int /\ w.window_ns \in Int
    BY DEF PushedOK, RingOK
  <2>2. ASSUME NEW t \in T PROVE pushed[i].ts >= t - w.window_ns
    <3>1. PICK u \in U : t <= u
      OBVIOUS
    <3>2. pushed[i].ts >= u - w.window_ns
      BY <1>1 DEF Recent
    <3>3. t \in Int /\ u \in Int
      OBVIOUS
    <3>4. QED
      BY <2>1, <3>1, <3>2, <3>3
  <2>3. QED
    BY <2>2 DEF Recent
<1>2. QED
  BY <1>1 DEF Carries, Cleared

LEMMA ScanHolds ==
  ASSUME NEW w, NEW pushed, PushedOK(pushed), NEW last \in Int, HoldsAsOf(w, pushed, last),
         NEW to \in Int, last <= to
  PROVE  /\ HoldsAsOf(Expire(w, to), pushed, to)
         /\ Expire(w, to).capacity = w.capacity /\ Expire(w, to).window_ns = w.window_ns
         /\ Expire(w, to).overflowed = w.overflowed
<1> DEFINE v == Expire(w, to)
           T == Stamps(pushed) \cup {last}
           U == Stamps(pushed) \cup {to}
<1>1. T \in SUBSET Int /\ U \in SUBSET Int /\ T \cup {to} \in SUBSET Int
  BY DEF Stamps, PushedOK
<1>2. /\ RingOK(v) /\ v.capacity = w.capacity /\ v.window_ns = w.window_ns
      /\ v.overflowed = w.overflowed
      /\ Carries(v, pushed, T \cup {to}) /\ Cleared(v, pushed, T \cup {to})
  BY ExpireCarries DEF HoldsAsOf
<1> HIDE DEF v
<1>3. /\ \A t \in T \cup {to} : \E u \in U : t <= u
      /\ \A u \in U : \E t \in T \cup {to} : u <= t
  BY <1>1
<1> HIDE DEF T, U
<1>4. Carries(v, pushed, U) /\ Cleared(v, pushed, U)
  <2>1. T \cup {to} \in SUBSET Int /\ U \in SUBSET Int
    BY <1>1
  <2>2. QED
    BY <1>2, <1>3, <2>1, LaterExpiries
<1>5. QED
  BY <1>2, <1>4 DEF HoldsAsOf, U, v

LEMMA PushHolds ==
  ASSUME NEW w, NEW pushed, PushedOK(pushed), NEW last \in Int, HoldsAsOf(w, pushed, last),
         NEW now_ \in Int, last <= now_, NEW item, NEW m \in Nat,
         \A i \in DOMAIN pushed : i < m /\ pushed[i].ts <= now_
  PROVE  LET more == WithEntry(pushed, m, [ts |-> now_, item |-> item]) IN
         /\ PushedOK(more) /\ HoldsAsOf(Push(w, now_, item), more, last)
         /\ Push(w, now_, item).capacity = w.capacity
         /\ Push(w, now_, item).window_ns = w.window_ns
         /\ Push(w, now_, item).overflowed
              = w.overflowed + (IF w.size = w.capacity THEN 1 ELSE 0)
<1> DEFINE entry == [ts |-> now_, item |-> item]
           more == WithEntry(pushed, m, entry)
           s == Stored(w, now_, item)
           v == Push(w, now_, item)
           T == Stamps(pushed) \cup {last}
           U == Stamps(more) \cup {last}
<1>1. /\ RingOK(s) /\ PushedOK(more) /\ s.capacity = w.capacity /\ s.window_ns = w.window_ns
      /\ s.overflowed = w.overflowed + (IF w.size = w.capacity THEN 1 ELSE 0)
      /\ Carries(s, more, T)
  BY StoredCarries DEF HoldsAsOf
<1>2. v = Expire(s, now_)
  BY DEF Push
<1>3. Stamps(more) = Stamps(pushed) \cup {now_}
  <2>1. /\ DOMAIN more = DOMAIN pushed \cup {m} /\ more[m].ts = now_
        /\ \A i \in DOMAIN pushed : more[i] = pushed[i]
    BY DEF WithEntry
  <2> HIDE DEF more
  <2>2. QED
    BY <2>1 DEF Stamps
<1> HIDE DEF more, s, v, entry
<1>4. /\ RingOK(v) /\ v.capacity = s.capacity /\ v.window_ns = s.window_ns
      /\ v.overflowed = s.overflowed
      /\ Carries(v, more, T \cup {now_}) /\ Cleared(v, more, {now_})
  BY <1>1, <1>2, ExpireCarries
<1>5. U \in SUBSET Int /\ \A u \in U : u <= now_
  <2>1. \A i \in DOMAIN pushed : pushed[i].ts \in Int /\ pushed[i].ts <= now_
    BY DEF PushedOK
  <2>2. QED
    BY <1>3, <2>1 DEF Stamps
<1>6. T \cup {now_} = U
  BY <1>3
<1> HIDE DEF U, T
<1>7. Cleared(v, more, U)
  <2>1. {now_} \in SUBSET Int /\ \A u \in U : \E n \in {now_} : u <= n
    BY <1>5
  <2>2. QED
    BY <1>1, <1>4, <1>5, <2>1, LaterExpiries
<1>8. QED
  BY <1>1, <1>4, <1>6, <1>7 DEF HoldsAsOf, U, more, v, entry

\* A window nothing was pushed into.
LEMMA EmptyHolds ==
  ASSUME NEW w, NEW pushed, DOMAIN pushed = {}, NEW last, HoldsAsOf(w, pushed, last), NEW to
  PROVE  HoldsAsOf(w, pushed, to)
BY DEF HoldsAsOf, Carries, Cleared

\* What HoldsTheRecent asks for.
LEMMA HoldsIsRecent ==
  ASSUME NEW w, NEW pushed, PushedOK(pushed), HoldsAsOf(w, pushed, LastScan),
         w.window_ns = History
  PROVE  HoldsTheRecent(w, pushed)
<1> DEFINE K == DOMAIN pushed
           seen == Stamps(pushed) \cup {LastScan}
           kept == {i \in K : /\ Newer(K, i) < w.capacity
                              /\ \A t \in seen : pushed[i].ts >= t - History}
<1>1. /\ w.size \in Nat /\ w.size <= w.capacity /\ w.capacity \in Nat
      /\ w.size <= Cardinality(K) /\ K \in SUBSET Nat /\ IsFiniteSet(K)
  BY DEF HoldsAsOf, RingOK, Carries, PushedOK
<1>2. ASSUME NEW i \in K PROVE i \in kept <=> Newer(K, i) < w.size
  <2>1. Newer(K, i) \in Nat
    BY <1>1, NewerFalls
  <2>2. Recent(w, pushed[i].ts, seen) <=> \A t \in seen : pushed[i].ts >= t - History
    BY DEF Recent
  <2> HIDE DEF seen
  <2>3. Newer(K, i) < w.size => Newer(K, i) < w.capacity
    BY <1>1, <2>1
  <2>4. QED
    BY <2>2, <2>3 DEF HoldsAsOf, Carries, Cleared, seen
<1>3. kept = {i \in K : Newer(K, i) < w.size}
  BY <1>2
<1> HIDE DEF kept
<1>4. w.size = Cardinality(kept)
  BY <1>1, <1>3, NewestCount
<1>5. \A i \in kept : w.buf[Slot(w, w.size - 1 - Newer(K, i))] = pushed[i]
  BY <1>3 DEF HoldsAsOf, Carries
<1>6. QED
  BY <1>4, <1>5 DEF HoldsTheRecent, kept, Newer, Stamps

-----------------------------------------------------------------------------
(***************************************************************************)
(* Tape time and the scans.                                                *)
(***************************************************************************)
LEMMA HistoryIsInt == History \in Int
<1> DEFINE a == 2 * SpoofingConfig.opposite_window_ns + 3 * SpoofingConfig.max_lifetime_ns
           b == 2 * LayeringConfig.opposite_window_ns + LayeringConfig.cancel_span_ns
                  + LayeringConfig.placement_window_ns
           c == WashConfig.window_ns
           d == MomentumConfig.revert_ns + MomentumConfig.burst_ns + MomentumConfig.reversal_ns
<1>1. a \in Int /\ b \in Int /\ c \in Int /\ d \in Int
  BY DurationsAssumption
<1>2. History = Max({a, b, c, d}) + 2 * ScanInterval
  BY DEF History
<1> HIDE DEF a, b, c, d
<1>3. \E x \in {a, b, c, d} : \A y \in {a, b, c, d} : x >= y
  BY <1>1
<1>4. Max({a, b, c, d}) \in {a, b, c, d}
  BY <1>3 DEF Max
<1>5. QED
  BY <1>1, <1>2, <1>4, ScanIntervalAssumption

\* The scans due are those up to now; the next one comes after it.
LEMMA ScansDue ==
  ASSUME NEW first \in Int, NEW until \in Int
  PROVE  /\ ScanPoints(first, until) = {} <=> until < first
         /\ NextScan(first, until) \in Int
         /\ first <= until => /\ Max(ScanPoints(first, until)) \in ScanPoints(first, until)
                              /\ NextScan(first, until) > until
                              /\ NextScan(first, until) - ScanInterval
                                   = Max(ScanPoints(first, until))
         /\ \A t \in ScanPoints(first, until) : /\ first <= t /\ t <= until
                                                /\ t <= NextScan(first, until) - ScanInterval
<1> DEFINE P == ScanPoints(first, until)
           m == Max(P)
<1>0. ScanInterval \in Nat \ {0}
  BY ScanIntervalAssumption
<1>1. \A t : t \in P <=> t \in Int /\ first <= t /\ t <= until /\ (t - first) % ScanInterval = 0
  BY DEF ScanPoints
<1>2. P = {} <=> until < first
  <2>1. first <= until => first \in P
    <3>1. (first - first) % ScanInterval = 0
      BY <1>0
    <3>2. QED
      BY <1>1, <3>1
  <2>2. QED
    BY <1>1, <2>1
<1>3. ASSUME first <= until PROVE m \in P /\ \A t \in P : t <= m
  <2> DEFINE T == {until - t : t \in P}
  <2>1. T \in SUBSET Nat /\ T # {}
    BY <1>1, <1>2, <1>3
  <2>2. PICK n \in T : \A x \in T : n <= x
    <3> HIDE DEF T
    <3>1. QED
      BY <2>1, LeastNumber
  <2>3. PICK p \in P : n = until - p
    OBVIOUS
  <2>4. ASSUME NEW t \in P PROVE p >= t
    <3>1. until - t \in T
      OBVIOUS
    <3>2. n <= until - t
      BY <2>2, <3>1
    <3>3. QED
      BY <1>1, <2>3, <3>2
  <2> HIDE DEF P
  <2>5. m \in P /\ \A t \in P : m >= t
    BY <2>4 DEF Max
  <2>6. QED
    BY <1>1, <2>5
<1>4. NextScan(first, until) = IF P = {} THEN first ELSE m + ScanInterval
  BY DEF NextScan
<1> HIDE DEF P, m
<1>5. ASSUME first <= until PROVE m + ScanInterval > until
  <2>1. SUFFICES ASSUME m + ScanInterval <= until PROVE FALSE
    BY <1>0, <1>1, <1>3, <1>5
  <2>2. m \in Int /\ first <= m /\ (m - first) % ScanInterval = 0
    BY <1>1, <1>3, <1>5
  <2>3. ((m + ScanInterval) - first) % ScanInterval = 0
    <3> DEFINE q == (m - first) \div ScanInterval
    <3>1. m - first = q * ScanInterval /\ q \in Int
      BY <1>0, <2>2
    <3> HIDE DEF q
    <3>2. (m + ScanInterval) - first = (q + 1) * ScanInterval
      BY <1>0, <2>2, <3>1
    <3>3. ((q + 1) * ScanInterval) % ScanInterval = 0
      BY <1>0, <3>1
    <3>4. QED
      BY <3>2, <3>3
  <2>4. m + ScanInterval \in P
    BY <1>0, <1>1, <2>1, <2>2, <2>3
  <2>5. QED
    BY <1>0, <1>3, <1>5, <2>2, <2>4
<1>6. ASSUME first <= until
      PROVE  /\ NextScan(first, until) = m + ScanInterval /\ m \in Int
             /\ NextScan(first, until) - ScanInterval = m
  BY <1>0, <1>1, <1>2, <1>3, <1>4, <1>6
<1>7. ASSUME until < first PROVE NextScan(first, until) = first
  BY <1>2, <1>4, <1>7
<1>8. QED
  BY <1>0, <1>1, <1>2, <1>3, <1>5, <1>6, <1>7 DEF P, m

\* The tape is in the order of time, and the scans keep up with it.
ClockInv ==
  /\ enabled \in Enabled
  /\ started \in BOOLEAN /\ finished \in BOOLEAN
  /\ now \in Int /\ next_scan \in Int
  /\ \E S : tape \in Seq(S)
  /\ \A i \in DOMAIN tape : tape[i].ts \in Nat \ {0} /\ tape[i].ts <= now
  /\ \A i, j \in DOMAIN tape : i <= j => tape[i].ts <= tape[j].ts
  /\ ~started => tape = <<>>
  /\ started => now \in Nat \ {0}
  /\ started /\ ~finished => LastScan <= now /\ now < next_scan

\* The event an action gives to apply.
ArrivingOK(e) ==
  /\ e.ts \in Nat \ {0}
  /\ started => now <= e.ts
  /\ ~started => e.kind = "quote" /\ e.ts = StartTs
  /\ e.kind \in {"quote", "trade", "withdrawal"}
  /\ e.kind = "withdrawal" => e.rec.order_id = Len(tape) + 1

\* Prints are of some quantity, and an order is withdrawn after it was entered.
RecordOK(e) ==
  /\ e.kind = "trade" => /\ e.rec.qty \in Nat \ {0}
                          /\ e.rec.taker \in Nat /\ e.rec.maker \in Nat
                          /\ e.rec.aggressor \in Direction
  /\ e.mid2 \in Int
  /\ e.kind = "withdrawal" => /\ e.rec.entry_ts \in Int /\ e.rec.entry_ts <= e.ts
                               /\ e.rec.ticks_from_touch \in Int

LEMMA StepsApply ==
  ASSUME ClockInv, Next
  PROVE  Finish \/ \E e : ArrivingOK(e) /\ RecordOK(e) /\ Apply(e)
<1>0. enabled \in Kind
  BY EnabledAssumption DEF ClockInv
<1>1. ASSUME NEW ts \in Arrivals
      PROVE  ts \in Nat \ {0} /\ (started => now <= ts) /\ (~started => ts = StartTs)
  <2>1. CASE started
    <3>1. PICK s \in Steps[enabled] : ts = now + s
      BY <2>1 DEF Arrivals
    <3>2. s \in Nat
      BY StepsAssumption, EnabledAssumption DEF ClockInv
    <3>3. QED
      BY <2>1, <3>1, <3>2 DEF ClockInv
  <2>2. CASE ~started
    BY <2>2, StartTsAssumption DEF Arrivals
  <2>3. QED
    BY <2>1, <2>2
<1>2. CASE Quote
  <2>1. PICK ts \in Arrivals, mid2 \in Quotes[enabled] :
           Apply([kind |-> "quote", ts |-> ts, mid2 |-> mid2])
    BY <1>2 DEF Quote
  <2>2. /\ ArrivingOK([kind |-> "quote", ts |-> ts, mid2 |-> mid2])
        /\ RecordOK([kind |-> "quote", ts |-> ts, mid2 |-> mid2])
    <3>1. mid2 \in Int
      BY <1>0, PriceAssumption
    <3>2. QED
      BY <1>1, <3>1 DEF ArrivingOK, RecordOK
  <2>3. QED
    BY <2>1, <2>2
<1>3. CASE Trade
  <2>1. PICK ts \in Arrivals, t \in Trades[enabled] :
           /\ started
           /\ Apply([kind |-> "trade", ts |-> ts, mid2 |-> t.mid2, rec |-> t.rec])
    BY <1>3 DEF Trade
  <2> DEFINE e == [kind |-> "trade", ts |-> ts, mid2 |-> t.mid2, rec |-> t.rec]
  <2>2. /\ e.kind = "trade" /\ e.ts = ts /\ e.rec.qty \in Nat \ {0}
        /\ e.rec.taker \in Nat /\ e.rec.maker \in Nat
        /\ e.rec.aggressor \in Direction /\ e.mid2 \in Int
    <3>1. e.kind = "trade" /\ e.ts = ts /\ e.rec = t.rec /\ e.mid2 = t.mid2
      OBVIOUS
    <3> HIDE DEF e
    <3>2. QED
      BY <1>0, <3>1, QuantityAssumption, ParticipantAssumption, PriceAssumption
  <2> HIDE DEF e
  <2>3. ArrivingOK(e) /\ RecordOK(e)
    BY <1>1, <2>1, <2>2 DEF ArrivingOK, RecordOK
  <2>4. QED
    BY <2>1, <2>3 DEF e
<1>4. CASE Withdrawal
  <2> DEFINE Ev(ts, c, entry_ts) ==
               [kind |-> "withdrawal", ts |-> ts, mid2 |-> c.mid2,
                rec |-> [participant      |-> c.rec.participant,
                         side             |-> c.rec.side,
                         price            |-> c.rec.price,
                         remaining        |-> c.rec.remaining,
                         ticks_from_touch |-> c.rec.ticks_from_touch,
                         entry_ts         |-> entry_ts,
                         order_id         |-> Len(tape) + 1]]
  <2>1. PICK ts \in Arrivals, c \in Withdrawals[enabled],
             entry_ts \in {tape[i].ts : i \in {j \in DOMAIN tape : tape[j].kind = "quote"}} :
           Apply(Ev(ts, c, entry_ts))
    BY <1>4 DEF Withdrawal
  <2>2. started
    <3>1. DOMAIN tape # {}
      BY <2>1
    <3>2. QED
      BY <3>1 DEF ClockInv
  <2>3. /\ Ev(ts, c, entry_ts).ts = ts /\ Ev(ts, c, entry_ts).kind = "withdrawal"
        /\ Ev(ts, c, entry_ts).rec.entry_ts = entry_ts
        /\ Ev(ts, c, entry_ts).rec.order_id = Len(tape) + 1
        /\ Ev(ts, c, entry_ts).rec.ticks_from_touch = c.rec.ticks_from_touch
        /\ Ev(ts, c, entry_ts).mid2 = c.mid2
    OBVIOUS
  <2> HIDE DEF Ev
  <2>4. entry_ts \in Int /\ entry_ts <= ts
    BY <1>1, <2>2 DEF ClockInv
  <2>5. c.rec.ticks_from_touch \in Int /\ c.mid2 \in Int
    BY <1>0, TicksAssumption, PriceAssumption
  <2>6. ArrivingOK(Ev(ts, c, entry_ts)) /\ RecordOK(Ev(ts, c, entry_ts))
    BY <1>1, <2>2, <2>3, <2>4, <2>5 DEF ArrivingOK, RecordOK
  <2>7. QED
    BY <2>1, <2>6
<1>5. QED
  BY <1>2, <1>3, <1>4 DEF Next

\* The tape gets one event longer.
LEMMA TapeGrows ==
  ASSUME ClockInv, NEW e, ArrivingOK(e), tape' = Append(tape, e)
  PROVE  LET n == Len(tape) + 1 IN
         /\ Len(tape) \in Nat /\ DOMAIN tape = 1 .. Len(tape)
         /\ DOMAIN tape' = DOMAIN tape \cup {n} /\ n \notin DOMAIN tape
         /\ \A i \in DOMAIN tape : i < n /\ tape'[i] = tape[i]
         /\ tape'[n] = e
         /\ \E S : tape' \in Seq(S)
<1>1. PICK S : tape \in Seq(S)
  BY DEF ClockInv
<1>2. tape \in Seq(S \cup {e})
  BY <1>1
<1>3. tape' \in Seq(S \cup {e})
  BY <1>2
<1>4. /\ Len(tape) \in Nat /\ DOMAIN tape = 1 .. Len(tape)
      /\ DOMAIN tape' = 1 .. Len(tape) + 1
      /\ \A i \in 1 .. Len(tape) : tape'[i] = tape[i]
      /\ tape'[Len(tape) + 1] = e
  BY <1>2
<1>5. QED
  BY <1>3, <1>4

LEMMA ClockKept ==
  ASSUME ClockInv, [Next]_vars
  PROVE  ClockInv'
<1>0. ScanInterval \in Nat \ {0}
  BY ScanIntervalAssumption
<1>1. ASSUME NEW e, ArrivingOK(e), Apply(e) PROVE ClockInv'
  <2> DEFINE n == Len(tape) + 1
             first == IF started THEN next_scan ELSE e.ts + ScanInterval
  <2>1. /\ tape' = Append(tape, e) /\ now' = e.ts /\ started' = TRUE
        /\ ~finished /\ UNCHANGED <<enabled, finished>>
        /\ next_scan' = NextScan(first, e.ts)
    BY <1>1 DEF Apply
  <2>2. /\ Len(tape) \in Nat /\ DOMAIN tape = 1 .. Len(tape)
        /\ DOMAIN tape' = DOMAIN tape \cup {n} /\ n \notin DOMAIN tape
        /\ \A i \in DOMAIN tape : i < n /\ tape'[i] = tape[i]
        /\ tape'[n] = e
        /\ \E S : tape' \in Seq(S)
    BY <1>1, <2>1, TapeGrows
  <2>3. e.ts \in Nat \ {0} /\ (started => now <= e.ts) /\ first \in Int
    BY <1>0, <1>1 DEF ArrivingOK, ClockInv
  <2>4. \A i \in DOMAIN tape : tape[i].ts \in Nat \ {0} /\ tape[i].ts <= e.ts
    BY <2>2, <2>3 DEF ClockInv
  <2>5. \A i \in DOMAIN tape' : tape'[i].ts \in Nat \ {0} /\ tape'[i].ts <= now'
    BY <2>1, <2>2, <2>3, <2>4
  <2>6. \A i, j \in DOMAIN tape' : i <= j => tape'[i].ts <= tape'[j].ts
    <3> SUFFICES ASSUME NEW i \in DOMAIN tape', NEW j \in DOMAIN tape', i <= j
                 PROVE  tape'[i].ts <= tape'[j].ts
      OBVIOUS
    <3>1. CASE j = n
      BY <2>1, <2>2, <2>5, <3>1
    <3>2. CASE j # n
      <4>1. j \in DOMAIN tape /\ i \in DOMAIN tape
        BY <2>2, <3>2
      <4>2. QED
        BY <2>2, <4>1 DEF ClockInv
    <3>3. QED
      BY <3>1, <3>2
  <2>7. next_scan' \in Int /\ next_scan' - ScanInterval <= e.ts /\ e.ts < next_scan'
    <3>0. first \in Int /\ e.ts \in Int
      BY <2>3
    <3>00. first - ScanInterval <= e.ts
      BY <1>0, <2>1, <2>3 DEF ClockInv, LastScan
    <3> HIDE DEF first
    <3>1. CASE first <= e.ts
      <4>1. /\ NextScan(first, e.ts) \in Int /\ NextScan(first, e.ts) > e.ts
            /\ Max(ScanPoints(first, e.ts)) \in ScanPoints(first, e.ts)
            /\ NextScan(first, e.ts) - ScanInterval = Max(ScanPoints(first, e.ts))
        BY <3>0, <3>1, ScansDue
      <4>2. Max(ScanPoints(first, e.ts)) <= e.ts
        <5>1. \A t \in ScanPoints(first, e.ts) : first <= t /\ t <= e.ts
          BY <3>0, ScansDue
        <5>2. QED
          BY <4>1, <5>1
      <4>3. QED
        BY <2>1, <3>0, <4>1, <4>2
    <3>2. CASE e.ts < first
      <4>1. ScanPoints(first, e.ts) = {}
        BY <3>0, <3>2, ScansDue
      <4>2. next_scan' = first
        BY <2>1, <4>1 DEF NextScan
      <4>3. QED
        BY <3>0, <3>00, <3>2, <4>2
    <3>3. QED
      BY <3>0, <3>1, <3>2
  <2>8. started' => now' \in Nat \ {0}
    BY <2>1, <2>3
  <2>9. QED
    BY <2>1, <2>2, <2>3, <2>5, <2>6, <2>7, <2>8 DEF ClockInv, LastScan
<1>2. ASSUME Finish PROVE ClockInv'
  <2>1. /\ UNCHANGED <<enabled, started, now, tape>> /\ finished' = TRUE
        /\ next_scan' = IF started THEN NextScan(next_scan, now + History) ELSE next_scan
    BY <1>2 DEF Finish
  <2>2. next_scan' \in Int
    <3>1. now + History \in Int /\ next_scan \in Int
      BY HistoryIsInt DEF ClockInv
    <3>2. NextScan(next_scan, now + History) \in Int
      BY <3>1, ScansDue
    <3>3. QED
      BY <2>1, <3>1, <3>2
  <2>3. QED
    BY <2>1, <2>2 DEF ClockInv
<1>3. CASE UNCHANGED vars
  BY <1>3 DEF vars, ClockInv, LastScan
<1>4. QED
  BY <1>1, <1>2, <1>3, StepsApply

-----------------------------------------------------------------------------
(***************************************************************************)
(* The three windows through a step.                                       *)
(***************************************************************************)
\* What was pushed for some of the events of the tape.
LEMMA PushedFromTape ==
  ASSUME ClockInv, NEW pushed, DOMAIN pushed \subseteq DOMAIN tape,
         \A i \in DOMAIN pushed : pushed[i].ts = tape[i].ts
  PROVE  /\ PushedOK(pushed)
         /\ \A i \in DOMAIN pushed : i < Len(tape) + 1 /\ pushed[i].ts <= now
<1>1. PICK S : tape \in Seq(S)
  BY DEF ClockInv
<1>2. DOMAIN tape = 1 .. Len(tape) /\ Len(tape) \in Nat
  BY <1>1
<1>3. IsFiniteSet(DOMAIN pushed)
  <2>1. IsFiniteSet(1 .. Len(tape))
    BY <1>2, FS_Interval
  <2>2. QED
    BY <1>2, <2>1, FS_Subset
<1>4. DOMAIN pushed \in SUBSET Nat
  BY <1>2
<1>5. \A i \in DOMAIN pushed : tape[i].ts \in Int /\ tape[i].ts <= now
  BY DEF ClockInv
<1>6. \A i, j \in DOMAIN pushed : i <= j => tape[i].ts <= tape[j].ts
  BY DEF ClockInv
<1>7. QED
  BY <1>2, <1>3, <1>4, <1>5, <1>6 DEF PushedOK

\* A window told the time of the scans that are due.
AfterScans(w, first, until) ==
  IF ScanPoints(first, until) = {} THEN w ELSE Expire(w, Max(ScanPoints(first, until)))

SameShape(v, w) == v.capacity = w.capacity /\ v.window_ns = w.window_ns

LEMMA ScansHold ==
  ASSUME NEW w, NEW pushed, PushedOK(pushed), NEW first \in Int, NEW until \in Int,
         HoldsAsOf(w, pushed, first - ScanInterval)
  PROVE  /\ HoldsAsOf(AfterScans(w, first, until), pushed,
                      NextScan(first, until) - ScanInterval)
         /\ SameShape(AfterScans(w, first, until), w)
         /\ AfterScans(w, first, until).overflowed = w.overflowed
<1> DEFINE m == Max(ScanPoints(first, until))
           next == NextScan(first, until)
<1>0. ScanInterval \in Nat \ {0}
  BY ScanIntervalAssumption
<1>1. CASE until < first
  <2>1. ScanPoints(first, until) = {}
    BY <1>1, ScansDue
  <2>2. QED
    BY <2>1 DEF AfterScans, NextScan, SameShape
<1>2. CASE first <= until
  <2>1. ScanPoints(first, until) # {} /\ m \in ScanPoints(first, until)
        /\ next - ScanInterval = m /\ next \in Int
    BY <1>2, ScansDue
  <2>2. \A t \in ScanPoints(first, until) : first <= t
    BY ScansDue
  <2>3. first <= m /\ m \in Int
    <3> HIDE DEF m, next
    <3>1. QED
      BY <1>0, <2>1, <2>2
  <2>4. first - ScanInterval <= m /\ first - ScanInterval \in Int
    <3> HIDE DEF m
    <3>1. QED
      BY <1>0, <2>3
  <2>5. AfterScans(w, first, until) = Expire(w, m)
    BY <2>1 DEF AfterScans
  <2> HIDE DEF m, next
  <2>6. QED
    BY <2>1, <2>3, <2>4, <2>5, ScanHolds DEF SameShape, next
<1>3. QED
  BY <1>1, <1>2

\* One window and what was pushed into it, through apply.
LEMMA WindowThroughApply ==
  ASSUME ClockInv, ClockInv', NEW e, ArrivingOK(e), Apply(e),
         NEW w, NEW pushed, DOMAIN pushed \subseteq DOMAIN tape,
         \A i \in DOMAIN pushed : pushed[i].ts = tape[i].ts,
         HoldsAsOf(w, pushed, LastScan), NEW item
  PROVE  LET first == IF started THEN next_scan ELSE e.ts + ScanInterval
             v     == AfterScans(w, first, e.ts)
             more  == WithEntry(pushed, Len(tape) + 1, [ts |-> e.ts, item |-> item])
             x     == Push(v, e.ts, item)
         IN  /\ HoldsAsOf(v, pushed, LastScan') /\ SameShape(v, w)
             /\ v.overflowed = w.overflowed
             /\ HoldsAsOf(x, more, LastScan') /\ SameShape(x, w)
             /\ x.overflowed = w.overflowed + (IF v.size = v.capacity THEN 1 ELSE 0)
<1> DEFINE first == IF started THEN next_scan ELSE e.ts + ScanInterval
           v == AfterScans(w, first, e.ts)
           more == WithEntry(pushed, Len(tape) + 1, [ts |-> e.ts, item |-> item])
           x == Push(v, e.ts, item)
<1>0. /\ ScanInterval \in Nat \ {0} /\ e.ts \in Int /\ first \in Int
      /\ PushedOK(pushed)
      /\ \A i \in DOMAIN pushed : i < Len(tape) + 1 /\ pushed[i].ts <= now
      /\ now \in Int
  <2>1. ScanInterval \in Nat \ {0} /\ next_scan \in Int /\ now \in Int
    BY ScanIntervalAssumption DEF ClockInv
  <2>2. e.ts \in Int
    BY DEF ArrivingOK
  <2>3. /\ PushedOK(pushed)
        /\ \A i \in DOMAIN pushed : i < Len(tape) + 1 /\ pushed[i].ts <= now
    BY PushedFromTape
  <2>4. QED
    BY <2>1, <2>2, <2>3
<1>1. /\ next_scan' = NextScan(first, e.ts) /\ now' = e.ts /\ started' /\ ~finished'
  BY DEF Apply
<1>2. LastScan' = NextScan(first, e.ts) - ScanInterval /\ LastScan' <= e.ts /\ LastScan' \in Int
  BY <1>0, <1>1 DEF LastScan, ClockInv
<1>3. HoldsAsOf(w, pushed, first - ScanInterval)
  <2>1. CASE started
    BY <2>1 DEF LastScan
  <2>2. CASE ~started
    <3>1. DOMAIN tape = {}
      BY <2>2 DEF ClockInv
    <3>2. DOMAIN pushed = {}
      BY <3>1
    <3>3. first - ScanInterval \in Int
      BY <1>0
    <3> HIDE DEF first
    <3>4. QED
      BY <3>2, <3>3, EmptyHolds
  <2>3. QED
    BY <2>1, <2>2
<1> HIDE DEF first
<1>4. HoldsAsOf(v, pushed, LastScan') /\ SameShape(v, w) /\ v.overflowed = w.overflowed
  <2>1. /\ HoldsAsOf(v, pushed, NextScan(first, e.ts) - ScanInterval)
        /\ SameShape(v, w) /\ v.overflowed = w.overflowed
    <3>1. PushedOK(pushed) /\ first \in Int /\ e.ts \in Int
      BY <1>0
    <3>2. QED
      BY ONLY <1>3, <3>1, ScansHold
  <2>2. QED
    BY <1>2, <2>1
<1>5. Len(tape) + 1 \in Nat
  <2>1. PICK S : tape \in Seq(S)
    BY DEF ClockInv
  <2>2. QED
    BY <2>1
<1>6. \A i \in DOMAIN pushed : i < Len(tape) + 1 /\ pushed[i].ts <= e.ts
  <2>1. CASE started
    BY <1>0, <2>1 DEF ArrivingOK, PushedOK
  <2>2. CASE ~started
    BY <2>2 DEF ClockInv
  <2>3. QED
    BY <2>1, <2>2
<1> HIDE DEF v
<1>7. /\ HoldsAsOf(x, more, LastScan')
      /\ x.capacity = v.capacity /\ x.window_ns = v.window_ns
      /\ x.overflowed = v.overflowed + (IF v.size = v.capacity THEN 1 ELSE 0)
  BY <1>0, <1>2, <1>4, <1>5, <1>6, PushHolds
<1>8. QED
  BY <1>4, <1>7 DEF SameShape, first, v

(***************************************************************************)
(* The windows of the symbol.                                              *)
(***************************************************************************)
WindowOf(w, pushed) == HoldsAsOf(w, pushed, LastScan) /\ w.window_ns = History

WindowsInv ==
  /\ WindowOf(ctx.trades, Printed)
  /\ WindowOf(ctx.cancels, Withdrawn)
  /\ WindowOf(ctx.mids, Quoted)

LEMMA PushedDomains ==
  /\ DOMAIN Printed \subseteq DOMAIN tape
  /\ \A i \in DOMAIN Printed : Printed[i].ts = tape[i].ts
  /\ DOMAIN Withdrawn \subseteq DOMAIN tape
  /\ \A i \in DOMAIN Withdrawn : Withdrawn[i].ts = tape[i].ts
  /\ DOMAIN Quoted \subseteq DOMAIN tape
  /\ \A i \in DOMAIN Quoted : Quoted[i].ts = tape[i].ts
BY DEF Printed, Withdrawn, Quoted, OfKind

\* An event of the tape adds an entry to the windows of its kind and the mids.
LEMMA PushedGrow ==
  ASSUME ClockInv, NEW e, ArrivingOK(e), tape' = Append(tape, e)
  PROVE  LET n == Len(tape) + 1 IN
         /\ Printed' = IF e.kind = "trade"
                         THEN WithEntry(Printed, n, [ts |-> e.ts, item |-> e.rec])
                         ELSE Printed
         /\ Withdrawn' = IF e.kind = "withdrawal"
                           THEN WithEntry(Withdrawn, n, [ts |-> e.ts, item |-> e.rec])
                           ELSE Withdrawn
         /\ Quoted' = WithEntry(Quoted, n, [ts |-> e.ts, item |-> e.mid2])
<1> DEFINE n == Len(tape) + 1
<1>1. /\ DOMAIN tape' = DOMAIN tape \cup {n} /\ n \notin DOMAIN tape
      /\ \A i \in DOMAIN tape : i # n /\ tape'[i] = tape[i]
      /\ tape'[n] = e
  BY TapeGrows
<1> HIDE DEF n
<1>2. ASSUME NEW kind
      PROVE  /\ OfKind(kind)' = OfKind(kind) \cup (IF e.kind = kind THEN {n} ELSE {})
             /\ OfKind(kind) \subseteq DOMAIN tape
  BY <1>1 DEF OfKind
<1>3. Printed' = IF e.kind = "trade"
                   THEN WithEntry(Printed, n, [ts |-> e.ts, item |-> e.rec]) ELSE Printed
  <2>1. /\ OfKind("trade")' = OfKind("trade") \cup (IF e.kind = "trade" THEN {n} ELSE {})
        /\ OfKind("trade") \subseteq DOMAIN tape
    BY <1>2
  <2>2. CASE e.kind = "trade"
    BY <1>1, <2>1, <2>2 DEF Printed, WithEntry
  <2>3. CASE e.kind # "trade"
    BY <1>1, <2>1, <2>3 DEF Printed
  <2>4. QED
    BY <2>2, <2>3
<1>4. Withdrawn' = IF e.kind = "withdrawal"
                     THEN WithEntry(Withdrawn, n, [ts |-> e.ts, item |-> e.rec])
                     ELSE Withdrawn
  <2>1. /\ OfKind("withdrawal")'
             = OfKind("withdrawal") \cup (IF e.kind = "withdrawal" THEN {n} ELSE {})
        /\ OfKind("withdrawal") \subseteq DOMAIN tape
    BY <1>2
  <2>2. CASE e.kind = "withdrawal"
    BY <1>1, <2>1, <2>2 DEF Withdrawn, WithEntry
  <2>3. CASE e.kind # "withdrawal"
    BY <1>1, <2>1, <2>3 DEF Withdrawn
  <2>4. QED
    BY <2>2, <2>3
<1>5. Quoted' = WithEntry(Quoted, n, [ts |-> e.ts, item |-> e.mid2])
  BY <1>1 DEF Quoted, WithEntry
<1>6. QED
  BY <1>3, <1>4, <1>5 DEF n

LEMMA ScannedIs ==
  ASSUME NEW first, NEW until
  PROVE  /\ Scanned(first, until).trades = AfterScans(ctx.trades, first, until)
         /\ Scanned(first, until).cancels = AfterScans(ctx.cancels, first, until)
         /\ Scanned(first, until).mids = AfterScans(ctx.mids, first, until)
BY DEF Scanned, Expired, AfterScans

LEMMA WindowsKept ==
  ASSUME ClockInv, ClockInv', WindowsInv, [Next]_vars
  PROVE  WindowsInv'
<1>1. ASSUME NEW e, ArrivingOK(e), Apply(e) PROVE WindowsInv'
  <2> DEFINE n == Len(tape) + 1
             first == IF started THEN next_scan ELSE e.ts + ScanInterval
             After(w) == AfterScans(w, first, e.ts)
             Entry(item) == [ts |-> e.ts, item |-> item]
  <2>1. /\ tape' = Append(tape, e) /\ ctx' = Pushed(Scanned(first, e.ts), e)
    BY <1>1 DEF Apply
  <2>2. /\ Printed' = IF e.kind = "trade" THEN WithEntry(Printed, n, Entry(e.rec)) ELSE Printed
        /\ Withdrawn' = IF e.kind = "withdrawal" THEN WithEntry(Withdrawn, n, Entry(e.rec))
                                                 ELSE Withdrawn
        /\ Quoted' = WithEntry(Quoted, n, Entry(e.mid2))
    BY <1>1, <2>1, PushedGrow
  <2>3. /\ ctx'.trades = IF e.kind = "trade" THEN Push(After(ctx.trades), e.ts, e.rec)
                                             ELSE After(ctx.trades)
        /\ ctx'.cancels = IF e.kind = "withdrawal" THEN Push(After(ctx.cancels), e.ts, e.rec)
                                                   ELSE After(ctx.cancels)
        /\ ctx'.mids = Push(After(ctx.mids), e.ts, e.mid2)
    <3> HIDE DEF first
    <3>1. QED
      BY <2>1, ScannedIs DEF Pushed
  <2>4. ASSUME NEW w, NEW pushed, DOMAIN pushed \subseteq DOMAIN tape,
               \A i \in DOMAIN pushed : pushed[i].ts = tape[i].ts,
               WindowOf(w, pushed), NEW item
        PROVE  /\ HoldsAsOf(After(w), pushed, LastScan') /\ After(w).window_ns = History
               /\ HoldsAsOf(Push(After(w), e.ts, item), WithEntry(pushed, n, Entry(item)),
                            LastScan')
               /\ Push(After(w), e.ts, item).window_ns = History
    BY <1>1, <2>4, WindowThroughApply DEF WindowOf, SameShape
  <2> HIDE DEF n, first, After, Entry
  <2>5. WindowOf(ctx.trades, Printed)'
    <3>1. /\ HoldsAsOf(After(ctx.trades), Printed, LastScan')
          /\ After(ctx.trades).window_ns = History
          /\ HoldsAsOf(Push(After(ctx.trades), e.ts, e.rec),
                       WithEntry(Printed, n, Entry(e.rec)), LastScan')
          /\ Push(After(ctx.trades), e.ts, e.rec).window_ns = History
      BY <2>4, PushedDomains DEF WindowsInv
    <3>2. HoldsAsOf(ctx'.trades, Printed', LastScan') /\ ctx'.trades.window_ns = History
      <4>1. CASE e.kind = "trade"
        BY <2>2, <2>3, <3>1, <4>1
      <4>2. CASE e.kind # "trade"
        BY <2>2, <2>3, <3>1, <4>2
      <4>3. QED
        BY <4>1, <4>2
    <3>3. QED
      BY <3>2 DEF WindowOf
  <2>6. WindowOf(ctx.cancels, Withdrawn)'
    <3>1. /\ HoldsAsOf(After(ctx.cancels), Withdrawn, LastScan')
          /\ After(ctx.cancels).window_ns = History
          /\ HoldsAsOf(Push(After(ctx.cancels), e.ts, e.rec),
                       WithEntry(Withdrawn, n, Entry(e.rec)), LastScan')
          /\ Push(After(ctx.cancels), e.ts, e.rec).window_ns = History
      BY <2>4, PushedDomains DEF WindowsInv
    <3>2. HoldsAsOf(ctx'.cancels, Withdrawn', LastScan') /\ ctx'.cancels.window_ns = History
      <4>1. CASE e.kind = "withdrawal"
        BY <2>2, <2>3, <3>1, <4>1
      <4>2. CASE e.kind # "withdrawal"
        BY <2>2, <2>3, <3>1, <4>2
      <4>3. QED
        BY <4>1, <4>2
    <3>3. QED
      BY <3>2 DEF WindowOf
  <2>7. WindowOf(ctx.mids, Quoted)'
    <3>1. /\ HoldsAsOf(Push(After(ctx.mids), e.ts, e.mid2),
                       WithEntry(Quoted, n, Entry(e.mid2)), LastScan')
          /\ Push(After(ctx.mids), e.ts, e.mid2).window_ns = History
      BY <2>4, PushedDomains DEF WindowsInv
    <3>2. HoldsAsOf(ctx'.mids, Quoted', LastScan') /\ ctx'.mids.window_ns = History
      BY <2>2, <2>3, <3>1
    <3>3. QED
      BY <3>2 DEF WindowOf
  <2>8. QED
    BY <2>5, <2>6, <2>7 DEF WindowsInv
<1>2. ASSUME UNCHANGED <<ctx, tape, next_scan>> PROVE WindowsInv'
  BY <1>2 DEF WindowsInv, WindowOf, LastScan, Printed, Withdrawn, Quoted, OfKind
<1>3. CASE Finish
  <2>1. CASE ~started
    BY <1>2, <1>3, <2>1 DEF Finish
  <2>2. CASE started
    <3> DEFINE until == now + History
               After(w) == AfterScans(w, next_scan, until)
    <3>1. /\ ctx' = Scanned(next_scan, until) /\ next_scan' = NextScan(next_scan, until)
          /\ tape' = tape
      BY <1>3, <2>2 DEF Finish
    <3>2. until \in Int /\ next_scan \in Int
      BY HistoryIsInt DEF ClockInv
    <3> HIDE DEF until
    <3>3. /\ ctx'.trades = After(ctx.trades) /\ ctx'.cancels = After(ctx.cancels)
          /\ ctx'.mids = After(ctx.mids)
      BY <3>1, ScannedIs
    <3>4. Printed' = Printed /\ Withdrawn' = Withdrawn /\ Quoted' = Quoted
      BY <3>1 DEF Printed, Withdrawn, Quoted, OfKind
    <3>5. ASSUME NEW w, NEW pushed, DOMAIN pushed \subseteq DOMAIN tape,
                 \A i \in DOMAIN pushed : pushed[i].ts = tape[i].ts,
                 WindowOf(w, pushed)
          PROVE  HoldsAsOf(After(w), pushed, LastScan') /\ After(w).window_ns = History
      <4>1. PushedOK(pushed)
        BY <3>5, PushedFromTape
      <4>2. QED
        BY <3>1, <3>2, <3>5, <4>1, ScansHold DEF WindowOf, SameShape, LastScan
    <3> HIDE DEF After
    <3>6. /\ HoldsAsOf(After(ctx.trades), Printed, LastScan')
          /\ After(ctx.trades).window_ns = History
          /\ HoldsAsOf(After(ctx.cancels), Withdrawn, LastScan')
          /\ After(ctx.cancels).window_ns = History
          /\ HoldsAsOf(After(ctx.mids), Quoted, LastScan')
          /\ After(ctx.mids).window_ns = History
      BY <3>5, PushedDomains DEF WindowsInv
    <3>7. WindowOf(ctx.trades, Printed)'
      BY <3>3, <3>4, <3>6 DEF WindowOf
    <3>8. WindowOf(ctx.cancels, Withdrawn)'
      BY <3>3, <3>4, <3>6 DEF WindowOf
    <3>9. WindowOf(ctx.mids, Quoted)'
      BY <3>3, <3>4, <3>6 DEF WindowOf
    <3>10. QED
      BY <3>7, <3>8, <3>9 DEF WindowsInv
  <2>3. QED
    BY <2>1, <2>2
<1>4. CASE UNCHANGED vars
  BY <1>2, <1>4 DEF vars
<1>5. QED
  BY <1>1, <1>3, <1>4, StepsApply

LEMMA WindowsInitially == Init => ClockInv /\ WindowsInv
<1> SUFFICES ASSUME Init PROVE ClockInv /\ WindowsInv
  OBVIOUS
<1>1. tape = <<>> /\ DOMAIN tape = {} /\ tape \in Seq({})
  BY DEF Init
<1>2. ClockInv
  <2>1. /\ enabled \in Enabled /\ started = FALSE /\ finished = FALSE
        /\ now = 0 /\ next_scan = 0
    BY DEF Init
  <2>2. \E S : tape \in Seq(S)
    BY <1>1
  <2>3. /\ \A i \in DOMAIN tape : tape[i].ts \in Nat \ {0} /\ tape[i].ts <= now
        /\ \A i, j \in DOMAIN tape : i <= j => tape[i].ts <= tape[j].ts
    BY <1>1
  <2>4. started \in BOOLEAN /\ finished \in BOOLEAN
    BY <2>1, Zenon
  <2>5. now \in Int /\ next_scan \in Int
    BY <2>1
  <2>6. ~started
    BY <2>1
  <2>7. QED
    BY <1>1, <2>1, <2>2, <2>3, <2>4, <2>5, <2>6, Zenon DEF ClockInv
<1>3. DOMAIN Printed = {} /\ DOMAIN Withdrawn = {} /\ DOMAIN Quoted = {}
  BY <1>1, PushedDomains
<1>4. enabled \in Kind /\ WindowCapacity[enabled] \in Nat /\ History \in Int
  BY EnabledAssumption, WindowCapacityAssumption, HistoryIsInt DEF Init
<1> DEFINE w == EmptyWindow(WindowCapacity[enabled], History)
<1>5. ASSUME NEW pushed, DOMAIN pushed = {} PROVE WindowOf(w, pushed)
  BY <1>4, <1>5, EmptyCarries DEF WindowOf, HoldsAsOf
<1>6. ctx.trades = w /\ ctx.cancels = w /\ ctx.mids = w
  BY DEF Init
<1> HIDE DEF w
<1>7. QED
  BY <1>2, <1>3, <1>5, <1>6 DEF WindowsInv

\* The inductive invariant of the clock and the windows.
THEOREM WindowsInvariant == Spec => [](ClockInv /\ WindowsInv)
<1>1. ClockInv /\ WindowsInv /\ [Next]_vars => (ClockInv /\ WindowsInv)'
  BY ClockKept, WindowsKept
<1>2. QED
  BY <1>1, WindowsInitially, PTL DEF Spec

(***************************************************************************)
(* A window holds exactly the newest entries pushed, as many as fit and    *)
(* are not older than the history, in order, wherever the ring has         *)
(* wrapped, for every capacity, configuration and tape.                    *)
(***************************************************************************)
THEOREM WindowsHoldTheRecentCorrect == Spec => []WindowsHoldTheRecent
<1>1. ASSUME ClockInv, WindowsInv PROVE WindowsHoldTheRecent
  <2>1. PushedOK(Printed) /\ PushedOK(Withdrawn) /\ PushedOK(Quoted)
    BY <1>1, PushedDomains, PushedFromTape
  <2>2. QED
    BY <1>1, <2>1, HoldsIsRecent DEF WindowsInv, WindowOf, WindowsHoldTheRecent
<1>2. QED
  BY <1>1, WindowsInvariant, PTL

-----------------------------------------------------------------------------
(***************************************************************************)
(* The binary search.  Found says what it should find: the place of t in a *)
(* stretch of numbers that do not decrease.                                *)
(***************************************************************************)
Found(ts, t, lo, hi, p) ==
  /\ p \in lo .. hi
  /\ \A i \in lo .. p - 1 : ts[i] < t
  /\ \A i \in p .. hi - 1 : ts[i] >= t

Sorted(ts, n) ==
  /\ \A i \in 0 .. n - 1 : ts[i] \in Int
  /\ \A i, j \in 0 .. n - 1 : i <= j => ts[i] <= ts[j]

LEMMA OneIsFound ==
  ASSUME NEW n \in Nat, NEW ts, Sorted(ts, n), NEW t \in Int,
         NEW lo \in 0 .. n, NEW hi \in 0 .. n, lo <= hi
  PROVE  /\ \E p : Found(ts, t, lo, hi, p)
         /\ \A p, q : Found(ts, t, lo, hi, p) /\ Found(ts, t, lo, hi, q) => p = q
<1>1. \E p : Found(ts, t, lo, hi, p)
  <2> DEFINE T == {p \in lo .. hi : \A i \in p .. hi - 1 : ts[i] >= t}
  <2>1. T \in SUBSET Nat /\ hi \in T
    OBVIOUS
  <2>2. PICK p \in T : \A q \in T : p <= q
    <3> HIDE DEF T
    <3>1. QED
      BY <2>1, LeastNumber
  <2>3. ASSUME NEW i \in lo .. p - 1 PROVE ts[i] < t
    <3>1. p \in Nat /\ p - 1 \in lo .. hi /\ p - 1 \in 0 .. n - 1 /\ i \in 0 .. n - 1 /\ i <= p - 1
      OBVIOUS
    <3>2. p - 1 \notin T
      BY <2>2, <3>1
    <3>3. PICK k \in p - 1 .. hi - 1 : ~(ts[k] >= t)
      BY <3>1, <3>2
    <3>4. k = p - 1
      <4>1. k # p - 1 => k \in p .. hi - 1
        BY <3>1
      <4>2. QED
        BY <3>3, <4>1
    <3>5. ts[i] <= ts[p - 1] /\ ts[i] \in Int /\ ts[p - 1] \in Int
      BY <3>1 DEF Sorted
    <3>6. QED
      BY <3>3, <3>4, <3>5
  <2>4. QED
    BY <2>3 DEF Found
<1>2. ASSUME NEW p, NEW q, Found(ts, t, lo, hi, p), Found(ts, t, lo, hi, q), p < q
      PROVE  FALSE
  <2>1. p \in lo .. q - 1 /\ p \in p .. hi - 1 /\ p \in 0 .. n - 1
    BY <1>2 DEF Found
  <2>2. ts[p] < t /\ ts[p] >= t /\ ts[p] \in Int
    BY <1>2, <2>1 DEF Found, Sorted
  <2>3. QED
    BY <2>2
<1>3. ASSUME NEW p, NEW q, Found(ts, t, lo, hi, p), Found(ts, t, lo, hi, q)
      PROVE  p = q
  <2>1. p \in Int /\ q \in Int
    BY <1>3 DEF Found
  <2>2. p < q \/ q < p \/ p = q
    BY <2>1
  <2>3. QED
    BY <1>2, <1>3, <2>2
<1>4. QED
  BY <1>1, <1>3

\* lower_bound_ts finds it, on a window in the order of time.
LEMMA LowerBoundFinds ==
  ASSUME NEW w, w.size \in Nat, NEW ts, Sorted(ts, w.size),
         \A p \in 0 .. w.size - 1 : TsAt(w, p) = ts[p], NEW t \in Int
  PROVE  Found(ts, t, 0, w.size, LowerBound(w, t))
<1> DEFINE n == w.size
           D == 0 .. n
           mid(lo, hi) == lo + (hi - lo) \div 2
           Body(f, lo, hi) == IF lo >= hi THEN lo
                              ELSE IF TsAt(w, mid(lo, hi)) < t THEN f[<<mid(lo, hi) + 1, hi>>]
                                                              ELSE f[<<lo, mid(lo, hi)>>]
           Solves(f) == f = [s \in D \X D |-> Body(f, s[1], s[2])]
           search == CHOOSE f : Solves(f)
           place(lo, hi) == CHOOSE p : Found(ts, t, lo, hi, p)
           value(lo, hi) == IF lo >= hi THEN lo ELSE place(lo, hi)
           g == [s \in D \X D |-> value(s[1], s[2])]
<1>1. LowerBound(w, t) = search[<<0, n>>]
  BY DEF LowerBound
<1>2. ASSUME NEW lo \in D, NEW hi \in D, lo < hi
      PROVE  /\ mid(lo, hi) \in lo .. hi - 1 /\ mid(lo, hi) \in 0 .. n - 1
             /\ mid(lo, hi) \in D /\ mid(lo, hi) + 1 \in D /\ mid(lo, hi) + 1 <= hi
             /\ TsAt(w, mid(lo, hi)) = ts[mid(lo, hi)]
  BY <1>2
<1> HIDE DEF mid
\* Whatever is found in the half the search goes on in is found in the whole.
<1>3. ASSUME NEW lo \in D, NEW hi \in D, lo < hi, NEW p
      PROVE  /\ TsAt(w, mid(lo, hi)) < t /\ Found(ts, t, mid(lo, hi) + 1, hi, p)
                  => Found(ts, t, lo, hi, p)
             /\ ~(TsAt(w, mid(lo, hi)) < t) /\ Found(ts, t, lo, mid(lo, hi), p)
                  => Found(ts, t, lo, hi, p)
  <2> DEFINE m == mid(lo, hi)
  <2>1. /\ m \in lo .. hi - 1 /\ m \in 0 .. n - 1 /\ TsAt(w, m) = ts[m]
        /\ lo \in Nat /\ hi \in Nat /\ hi <= n
    BY <1>2, <1>3
  <2> HIDE DEF m
  <2>2. ASSUME TsAt(w, m) < t, Found(ts, t, m + 1, hi, p) PROVE Found(ts, t, lo, hi, p)
    <3>1. ASSUME NEW i \in lo .. m PROVE ts[i] < t
      <4>1. i \in 0 .. n - 1 /\ i <= m
        BY <2>1
      <4>2. ts[i] <= ts[m] /\ ts[i] \in Int /\ ts[m] \in Int
        BY <2>1, <4>1 DEF Sorted
      <4>3. QED
        BY <2>1, <2>2, <4>2
    <3>2. \A i \in lo .. p - 1 : i \in lo .. m \/ i \in m + 1 .. p - 1
      BY <2>1, <2>2 DEF Found
    <3>3. QED
      BY <2>1, <2>2, <3>1, <3>2 DEF Found
  <2>3. ASSUME ~(TsAt(w, m) < t), Found(ts, t, lo, m, p) PROVE Found(ts, t, lo, hi, p)
    <3>1. ASSUME NEW i \in m .. hi - 1 PROVE ts[i] >= t
      <4>1. i \in 0 .. n - 1 /\ m <= i
        BY <2>1
      <4>2. ts[m] <= ts[i] /\ ts[i] \in Int /\ ts[m] \in Int
        BY <2>1, <4>1 DEF Sorted
      <4>3. QED
        BY <2>1, <2>3, <4>2
    <3>2. \A i \in p .. hi - 1 : i \in m .. hi - 1 \/ i \in p .. m - 1
      BY <2>1, <2>3 DEF Found
    <3>3. QED
      BY <2>1, <2>3, <3>1, <3>2 DEF Found
  <2>4. QED
    BY <2>2, <2>3 DEF m
\* What it should find solves the recursion, so there is a solution...
<1>4. ASSUME NEW lo \in D, NEW hi \in D
      PROVE  /\ lo <= hi => Found(ts, t, lo, hi, value(lo, hi))
             /\ lo >= hi => value(lo, hi) = lo
             /\ \A p : lo <= hi /\ Found(ts, t, lo, hi, p) => p = value(lo, hi)
  <2>1. CASE lo < hi
    <3>1. Found(ts, t, lo, hi, place(lo, hi))
      BY <2>1, OneIsFound
    <3>2. value(lo, hi) = place(lo, hi)
      BY <2>1
    <3> HIDE DEF place, value
    <3>3. QED
      BY <2>1, <3>1, <3>2, OneIsFound
  <2>2. CASE lo >= hi
    <3>1. lo <= hi => Found(ts, t, lo, hi, lo)
      BY <2>2 DEF Found
    <3>2. value(lo, hi) = lo
      BY <2>2
    <3> HIDE DEF place, value
    <3>3. QED
      BY <2>2, <3>1, <3>2, OneIsFound
  <2>3. QED
    BY <2>1, <2>2
<1> HIDE DEF value
<1>5. \A lo, hi \in D : g[<<lo, hi>>] = value(lo, hi)
  OBVIOUS
<1>6. ASSUME NEW lo \in D, NEW hi \in D PROVE value(lo, hi) = Body(g, lo, hi)
  <2>1. CASE lo >= hi
    BY <1>4, <2>1
  <2>2. CASE lo < hi
    <3> DEFINE m == mid(lo, hi)
    <3>1. m \in lo .. hi - 1 /\ m \in D /\ m + 1 \in D /\ m + 1 <= hi /\ lo <= m
      BY <1>2, <2>2
    <3>2. TsAt(w, m) < t => value(m + 1, hi) = value(lo, hi)
      BY <1>3, <1>4, <2>2, <3>1
    <3>3. ~(TsAt(w, m) < t) => value(lo, m) = value(lo, hi)
      BY <1>3, <1>4, <2>2, <3>1
    <3>4. g[<<m + 1, hi>>] = value(m + 1, hi) /\ g[<<lo, m>>] = value(lo, m)
      BY <1>5, <3>1
    <3>5. Body(g, lo, hi) = IF TsAt(w, m) < t THEN g[<<m + 1, hi>>] ELSE g[<<lo, m>>]
      BY <2>2
    <3> HIDE DEF Body, m, g
    <3>6. QED
      BY <3>2, <3>3, <3>4, <3>5
  <2>3. QED
    BY <2>1, <2>2
<1>7. Solves(g)
  <2> DEFINE h == [s \in D \X D |-> Body(g, s[1], s[2])]
  <2>1. \A lo, hi \in D : value(lo, hi) = Body(g, lo, hi)
    BY <1>6
  <2>2. g = h
    <3> HIDE DEF Body
    <3>1. QED
      BY <2>1
  <2>3. QED
    BY <2>2
<1>8. Solves(search)
  <2> HIDE DEF Solves, g
  <2>1. \E f : Solves(f)
    BY <1>7
  <2>2. QED
    BY <2>1
\* ...and every solution finds it: a counterexample with the shortest stretch
\* would have a shorter one.
<1>9. \A lo, hi \in D : search[<<lo, hi>>] = Body(search, lo, hi)
  <2> HIDE DEF Body, search
  <2>1. QED
    BY <1>8
<1> HIDE DEF search
<1>10. ASSUME NEW lo \in D, NEW hi \in D, lo <= hi, ~Found(ts, t, lo, hi, search[<<lo, hi>>])
       PROVE  FALSE
  <2> DEFINE Lost(l, h) == l <= h /\ ~Found(ts, t, l, h, search[<<l, h>>])
             Bad == {k \in Nat : \E l, h \in D : k = h - l /\ Lost(l, h)}
  <2>1. Bad \in SUBSET Nat /\ hi - lo \in Bad
    <3>1. Lost(lo, hi) /\ hi - lo \in Nat
      BY <1>10
    <3> HIDE DEF Lost
    <3>2. QED
      BY <3>1
  <2>2. PICK k \in Bad : \A j \in Bad : k <= j
    <3> HIDE DEF Bad
    <3>1. QED
      BY <2>1, LeastNumber
  <2>3. PICK l \in D, h \in D : l <= h /\ k = h - l /\ ~Found(ts, t, l, h, search[<<l, h>>])
    OBVIOUS
  <2>4. ASSUME NEW x \in D, NEW y \in D, x <= y, y - x < k
        PROVE  Found(ts, t, x, y, search[<<x, y>>])
    <3>1. y - x \in Nat /\ y - x \notin Bad
      <4>1. y - x \in Nat /\ k \in Nat
        BY <2>4
      <4> HIDE DEF Bad
      <4>2. QED
        BY <2>2, <2>4, <4>1
    <3>2. ~Lost(x, y)
      <4> HIDE DEF Lost
      <4>1. QED
        BY <3>1
    <3>3. QED
      BY <2>4, <3>2
  <2>5. search[<<l, h>>] = Body(search, l, h)
    BY <1>9
  <2>6. CASE l = h
    <3>1. search[<<l, h>>] = l /\ Found(ts, t, l, h, l)
      BY <2>5, <2>6 DEF Found
    <3>2. QED
      BY <2>3, <3>1
  <2>7. CASE l < h
    <3> DEFINE m == mid(l, h)
    <3>1. m \in l .. h - 1 /\ m \in D /\ m + 1 \in D /\ m + 1 <= h /\ l <= m
      BY <1>2, <2>7
    <3>2. h - (m + 1) < k /\ m - l < k
      BY <2>3, <3>1
    <3>3. Found(ts, t, m + 1, h, search[<<m + 1, h>>]) /\ Found(ts, t, l, m, search[<<l, m>>])
      BY <2>4, <3>1, <3>2
    <3>4. search[<<l, h>>] = IF TsAt(w, m) < t THEN search[<<m + 1, h>>] ELSE search[<<l, m>>]
      BY <2>5, <2>7
    <3>5. /\ TsAt(w, m) < t => Found(ts, t, l, h, search[<<m + 1, h>>])
          /\ ~(TsAt(w, m) < t) => Found(ts, t, l, h, search[<<l, m>>])
      BY <1>3, <2>7, <3>3
    <3> HIDE DEF m
    <3>6. QED
      BY <2>3, <3>4, <3>5
  <2>8. QED
    BY <2>3, <2>6, <2>7
<1>11. 0 \in D /\ n \in D /\ 0 <= n
  OBVIOUS
<1>12. QED
  BY <1>1, <1>10, <1>11

-----------------------------------------------------------------------------
(***************************************************************************)
(* What a detector reads in a window.  The entry at a position was pushed  *)
(* for the event with as many newer entries as there are positions behind. *)
(***************************************************************************)
EventAt(w, pushed, p) ==
  CHOOSE i \in DOMAIN pushed : Newer(DOMAIN pushed, i) = w.size - 1 - p

\* The events whose entries the window has.
Carried(w, pushed) == {i \in DOMAIN pushed : Newer(DOMAIN pushed, i) < w.size}

LEMMA PositionsAreEvents ==
  ASSUME NEW w, NEW pushed, PushedOK(pushed), NEW last, HoldsAsOf(w, pushed, last)
  PROVE  /\ w.size \in Nat
         /\ \A p \in Positions(w) :
              /\ EventAt(w, pushed, p) \in Carried(w, pushed)
              /\ TsAt(w, p) = pushed[EventAt(w, pushed, p)].ts
              /\ ItemAt(w, p) = pushed[EventAt(w, pushed, p)].item
         /\ \A p, q \in Positions(w) : p <= q <=> EventAt(w, pushed, p) <= EventAt(w, pushed, q)
         /\ \A i \in Carried(w, pushed) : \E p \in Positions(w) : EventAt(w, pushed, p) = i
<1> DEFINE K == DOMAIN pushed
           at(p) == EventAt(w, pushed, p)
<1>1. /\ w.size \in Nat /\ w.size <= Cardinality(K) /\ K \in SUBSET Nat /\ IsFiniteSet(K)
      /\ \A i \in K : Newer(K, i) < w.size =>
           w.buf[Slot(w, w.size - 1 - Newer(K, i))] = pushed[i]
  BY DEF HoldsAsOf, RingOK, Carries, PushedOK
<1>2. Cardinality(K) \in Nat
  BY <1>1, FS_CardinalityType
<1> HIDE DEF K
<1>3. ASSUME NEW p \in Positions(w)
      PROVE  /\ at(p) \in K /\ Newer(K, at(p)) = w.size - 1 - p
             /\ TsAt(w, p) = pushed[at(p)].ts /\ ItemAt(w, p) = pushed[at(p)].item
             /\ p \in 0 .. w.size - 1
  <2>1. p \in 0 .. w.size - 1
    BY DEF Positions
  <2> DEFINE m == w.size - 1 - p
  <2>2. m \in Nat /\ m < Cardinality(K) /\ m < w.size /\ w.size - 1 - m = p
    BY <1>1, <1>2, <2>1
  <2>3. \E i \in K : Newer(K, i) = m
    <3> HIDE DEF m
    <3>1. QED
      BY <1>1, <2>2, NewerTaken
  <2>4. at(p) \in K /\ Newer(K, at(p)) = m
    BY <2>3 DEF EventAt, K
  <2> HIDE DEF m
  <2>5. w.buf[Slot(w, p)] = pushed[at(p)]
    BY <1>1, <2>2, <2>4
  <2>6. QED
    BY <2>1, <2>4, <2>5 DEF TsAt, ItemAt, m
<1>4. ASSUME NEW p \in Positions(w) PROVE at(p) \in Carried(w, pushed)
  BY <1>1, <1>3 DEF Carried, K
<1>5. ASSUME NEW p \in Positions(w), NEW q \in Positions(w) PROVE p <= q <=> at(p) <= at(q)
  <2>1. /\ at(p) \in K /\ at(q) \in K /\ at(p) \in Nat /\ at(q) \in Nat
        /\ p \in 0 .. w.size - 1 /\ q \in 0 .. w.size - 1
        /\ Newer(K, at(p)) = w.size - 1 - p /\ Newer(K, at(q)) = w.size - 1 - q
    BY <1>1, <1>3
  <2> HIDE DEF at
  <2>2. /\ Newer(K, at(q)) <= Newer(K, at(p)) => at(p) <= at(q)
        /\ at(q) < at(p) => Newer(K, at(p)) < Newer(K, at(q))
        /\ at(p) < at(q) => Newer(K, at(q)) < Newer(K, at(p))
    BY <1>1, <2>1, NewerFalls
  <2>3. QED
    BY <1>1, <2>1, <2>2
<1>6. ASSUME NEW i \in Carried(w, pushed) PROVE \E p \in Positions(w) : at(p) = i
  <2>1. i \in K /\ Newer(K, i) < w.size /\ Newer(K, i) \in Nat
    <3>1. i \in K /\ Newer(K, i) < w.size
      BY DEF Carried, K
    <3>2. QED
      BY <1>1, <3>1, NewerFalls
  <2> DEFINE p == w.size - 1 - Newer(K, i)
  <2>2. p \in Positions(w) /\ w.size - 1 - p = Newer(K, i)
    BY <1>1, <2>1 DEF Positions
  <2> HIDE DEF p
  <2>3. at(p) \in K /\ Newer(K, at(p)) = Newer(K, i)
    BY <1>3, <2>2
  <2>4. at(p) = i
    <3> HIDE DEF at
    <3>1. QED
      BY <1>1, <2>1, <2>3, NewerFalls
  <2>5. QED
    BY <2>2, <2>4
<1>7. QED
  BY <1>1, <1>3, <1>4, <1>5, <1>6

\* The items of a window are in the order of time, and a slice of it is what
\* its bounds say, wherever the binary search looked.
LEMMA SliceIs ==
  ASSUME NEW w, NEW pushed, PushedOK(pushed), NEW last, HoldsAsOf(w, pushed, last),
         NEW lo \in Int, NEW hi \in Int
  PROVE  Slice(w, lo, hi) = {p \in Positions(w) : lo <= TsAt(w, p) /\ TsAt(w, p) <= hi}
<1> DEFINE n == w.size
           ts == [p \in 0 .. n - 1 |-> TsAt(w, p)]
           first == LowerBound(w, lo)
<1>1. /\ n \in Nat
      /\ \A p \in 0 .. n - 1 : TsAt(w, p) \in Int
      /\ \A p, q \in 0 .. n - 1 : p <= q => TsAt(w, p) <= TsAt(w, q)
  <2> DEFINE at(p) == EventAt(w, pushed, p)
  <2>1. n \in Nat /\ Positions(w) = 0 .. n - 1
    BY PositionsAreEvents DEF Positions
  <2>2. \A p \in 0 .. n - 1 : at(p) \in DOMAIN pushed /\ TsAt(w, p) = pushed[at(p)].ts
    BY <2>1, PositionsAreEvents DEF Carried
  <2>3. \A p, q \in 0 .. n - 1 : p <= q => at(p) <= at(q)
    BY <2>1, PositionsAreEvents
  <2> HIDE DEF at, n
  <2>4. QED
    BY <2>1, <2>2, <2>3 DEF PushedOK
<1>2. \A p \in 0 .. n - 1 : TsAt(w, p) = ts[p]
  OBVIOUS
<1>3. Sorted(ts, n)
  BY <1>1 DEF Sorted
<1>4. Found(ts, lo, 0, n, first)
  <2> HIDE DEF ts
  <2>1. QED
    BY <1>1, <1>2, <1>3, LowerBoundFinds
<1>5. /\ first \in 0 .. n
      /\ \A p \in 0 .. n - 1 : p < first => TsAt(w, p) < lo
      /\ \A p \in 0 .. n - 1 : first <= p => TsAt(w, p) >= lo
  <2>1. first \in 0 .. n
    BY <1>4 DEF Found
  <2>2. \A p \in 0 .. first - 1 : ts[p] < lo
    BY <1>4 DEF Found
  <2>3. \A p \in first .. n - 1 : ts[p] >= lo
    BY <1>4 DEF Found
  <2> HIDE DEF first, ts, n
  <2>4. QED
    BY <1>1, <1>2, <2>1, <2>2, <2>3
<1> HIDE DEF first, ts
<1>6. ASSUME NEW p \in 0 .. n - 1
      PROVE  first <= p <=> lo <= TsAt(w, p)
  BY <1>1, <1>5
<1>7. ASSUME NEW p \in first .. n - 1
      PROVE  (\A j \in first .. p : TsAt(w, j) <= hi) <=> TsAt(w, p) <= hi
  <2>1. p \in 0 .. n - 1 /\ p \in first .. p
    BY <1>1, <1>5
  <2>2. ASSUME NEW j \in first .. p PROVE TsAt(w, j) <= TsAt(w, p) /\ TsAt(w, j) \in Int
    BY <1>1, <1>5, <2>1
  <2>3. QED
    BY <1>1, <2>1, <2>2
<1>8. \A p : p \in first .. n - 1 <=> p \in 0 .. n - 1 /\ first <= p
  BY <1>1, <1>5
<1>9. Slice(w, lo, hi) = {p \in first .. n - 1 : \A j \in first .. p : TsAt(w, j) <= hi}
  BY DEF Slice, first
<1>10. QED
  BY <1>6, <1>7, <1>8, <1>9 DEF Positions

-----------------------------------------------------------------------------
(***************************************************************************)
(* Quantities are summed; a sum is the number of units summed over.        *)
(***************************************************************************)
Units(q, S) == UNION {{i} \X (1 .. q[i]) : i \in S}

LEMMA UnitsFinite ==
  ASSUME NEW q, NEW S, IsFiniteSet(S), \A i \in S : q[i] \in Nat
  PROVE  IsFiniteSet(Units(q, S)) /\ Cardinality(Units(q, S)) \in Nat
<1> DEFINE T == {{i} \X (1 .. q[i]) : i \in S}
           g == [i \in S |-> {i} \X (1 .. q[i])]
<1>1. g \in Surjection(S, T)
  BY DEF Surjection
<1>2. IsFiniteSet(T)
  BY <1>1, FS_Surjection
<1>3. ASSUME NEW i \in S PROVE IsFiniteSet({i} \X (1 .. q[i]))
  <2>1. q[i] \in Int /\ 1 \in Int
    OBVIOUS
  <2>2. IsFiniteSet({i}) /\ IsFiniteSet(1 .. q[i])
    <3> HIDE DEF T, g
    <3>1. IsFiniteSet(1 .. q[i])
      BY ONLY <2>1, FS_Interval
    <3>2. QED
      BY <3>1, FS_Singleton
  <2>3. QED
    BY <2>2, FS_Product
<1>4. \A U \in T : IsFiniteSet(U)
  BY <1>3
<1>5. IsFiniteSet(UNION T)
  <2> HIDE DEF T
  <2>1. QED
    BY <1>2, <1>4, FS_UNION
<1>6. QED
  BY <1>5, FS_CardinalityType DEF Units

\* One of them less.
LEMMA UnitsWithout ==
  ASSUME NEW q, NEW S, IsFiniteSet(S), \A i \in S : q[i] \in Nat, NEW x \in S
  PROVE  Cardinality(Units(q, S)) = q[x] + Cardinality(Units(q, S \ {x}))
<1> DEFINE R == S \ {x}
           Added == {x} \X (1 .. q[x])
<1>1. Units(q, S) = Units(q, R) \cup Added
  BY DEF Units
<1>2. Units(q, R) \cap Added = {}
  BY DEF Units
<1>3. IsFiniteSet(Added) /\ Cardinality(Added) = q[x]
  <2> DEFINE n == q[x]
  <2>1. n \in Nat /\ 1 \in Int
    OBVIOUS
  <2> HIDE DEF n
  <2>2. IsFiniteSet(1 .. n) /\ Cardinality(1 .. n) = IF 1 > n THEN 0 ELSE n - 1 + 1
    BY <2>1, FS_Interval
  <2>3. Cardinality(1 .. n) = n
    BY <2>1, <2>2
  <2>4. IsFiniteSet({x}) /\ Cardinality({x}) = 1
    BY FS_Singleton
  <2>5. /\ IsFiniteSet({x} \X (1 .. n))
        /\ Cardinality({x} \X (1 .. n)) = Cardinality({x}) * Cardinality(1 .. n)
    BY ONLY <2>2, <2>4, FS_Product
  <2>6. Cardinality({x}) * Cardinality(1 .. n) = n
    BY ONLY <2>1, <2>3, <2>4
  <2>7. QED
    BY <2>5, <2>6 DEF n
<1>4. IsFiniteSet(Units(q, R)) /\ Cardinality(Units(q, R)) \in Nat
  <2>1. IsFiniteSet(R) /\ \A i \in R : q[i] \in Nat
    BY FS_RemoveElement
  <2> HIDE DEF R
  <2>2. QED
    BY <2>1, UnitsFinite
<1> HIDE DEF R, Added
<1>5. Cardinality(Units(q, R) \cup Added) =
        Cardinality(Units(q, R)) + Cardinality(Added) - Cardinality(Units(q, R) \cap Added)
  BY <1>3, <1>4, FS_Union
<1>6. Cardinality({}) = 0
  BY FS_EmptySet
<1>7. q[x] \in Nat
  OBVIOUS
<1>8. Cardinality(Units(q, S)) = q[x] + Cardinality(Units(q, R))
  <2>1. Cardinality(Units(q, R) \cap Added) = 0
    BY <1>2, <1>6
  <2>2. Cardinality(Units(q, S)) = Cardinality(Units(q, R)) + q[x] - 0
    BY <1>1, <1>3, <1>5, <2>1
  <2>3. QED
    BY <1>4, <1>7, <2>2
<1>9. QED
  BY <1>8 DEF R

One(s) == CHOOSE x \in s : TRUE

\* The recursion a sum of the quantities q over the parts of S solves.
Adds(f, q, S) ==
  f = [s \in SUBSET S |-> IF s = {} THEN 0 ELSE q[One(s)] + f[s \ {One(s)}]]

\* The number of units solves it...
LEMMA CountAdds ==
  ASSUME NEW q, NEW S, IsFiniteSet(S), \A i \in S : q[i] \in Nat
  PROVE  Adds([s \in SUBSET S |-> Cardinality(Units(q, s))], q, S)
<1> DEFINE count == [s \in SUBSET S |-> Cardinality(Units(q, s))]
           Body(f, s) == IF s = {} THEN 0 ELSE q[One(s)] + f[s \ {One(s)}]
<1>1. \A s \in SUBSET S : IsFiniteSet(s) /\ (s # {} => One(s) \in s)
  BY FS_Subset DEF One
<1>2. ASSUME NEW s \in SUBSET S PROVE Cardinality(Units(q, s)) = Body(count, s)
  <2>1. CASE s = {}
    <3>1. Units(q, s) = {}
      BY <2>1 DEF Units
    <3>2. QED
      BY <2>1, <3>1, FS_EmptySet
  <2>2. CASE s # {}
    <3> DEFINE x == One(s)
    <3>1. x \in s /\ IsFiniteSet(s) /\ \A i \in s : q[i] \in Nat
      BY <1>1, <2>2
    <3>2. Cardinality(Units(q, s)) = q[x] + Cardinality(Units(q, s \ {x}))
      <4> HIDE DEF x
      <4>1. QED
        BY <3>1, UnitsWithout
    <3>3. count[s \ {x}] = Cardinality(Units(q, s \ {x}))
      OBVIOUS
    <3>4. QED
      BY <2>2, <3>2, <3>3
  <2>3. QED
    BY <2>1, <2>2
<1>3. count = [s \in SUBSET S |-> Body(count, s)]
  <2> HIDE DEF Body
  <2>1. QED
    BY <1>2
<1>4. QED
  BY <1>3 DEF Adds

\* ...and every solution is that number: of the sets it is wrong for, take one
\* with the fewest members.
LEMMA OnlyCountAdds ==
  ASSUME NEW q, NEW S, IsFiniteSet(S), \A i \in S : q[i] \in Nat, NEW f, Adds(f, q, S)
  PROVE  f[S] = Cardinality(Units(q, S))
<1>1. \A s \in SUBSET S : IsFiniteSet(s) /\ (s # {} => One(s) \in s)
  BY FS_Subset DEF One
<1>2. \A s \in SUBSET S : f[s] = IF s = {} THEN 0 ELSE q[One(s)] + f[s \ {One(s)}]
  BY DEF Adds
<1>3. ASSUME NEW s \in SUBSET S, f[s] # Cardinality(Units(q, s)) PROVE FALSE
  <2> DEFINE Wrong(r) == f[r] # Cardinality(Units(q, r))
             Bad == {k \in Nat : \E r \in SUBSET S : k = Cardinality(r) /\ Wrong(r)}
  <2>1. Bad \in SUBSET Nat /\ Cardinality(s) \in Bad
    <3>1. Wrong(s) /\ Cardinality(s) \in Nat
      BY <1>1, <1>3, FS_CardinalityType
    <3> HIDE DEF Wrong
    <3>2. QED
      BY <3>1
  <2>2. PICK k \in Bad : \A j \in Bad : k <= j
    <3> HIDE DEF Bad
    <3>1. QED
      BY <2>1, LeastNumber
  <2>3. PICK r \in SUBSET S : k = Cardinality(r) /\ Wrong(r)
    OBVIOUS
  <2>4. CASE r = {}
    <3>1. f[r] = 0 /\ Units(q, r) = {}
      BY <1>2, <2>4 DEF Units
    <3>2. QED
      BY <2>3, <3>1, FS_EmptySet
  <2>5. CASE r # {}
    <3> DEFINE x == One(r)
               rest == r \ {x}
    <3>1. x \in r /\ IsFiniteSet(r) /\ \A i \in r : q[i] \in Nat
      BY <1>1, <2>5
    <3>2. f[r] = q[x] + f[rest]
      BY <1>2, <2>5
    <3> HIDE DEF x
    <3>3. Cardinality(Units(q, r)) = q[x] + Cardinality(Units(q, rest))
      BY <3>1, UnitsWithout
    <3>4. /\ Cardinality(rest) = Cardinality(r) - 1 /\ Cardinality(r) \in Nat
          /\ IsFiniteSet(rest) /\ Cardinality(rest) \in Nat
      BY <3>1, FS_RemoveElement, FS_CardinalityType
    <3>5. rest \in SUBSET S
      OBVIOUS
    <3> HIDE DEF rest
    <3>6. ~Wrong(rest)
      <4>1. Cardinality(rest) < k
        BY <2>3, <3>4
      <4>2. Cardinality(rest) \notin Bad
        <5> HIDE DEF Bad
        <5>1. k \in Nat
          BY <2>1
        <5>2. QED
          BY <2>2, <3>4, <4>1, <5>1
      <4> HIDE DEF Wrong
      <4>3. QED
        BY <3>4, <3>5, <4>2
    <3>7. QED
      BY <2>3, <3>2, <3>3, <3>6
  <2>6. QED
    BY <2>4, <2>5
<1>4. QED
  BY <1>3

\* A sum is the number of units.
LEMMA SumIsUnits ==
  ASSUME NEW w, NEW S, IsFiniteSet(S), \A i \in S : ItemAt(w, i).qty \in Nat
  PROVE  SumOf(S, LAMBDA i : ItemAt(w, i).qty)
           = Cardinality(Units([i \in S |-> ItemAt(w, i).qty], S))
<1> DEFINE q == [i \in S |-> ItemAt(w, i).qty]
           Solves(f) == f = [s \in SUBSET S |->
                               IF s = {} THEN 0 ELSE ItemAt(w, One(s)).qty + f[s \ {One(s)}]]
           iter == CHOOSE f : Solves(f)
<1>1. SumOf(S, LAMBDA i : ItemAt(w, i).qty) = iter[S]
  BY DEF SumOf, MapThenSumSet, MapThenFoldSet, One
<1>2. \A i \in S : q[i] = ItemAt(w, i).qty /\ q[i] \in Nat
  OBVIOUS
<1>3. \A s \in SUBSET S : s # {} => One(s) \in S
  BY DEF One
<1> HIDE DEF q
<1>4. \A f : Solves(f) <=> Adds(f, q, S)
  BY <1>2, <1>3 DEF Adds
<1>5. \E f : Solves(f)
  BY <1>2, <1>4, CountAdds
<1>6. Solves(iter)
  <2> HIDE DEF Solves
  <2>1. QED
    BY <1>5
<1>7. QED
  <2> HIDE DEF Solves, iter
  <2>1. Adds(iter, q, S)
    BY <1>4, <1>6
  <2>2. QED
    BY <1>1, <1>2, <2>1, OnlyCountAdds DEF q

Total(w, S) == SumOf(S, LAMBDA i : ItemAt(w, i).qty)

\* A quantity was traded exactly if there were prints.
LEMMA QuantityOfPrints ==
  ASSUME NEW w, NEW S, IsFiniteSet(S), \A i \in S : ItemAt(w, i).qty \in Nat \ {0}
  PROVE  Total(w, S) \in Nat /\ (Total(w, S) > 0 <=> S # {})
<1> DEFINE q == [i \in S |-> ItemAt(w, i).qty]
<1>1. Total(w, S) = Cardinality(Units(q, S))
  BY SumIsUnits DEF Total
<1>2. \A i \in S : q[i] \in Nat \ {0}
  OBVIOUS
<1> HIDE DEF q
<1>3. IsFiniteSet(Units(q, S)) /\ Cardinality(Units(q, S)) \in Nat
  BY <1>2, UnitsFinite
<1>4. Units(q, S) = {} <=> S = {}
  <2>1. ASSUME NEW i \in S PROVE <<i, 1>> \in Units(q, S)
    <3>1. 1 \in 1 .. q[i]
      BY <1>2
    <3>2. QED
      BY <3>1 DEF Units
  <2>2. S = {} => Units(q, S) = {}
    BY DEF Units
  <2>3. QED
    BY <2>1, <2>2
<1>5. Cardinality(Units(q, S)) = 0 <=> S = {}
  BY <1>3, <1>4, FS_EmptySet
<1>6. QED
  BY <1>1, <1>3, <1>5

-----------------------------------------------------------------------------
(***************************************************************************)
(* Extremes, and how far back the history reaches.                         *)
(***************************************************************************)
LEMMA BoundedExtremes ==
  ASSUME NEW S \in SUBSET Nat, S # {}, NEW M \in Nat, \A x \in S : x <= M
  PROVE  /\ Min(S) \in S /\ \A x \in S : Min(S) <= x
         /\ Max(S) \in S /\ \A x \in S : x <= Max(S)
<1>1. PICK low \in S : \A x \in S : low <= x
  BY LeastNumber
<1>2. Min(S) \in S /\ \A x \in S : Min(S) <= x
  BY <1>1 DEF Min
<1> DEFINE T == {M - x : x \in S}
<1>3. T \in SUBSET Nat /\ T # {}
  OBVIOUS
<1>4. PICK d \in T : \A y \in T : d <= y
  <2> HIDE DEF T
  <2>1. QED
    BY <1>3, LeastNumber
<1>5. PICK high \in S : d = M - high
  OBVIOUS
<1>6. ASSUME NEW x \in S PROVE high >= x
  <2>1. M - x \in T
    OBVIOUS
  <2>2. d <= M - x
    BY <1>4, <2>1
  <2>3. x \in Nat /\ high \in Nat
    OBVIOUS
  <2>4. QED
    BY <1>5, <2>2, <2>3
<1>7. Max(S) \in S /\ \A x \in S : Max(S) >= x
  BY <1>6 DEF Max
<1>8. QED
  BY <1>2, <1>7

\* A finite set of integers that is not empty has a least element.
LEMMA FiniteLeast ==
  ASSUME NEW S \in SUBSET Int, IsFiniteSet(S), S # {}
  PROVE  \E m \in S : \A x \in S : m <= x
<1> DEFINE Below(x) == {y \in S : y < x}
           T == {Cardinality(Below(x)) : x \in S}
<1>1. \A x \in S : IsFiniteSet(Below(x)) /\ Cardinality(Below(x)) \in Nat
  <2>1. ASSUME NEW x \in S PROVE Below(x) \in SUBSET S
    OBVIOUS
  <2> HIDE DEF Below
  <2>2. QED
    BY <2>1, FS_Subset, FS_CardinalityType
<1>2. T \in SUBSET Nat /\ T # {}
  <2> HIDE DEF Below
  <2>1. QED
    BY <1>1
<1>3. PICK k \in T : \A j \in T : k <= j
  <2> HIDE DEF T
  <2>1. QED
    BY <1>2, LeastNumber
<1>4. PICK m \in S : k = Cardinality(Below(m))
  OBVIOUS
<1>5. ASSUME NEW x \in S, x < m PROVE FALSE
  <2>1. Below(x) \cup {x} \in SUBSET Below(m) /\ x \notin Below(x)
    <3>1. x \in Int /\ m \in Int
      OBVIOUS
    <3>2. ASSUME NEW y \in Below(x) PROVE y \in Below(m)
      <4>1. y \in S /\ y \in Int /\ y < x
        OBVIOUS
      <4>2. y < m
        BY <1>5, <3>1, <4>1
      <4>3. QED
        BY <4>1, <4>2
    <3>3. x \in Below(m)
      BY <1>5
    <3>4. ~(x < x)
      BY <3>1
    <3>5. x \notin Below(x)
      BY <3>4
    <3> HIDE DEF Below
    <3>6. QED
      BY <3>2, <3>3, <3>5
  <2> HIDE DEF Below
  <2>2. Cardinality(Below(x) \cup {x}) = Cardinality(Below(x)) + 1
    BY <1>1, <2>1, FS_AddElement
  <2>3. Cardinality(Below(x) \cup {x}) <= Cardinality(Below(m))
    BY <1>1, <2>1, FS_Subset
  <2>4. Cardinality(Below(x)) \in T
    OBVIOUS
  <2>5. k <= Cardinality(Below(x))
    <3> HIDE DEF T
    <3>1. QED
      BY <1>3, <2>4
  <2>6. QED
    BY <1>1, <1>4, <2>2, <2>3, <2>5
<1>6. QED
  BY <1>5

LEMMA TwoExtremes ==
  ASSUME NEW a \in Int, NEW b \in Int
  PROVE  /\ MinOf(a, b) = IF a <= b THEN a ELSE b
         /\ MaxOf(a, b) = IF a >= b THEN a ELSE b
<1>1. ASSUME NEW m \in {a, b}, \A y \in {a, b} : m <= y PROVE MinOf(a, b) = m
  <2>1. Min({a, b}) \in {a, b} /\ \A y \in {a, b} : Min({a, b}) <= y
    BY <1>1 DEF Min
  <2>2. QED
    BY <1>1, <2>1 DEF MinOf
<1>2. ASSUME NEW m \in {a, b}, \A y \in {a, b} : m >= y PROVE MaxOf(a, b) = m
  <2>1. Max({a, b}) \in {a, b} /\ \A y \in {a, b} : Max({a, b}) >= y
    BY <1>2 DEF Max
  <2>2. QED
    BY <1>2, <2>1 DEF MaxOf
<1>3. QED
  BY <1>1, <1>2

\* required_history covers the windows of each detector.
LEMMA HistoryCovers ==
  /\ History \in Int
  /\ 2 * SpoofingConfig.opposite_window_ns + 3 * SpoofingConfig.max_lifetime_ns
       + 2 * ScanInterval <= History
  /\ 2 * LayeringConfig.opposite_window_ns + LayeringConfig.cancel_span_ns
       + LayeringConfig.placement_window_ns + 2 * ScanInterval <= History
  /\ WashConfig.window_ns + 2 * ScanInterval <= History
  /\ MomentumConfig.revert_ns + MomentumConfig.burst_ns + MomentumConfig.reversal_ns
       + 2 * ScanInterval <= History
<1> DEFINE a == 2 * SpoofingConfig.opposite_window_ns + 3 * SpoofingConfig.max_lifetime_ns
           b == 2 * LayeringConfig.opposite_window_ns + LayeringConfig.cancel_span_ns
                  + LayeringConfig.placement_window_ns
           c == WashConfig.window_ns
           d == MomentumConfig.revert_ns + MomentumConfig.burst_ns + MomentumConfig.reversal_ns
           m == Max({a, b, c, d})
<1>1. a \in Int /\ b \in Int /\ c \in Int /\ d \in Int /\ ScanInterval \in Int
  BY DurationsAssumption, ScanIntervalAssumption
<1>2. History = m + 2 * ScanInterval
  BY DEF History
<1> HIDE DEF a, b, c, d
<1>3. \E x \in {a, b, c, d} : \A y \in {a, b, c, d} : x >= y
  BY <1>1
<1>4. m \in {a, b, c, d} /\ \A y \in {a, b, c, d} : m >= y
  BY <1>3 DEF Max
<1> HIDE DEF m
<1>5. m \in Int /\ m >= a /\ m >= b /\ m >= c /\ m >= d
  BY <1>1, <1>4
<1>6. /\ History \in Int /\ a + 2 * ScanInterval <= History /\ b + 2 * ScanInterval <= History
      /\ c + 2 * ScanInterval <= History /\ d + 2 * ScanInterval <= History
  BY <1>1, <1>2, <1>5
<1>7. QED
  BY <1>6 DEF a, b, c, d

-----------------------------------------------------------------------------
(***************************************************************************)
(* A window as a detector sees it at a scan: entries in the order of time, *)
(* none after the scan, and slices that are what their bounds say.         *)
(***************************************************************************)
Legible(w, to) ==
  /\ w.size \in Nat
  /\ \A p \in Positions(w) : TsAt(w, p) \in Nat \ {0} /\ TsAt(w, p) <= to
  /\ \A p, q \in Positions(w) : p <= q => TsAt(w, p) <= TsAt(w, q)
  /\ \A lo, hi \in Int :
       Slice(w, lo, hi) = {p \in Positions(w) : lo <= TsAt(w, p) /\ TsAt(w, p) <= hi}

LEMMA WindowIsLegible ==
  ASSUME NEW w, NEW pushed, PushedOK(pushed), NEW to, HoldsAsOf(w, pushed, to),
         \A i \in DOMAIN pushed : pushed[i].ts \in Nat \ {0} /\ pushed[i].ts <= to
  PROVE  Legible(w, to)
<1> DEFINE at(p) == EventAt(w, pushed, p)
<1>1. /\ w.size \in Nat
      /\ \A p \in Positions(w) : at(p) \in DOMAIN pushed /\ TsAt(w, p) = pushed[at(p)].ts
      /\ \A p, q \in Positions(w) : p <= q => at(p) <= at(q)
  BY PositionsAreEvents DEF Carried
<1> HIDE DEF at
<1>2. \A p \in Positions(w) : TsAt(w, p) \in Nat \ {0} /\ TsAt(w, p) <= to
  BY <1>1
<1>3. \A p, q \in Positions(w) : p <= q => TsAt(w, p) <= TsAt(w, q)
  BY <1>1 DEF PushedOK
<1>4. \A lo, hi \in Int :
        Slice(w, lo, hi) = {p \in Positions(w) : lo <= TsAt(w, p) /\ TsAt(w, p) <= hi}
  BY SliceIs
<1>5. QED
  BY <1>1, <1>2, <1>3, <1>4 DEF Legible

\* The stamps of some of its entries.
LEMMA StampsOf ==
  ASSUME NEW w, NEW to \in Int, Legible(w, to), NEW S \in SUBSET Positions(w)
  PROVE  LET stamps == {TsAt(w, p) : p \in S} IN
         /\ IsFiniteSet(S) /\ S \in SUBSET Nat /\ \A p \in S : p <= w.size
         /\ S = {} => Earliest(stamps) = 0 /\ Latest(stamps) = 0
         /\ S # {} => /\ \E p \in S : Earliest(stamps) = TsAt(w, p)
                      /\ \A p \in S : Earliest(stamps) <= TsAt(w, p)
                      /\ \E p \in S : Latest(stamps) = TsAt(w, p)
                      /\ \A p \in S : TsAt(w, p) <= Latest(stamps)
<1> DEFINE stamps == {TsAt(w, p) : p \in S}
<1>1. w.size \in Nat /\ S \in SUBSET (0 .. w.size - 1)
  BY DEF Legible, Positions
<1>2. IsFiniteSet(S)
  <2>1. 0 \in Int /\ w.size - 1 \in Int
    BY <1>1
  <2>2. IsFiniteSet(0 .. w.size - 1)
    BY ONLY <2>1, FS_Interval
  <2>3. QED
    BY <1>1, <2>2, FS_Subset
<1>3. \A p \in S : TsAt(w, p) \in Nat \ {0} /\ TsAt(w, p) <= to
  BY DEF Legible
<1>4. CASE S = {}
  <2>1. stamps = {}
    BY <1>4
  <2> HIDE DEF stamps
  <2>2. Earliest(stamps) = 0
    BY <2>1 DEF Earliest
  <2>3. Latest(stamps) = 0
    <3>1. stamps \cup {0} = {0} /\ {0} \in SUBSET Nat /\ {0} # {} /\ \A x \in {0} : x <= 0
      BY <2>1
    <3>2. Max({0}) \in {0}
      BY <3>1, BoundedExtremes
    <3>3. QED
      BY <3>1, <3>2 DEF Latest
  <2>4. QED
    BY <1>1, <1>2, <1>4, <2>2, <2>3 DEF stamps
<1>5. CASE S # {}
  <2>1. /\ stamps \in SUBSET Nat /\ stamps # {} /\ 0 \notin stamps /\ to \in Nat
        /\ \A x \in stamps : x <= to
    BY <1>3, <1>5
  <2>2. \A x \in stamps : \E p \in S : x = TsAt(w, p)
    OBVIOUS
  <2>3. \A p \in S : TsAt(w, p) \in stamps
    OBVIOUS
  <2> HIDE DEF stamps
  <2>4. Min(stamps) \in stamps /\ \A x \in stamps : Min(stamps) <= x
    BY <2>1, BoundedExtremes
  <2>5. Earliest(stamps) = Min(stamps)
    <3>1. ~(stamps \subseteq {0}) /\ stamps \ {0} = stamps
      BY <2>1
    <3>2. QED
      BY <3>1 DEF Earliest
  <2> DEFINE all == stamps \cup {0}
  <2>6. all \in SUBSET Nat /\ all # {} /\ \A x \in all : x <= to
    BY <2>1
  <2>7. Max(all) \in all /\ \A x \in all : x <= Max(all)
    <3> HIDE DEF all
    <3>1. QED
      BY <2>1, <2>6, BoundedExtremes
  <2>8. Latest(stamps) = Max(all)
    BY DEF Latest
  <2>9. Max(all) \in stamps /\ \A x \in stamps : x <= Max(all)
    <3>1. PICK x \in stamps : x \in Nat \ {0} /\ x \in all
      BY <2>1
    <3>2. x <= Max(all)
      BY <2>7, <3>1
    <3>3. Max(all) # 0
      BY <2>6, <2>7, <3>1, <3>2
    <3>4. QED
      BY <2>7, <3>3
  <2> HIDE DEF all
  <2>10. (\E p \in S : Earliest(stamps) = TsAt(w, p))
         /\ \A p \in S : Earliest(stamps) <= TsAt(w, p)
    BY <2>2, <2>3, <2>4, <2>5
  <2>11. (\E p \in S : Latest(stamps) = TsAt(w, p))
         /\ \A p \in S : TsAt(w, p) <= Latest(stamps)
    BY <2>2, <2>3, <2>8, <2>9
  <2>12. S \in SUBSET Nat /\ \A p \in S : p <= w.size
    BY <1>1
  <2>13. QED
    BY <1>2, <1>5, <2>10, <2>11, <2>12 DEF stamps
<1>6. QED
  BY <1>4, <1>5

\* Every print in the window is of some quantity.
Paid(w) == \A p \in Positions(w) : ItemAt(w, p).qty \in Nat \ {0}

Hits(w, pid, want, lo, hi, role) ==
  {p \in Positions(w) : /\ lo <= TsAt(w, p) /\ TsAt(w, p) <= hi
                        /\ SideOf(ItemAt(w, p), pid) = want
                        /\ RoleMatches(ItemAt(w, p), pid, role)}

\* directional_qty, without the search, the sum and the loop.
LEMMA DirectionalQtyIs ==
  ASSUME NEW w, NEW to \in Int, Legible(w, to), Paid(w), NEW pid, NEW want,
         NEW lo \in Int, NEW hi \in Int, NEW role
  PROVE  LET d    == DirectionalQty(w, pid, want, lo, hi, role)
             hits == Hits(w, pid, want, lo, hi, role)
         IN  /\ d.qty \in Nat /\ (d.qty > 0 <=> hits # {})
             /\ hits = {} => d.first = 0 /\ d.last = 0
             /\ hits # {} => /\ d.first \in Nat \ {0} /\ d.last \in Nat \ {0}
                             /\ lo <= d.first /\ d.first <= d.last /\ d.last <= hi
                             /\ d.last <= to
             /\ d.first \in Nat /\ d.last \in Nat /\ (to >= 0 => d.last <= to)
<1> DEFINE d == DirectionalQty(w, pid, want, lo, hi, role)
           hits == Hits(w, pid, want, lo, hi, role)
           found == {i \in Slice(w, lo, hi) : /\ SideOf(ItemAt(w, i), pid) = want
                                              /\ RoleMatches(ItemAt(w, i), pid, role)}
           stamps == {TsAt(w, p) : p \in hits}
<1>1. found = hits
  BY DEF Legible, Hits
<1>2. d.qty = Total(w, hits) /\ d.first = Earliest(stamps) /\ d.last = Latest(stamps)
  BY <1>1 DEF DirectionalQty, Total
<1>3. hits \in SUBSET Positions(w)
  BY DEF Hits
<1>4. /\ IsFiniteSet(hits)
      /\ hits = {} => Earliest(stamps) = 0 /\ Latest(stamps) = 0
      /\ hits # {} => /\ \E p \in hits : Earliest(stamps) = TsAt(w, p)
                      /\ \A p \in hits : Earliest(stamps) <= TsAt(w, p)
                      /\ \E p \in hits : Latest(stamps) = TsAt(w, p)
                      /\ \A p \in hits : TsAt(w, p) <= Latest(stamps)
  <2> HIDE DEF hits
  <2>1. QED
    BY <1>3, StampsOf
<1>5. Total(w, hits) \in Nat /\ (Total(w, hits) > 0 <=> hits # {})
  <2>1. \A i \in hits : ItemAt(w, i).qty \in Nat \ {0}
    BY <1>3 DEF Paid
  <2> HIDE DEF hits
  <2>2. QED
    BY <1>4, <2>1, QuantityOfPrints
<1>6. \A p \in hits : /\ TsAt(w, p) \in Nat \ {0} /\ TsAt(w, p) <= to
                      /\ lo <= TsAt(w, p) /\ TsAt(w, p) <= hi
  BY DEF Hits, Legible
<1> HIDE DEF d, hits, stamps
<1>7. ASSUME hits # {}
      PROVE  /\ d.first \in Nat \ {0} /\ d.last \in Nat \ {0}
             /\ lo <= d.first /\ d.first <= d.last /\ d.last <= hi /\ d.last <= to
  <2>1. PICK p \in hits : d.first = TsAt(w, p)
    BY <1>2, <1>4, <1>7
  <2>2. PICK q \in hits : d.last = TsAt(w, q)
    BY <1>2, <1>4, <1>7
  <2>3. d.first <= TsAt(w, q)
    BY <1>2, <1>4, <1>7
  <2>4. QED
    BY <1>6, <2>1, <2>2, <2>3
<1>8. d.first \in Nat /\ d.last \in Nat /\ (to >= 0 => d.last <= to)
  BY <1>2, <1>4, <1>7
<1>9. QED
  BY <1>2, <1>4, <1>5, <1>7, <1>8 DEF d, hits, stamps

\* What EvidenceIsRecent asks of an alert raised by a scan.
EvidenceOK(a, to) ==
  /\ a.detect_ts = to
  /\ a.start_ts \in Int /\ a.end_ts \in Int
  /\ a.start_ts <= a.end_ts /\ a.end_ts <= to
  /\ a.detector # "layering" => to - History <= a.start_ts

\* The orders withdrawn had been entered before.
Entered(w) ==
  \A p \in Positions(w) : /\ ItemAt(w, p).entry_ts \in Int
                          /\ ItemAt(w, p).entry_ts <= TsAt(w, p)

LEMMA SpoofingEvidence ==
  ASSUME NEW c, NEW to \in Int, Legible(c.trades, to), Paid(c.trades),
         Legible(c.cancels, to), Entered(c.cancels),
         NEW a \in SpoofingScan(c, to - ScanInterval, to)
  PROVE  EvidenceOK(a, to)
<1> DEFINE w == SpoofingConfig.opposite_window_ns
           L == SpoofingConfig.max_lifetime_ns
           from == to - ScanInterval
<1>0. w \in Int /\ L \in Int /\ ScanInterval \in Nat \ {0}
  BY DurationsAssumption, ScanIntervalAssumption
<1>1. PICK i \in SpoofingAnchors(c, from, to) :
        LET o   == ItemAt(c.cancels, i)
            cts == TsAt(c.cancels, i)
        IN  /\ SpoofingGates(o, cts) /\ SpoofingBenefit(c, o, cts).qty > 0
            /\ a = SpoofingAlert(c, o, cts, to)
  BY DEF SpoofingScan
<1> DEFINE o == ItemAt(c.cancels, i)
           cts == TsAt(c.cancels, i)
           b == SpoofingBenefit(c, o, cts)
<1>2. i \in Positions(c.cancels) /\ from - w + 1 <= cts /\ cts <= to - w
  <2>1. from - w + 1 \in Int /\ to - w \in Int
    BY <1>0
  <2>2. QED
    BY <2>1 DEF SpoofingAnchors, Legible
<1>3. cts \in Nat \ {0} /\ cts <= to /\ o.entry_ts \in Int /\ o.entry_ts <= cts
  BY <1>2 DEF Legible, Entered
<1>4. cts - o.entry_ts <= 3 * L
  BY <1>1 DEF SpoofingGates
<1>5. b.qty > 0
  BY <1>1
<1> HIDE DEF o, cts
<1>6. /\ b.first \in Nat \ {0} /\ b.last \in Nat \ {0} /\ cts - w <= b.first
      /\ b.first <= b.last /\ b.last <= cts + w /\ b.last <= to
  <2>1. cts - w \in Int /\ cts + w \in Int
    BY <1>0, <1>3
  <2> HIDE DEF w
  <2>2. QED
    BY <1>5, <2>1, DirectionalQtyIs DEF SpoofingBenefit, w
<1>7. /\ a.detector = "spoofing" /\ a.detect_ts = to
      /\ a.start_ts = MinOf(o.entry_ts, b.first) /\ a.end_ts = MaxOf(cts, b.last)
  BY <1>1, <1>6 DEF SpoofingAlert, o, cts
<1> HIDE DEF b, w, L
<1>8. /\ a.start_ts = IF o.entry_ts <= b.first THEN o.entry_ts ELSE b.first
      /\ a.end_ts = IF cts >= b.last THEN cts ELSE b.last
  BY <1>3, <1>6, <1>7, TwoExtremes
<1>9. 2 * w + 3 * L + 2 * ScanInterval <= History /\ History \in Int
  BY HistoryCovers DEF w, L
<1>10. a.start_ts \in Int /\ a.end_ts \in Int /\ a.start_ts <= a.end_ts /\ a.end_ts <= to
  BY <1>3, <1>6, <1>8
<1>11. to - History <= a.start_ts
  BY <1>0, <1>2, <1>3, <1>4, <1>6, <1>8, <1>9
<1>12. QED
  BY <1>7, <1>10, <1>11 DEF EvidenceOK

LEMMA WashEvidence ==
  ASSUME NEW c, NEW to \in Int, Legible(c.trades, to), Paid(c.trades),
         NEW from, NEW a \in WashScan(c, from, to)
  PROVE  EvidenceOK(a, to)
<1> DEFINE t == c.trades
           prints == WashPrints(t, from, to)
           w == WashConfig.window_ns
<1>0. w \in Int /\ ScanInterval \in Nat \ {0} /\ w + 2 * ScanInterval <= History
      /\ History \in Int
  BY DurationsAssumption, ScanIntervalAssumption, HistoryCovers
<1>1. prints = {p \in Positions(t) : to - w <= TsAt(t, p) /\ TsAt(t, p) <= to}
  <2>1. to - w \in Int
    BY <1>0
  <2>2. QED
    BY <2>1 DEF WashPrints, Legible
<1>2. ASSUME NEW S \in SUBSET prints, S # {}, NEW pid, NEW other,
             a = WashAlert(t, S, pid, other, to)
      PROVE  EvidenceOK(a, to)
  <2> DEFINE stamps == {TsAt(t, p) : p \in S}
  <2>1. S \in SUBSET Positions(t)
    BY <1>1
  <2>2. /\ \E p \in S : Earliest(stamps) = TsAt(t, p)
        /\ \A p \in S : Earliest(stamps) <= TsAt(t, p)
        /\ \E p \in S : Latest(stamps) = TsAt(t, p)
        /\ \A p \in S : TsAt(t, p) <= Latest(stamps)
    BY <1>2, <2>1, StampsOf
  <2>3. /\ a.detector = "wash_trading" /\ a.detect_ts = to
        /\ a.start_ts = Earliest(stamps) /\ a.end_ts = Latest(stamps)
    BY <1>2 DEF WashAlert
  <2> HIDE DEF stamps
  <2>4. PICK p \in S : a.start_ts = TsAt(t, p)
    BY <2>2, <2>3
  <2>5. PICK q \in S : a.end_ts = TsAt(t, q)
    BY <2>2, <2>3
  <2>6. TsAt(t, p) <= TsAt(t, q)
    BY <2>2, <2>3, <2>4
  <2>7. /\ TsAt(t, p) \in Nat /\ to - w <= TsAt(t, p)
        /\ TsAt(t, q) \in Nat /\ TsAt(t, q) <= to
    BY <1>1, <2>1 DEF Legible
  <2>8. to - History <= TsAt(t, p)
    BY <1>0, <2>7
  <2>9. QED
    BY <2>3, <2>4, <2>5, <2>6, <2>7, <2>8 DEF EvidenceOK
\* There is no volume where there are no prints.
<1>3. ASSUME NEW S \in SUBSET prints PROVE Volume(t, S) > 0 => S # {}
  <2>1. S \in SUBSET Positions(t)
    BY <1>1
  <2>2. IsFiniteSet(S) /\ \A p \in S : ItemAt(t, p).qty \in Nat \ {0}
    BY <2>1, StampsOf DEF Paid
  <2>3. Volume(t, S) = Total(t, S)
    BY DEF Volume, Total
  <2>4. QED
    BY <2>2, <2>3, QuantityOfPrints
<1> HIDE DEF prints, w
<1>4. a \in SelfAlerts(t, prints, to) \/ a \in PairAlerts(t, prints, to)
  BY DEF WashScan, prints
<1>5. CASE a \in SelfAlerts(t, prints, to)
  <2>1. PICK pid : /\ Volume(t, SelfPrints(t, prints, pid)) > 0
                   /\ a = WashAlert(t, PidPrints(t, prints, pid), pid, pid, to)
    BY <1>5 DEF SelfAlerts
  <2>2. SelfPrints(t, prints, pid) \in SUBSET prints
    BY DEF SelfPrints, PairPrints
  <2>3. SelfPrints(t, prints, pid) # {}
    BY <1>3, <2>1, <2>2
  <2>4. SelfPrints(t, prints, pid) \subseteq PidPrints(t, prints, pid)
    BY DEF SelfPrints, PairPrints, PidPrints
  <2>5. PidPrints(t, prints, pid) \in SUBSET prints
    BY DEF PidPrints
  <2>6. QED
    BY <1>2, <2>1, <2>3, <2>4, <2>5
<1>6. CASE a \in PairAlerts(t, prints, to)
  <2> DEFINE pair(k) == PairPrints(t, prints, k[1], k[2])
  <2>1. PICK k : /\ BothWays(t, pair(k), k[1])
                 /\ a = WashAlert(t, pair(k), k[1], k[2], to)
    BY <1>6 DEF PairAlerts
  <2>2. pair(k) \in SUBSET prints
    BY DEF PairPrints
  <2> DEFINE bought == {i \in pair(k) : Buyer(ItemAt(t, i)) = k[1]}
  <2>3. bought \in SUBSET prints /\ bought \subseteq pair(k) /\ Volume(t, bought) > 0
    BY <2>1, <2>2 DEF BothWays
  <2> HIDE DEF bought, pair
  <2>4. pair(k) # {}
    BY <1>3, <2>3
  <2>5. QED
    BY <1>2, <2>1, <2>2, <2>4
<1>7. QED
  BY <1>4, <1>5, <1>6

\* A run is made of withdrawals up to the time the scan judges.
LEMMA RunsAreGathered ==
  ASSUME NEW c, NEW to \in Int, Legible(c.cancels, to), NEW from \in Int, NEW pid, NEW side
  PROVE  LET run == WidestRun(c, LayeringGroup(c, pid, side, from, to), from, to) IN
         /\ run \in SUBSET Positions(c.cancels)
         /\ \A p \in run : TsAt(c.cancels, p) <= to - LayeringConfig.opposite_window_ns
<1> DEFINE w == LayeringConfig.opposite_window_ns
           group == LayeringGroup(c, pid, side, from, to)
           run == WidestRun(c, group, from, to)
<1>1. to - w \in Int /\ from - w - LayeringConfig.cancel_span_ns \in Int
  BY DurationsAssumption
<1>2. \A p \in group : p \in Positions(c.cancels) /\ TsAt(c.cancels, p) <= to - w
  BY <1>1 DEF LayeringGroup, Gathered, Legible
<1> HIDE DEF group
<1>3. run \subseteq group
  BY DEF WidestRun, RunEndingAt
<1>4. QED
  BY <1>2, <1>3 DEF group

LEMMA LayeringEvidence ==
  ASSUME NEW c, NEW to \in Int, Legible(c.trades, to), Paid(c.trades),
         Legible(c.cancels, to), Entered(c.cancels),
         NEW a \in LayeringScan(c, to - ScanInterval, to)
  PROVE  EvidenceOK(a, to)
<1> DEFINE w == LayeringConfig.opposite_window_ns
           from == to - ScanInterval
           Run(pid, side) == WidestRun(c, LayeringGroup(c, pid, side, from, to), from, to)
           ts(p) == TsAt(c.cancels, p)
<1>0. w \in Int /\ ScanInterval \in Nat \ {0} /\ from \in Int
  BY DurationsAssumption, ScanIntervalAssumption
<1>1. PICK pid, side : /\ LayeringGates(c, pid, side, Run(pid, side))
                       /\ a = LayeringAlert(c, pid, side, Run(pid, side), to)
  BY DEF LayeringScan
<1> DEFINE run == Run(pid, side)
           b == LayeringBenefit(c, pid, side, run)
           entries == {ItemAt(c.cancels, i).entry_ts : i \in run}
           entry_first == Min(entries)
<1>2. run # {} /\ run \in SUBSET Positions(c.cancels) /\ \A p \in run : ts(p) <= to - w
  BY <1>0, <1>1, RunsAreGathered DEF LayeringGates
<1>3. a.detect_ts = to /\ a.detector = "layering"
      /\ a.start_ts = (IF b.first = 0 THEN entry_first ELSE MinOf(entry_first, b.first))
      /\ a.end_ts = MaxOf(ts(Max(run)), b.last)
  BY <1>1 DEF LayeringAlert
<1> HIDE DEF run
<1>4. IsFiniteSet(run) /\ run \in SUBSET Nat /\ c.cancels.size \in Nat
      /\ \A p \in run : p <= c.cancels.size
  BY <1>2, StampsOf DEF Legible
<1>5. /\ Max(run) \in run /\ \A p \in run : p <= Max(run)
      /\ Min(run) \in run
  BY <1>2, <1>4, BoundedExtremes
<1>6. /\ \A p \in run : /\ ts(p) \in Nat \ {0} /\ ts(p) <= to
                        /\ ItemAt(c.cancels, p).entry_ts \in Int
                        /\ ItemAt(c.cancels, p).entry_ts <= ts(p)
      /\ \A p \in run : ts(p) <= ts(Max(run))
  BY <1>2, <1>5 DEF Legible, Entered
<1>7. entry_first \in Int /\ entry_first <= ts(Max(run))
  <2>1. entries \in SUBSET Int /\ entries # {}
    BY <1>2, <1>6
  <2>2. IsFiniteSet(entries)
    <3> DEFINE f == [i \in run |-> ItemAt(c.cancels, i).entry_ts]
    <3>1. f \in Surjection(run, entries)
      BY DEF Surjection
    <3>2. QED
      BY <1>4, <3>1, FS_Surjection
  <2>3. \E m \in entries : \A x \in entries : m <= x
    <3> HIDE DEF entries
    <3>1. QED
      BY <2>1, <2>2, FiniteLeast
  <2>4. entry_first \in entries
    BY <2>3 DEF Min
  <2>5. PICK p \in run : entry_first = ItemAt(c.cancels, p).entry_ts
    BY <2>4
  <2> HIDE DEF entries, entry_first
  <2>6. QED
    BY <1>5, <1>6, <2>5
<1> HIDE DEF entries, entry_first
<1>8. b.last \in Nat /\ b.first \in Nat /\ b.last <= to
  <2> DEFINE lo == ts(Min(run)) - w
             hi == ts(Max(run)) + w
  <2>1. lo \in Int /\ hi \in Int /\ to \in Nat
    BY <1>0, <1>5, <1>6
  <2>2. b = DirectionalQty(c.trades, pid, Opposite(side), lo, hi, "Aggressor")
    BY DEF LayeringBenefit
  <2> DEFINE d == DirectionalQty(c.trades, pid, Opposite(side), lo, hi, "Aggressor")
  <2> HIDE DEF lo, hi, b
  <2>3. d.first \in Nat /\ d.last \in Nat /\ (to >= 0 => d.last <= to)
    BY <2>1, DirectionalQtyIs
  <2> HIDE DEF d
  <2>4. b = d
    BY <2>2 DEF d
  <2>5. QED
    BY <2>1, <2>3, <2>4
<1> HIDE DEF b
<1>9. a.end_ts = IF ts(Max(run)) >= b.last THEN ts(Max(run)) ELSE b.last
  BY <1>3, <1>5, <1>6, <1>8, TwoExtremes
<1>10. a.start_ts \in Int /\ a.start_ts <= entry_first
  BY <1>3, <1>7, <1>8, TwoExtremes
<1>11. a.end_ts \in Int /\ a.start_ts <= a.end_ts /\ a.end_ts <= to
  BY <1>5, <1>6, <1>7, <1>8, <1>9, <1>10
<1>12. QED
  BY <1>3, <1>10, <1>11 DEF EvidenceOK

LEMMA MomentumEvidence ==
  ASSUME MomentumConfig.revert_ns >= 0, MomentumConfig.reversal_ns >= 0,
         NEW c, NEW to \in Int, Legible(c.trades, to), Paid(c.trades),
         NEW from, NEW a \in MomentumScan(c, from, to)
  PROVE  EvidenceOK(a, to)
<1> DEFINE t == c.trades
           prints == BurstPrints(t, to)
           R == MomentumConfig.revert_ns
           B == MomentumConfig.burst_ns
           V == MomentumConfig.reversal_ns
<1>0. /\ R \in Int /\ B \in Int /\ V \in Int /\ ScanInterval \in Nat \ {0}
      /\ R + B + V + 2 * ScanInterval <= History /\ History \in Int
  BY DurationsAssumption, ScanIntervalAssumption, HistoryCovers
<1>1. BurstEnd(to) = to - R /\ BurstStart(to) = (to - R) - B
  BY DEF BurstEnd, BurstStart
<1>2. prints = {p \in Positions(t) : (to - R) - B <= TsAt(t, p) /\ TsAt(t, p) <= to - R}
  <2>1. to - R \in Int /\ (to - R) - B \in Int
    BY <1>0
  <2>2. QED
    BY <1>1, <2>1 DEF BurstPrints, Legible
<1>3. BurstStart(to) > 0 /\ \E pid \in {ItemAt(t, i).taker : i \in prints} : a = MomentumAlert(c, to, pid)
  BY DEF MomentumScan, BurstInReach
<1>4. PICK i \in prints : a = MomentumAlert(c, to, ItemAt(t, i).taker)
  BY <1>3
<1> DEFINE pid == ItemAt(t, i).taker
           mine == {j \in prints : ItemAt(t, j).taker = pid}
           stamps == {TsAt(t, j) : j \in mine}
           back == Reversal(c, to, pid)
<1>5. /\ a.detect_ts = to /\ a.detector = "momentum_ignition"
      /\ a.start_ts = Earliest(stamps) /\ a.end_ts = MaxOf(back.last, BurstEnd(to))
  BY <1>4 DEF MomentumAlert
<1>6. mine \in SUBSET Positions(t) /\ mine # {} /\ mine \subseteq prints
  BY <1>2
<1> HIDE DEF mine
<1>7. \E p \in mine : Earliest(stamps) = TsAt(t, p)
  BY <1>6, StampsOf
<1>8. PICK p \in mine : a.start_ts = TsAt(t, p)
  BY <1>5, <1>7
<1>9. TsAt(t, p) \in Nat /\ (to - R) - B <= TsAt(t, p) /\ TsAt(t, p) <= to - R
  BY <1>2, <1>6 DEF Legible
<1>10. back.last \in Nat /\ back.last <= to
  <2>1. BurstEnd(to) \in Int /\ BurstEnd(to) + V \in Int /\ to \in Nat
    BY <1>0, <1>1, <1>9
  <2> DEFINE lo == BurstEnd(to)
             hi == BurstEnd(to) + V
             side == Opposite(MoveDirection(c, to))
  <2>2. back = DirectionalQty(t, pid, side, lo, hi, "Any")
    BY DEF Reversal
  <2>3. lo \in Int /\ hi \in Int
    BY <2>1
  <2> DEFINE d == DirectionalQty(t, pid, side, lo, hi, "Any")
  <2> HIDE DEF pid, lo, hi, back, side
  <2>4. d.last \in Nat /\ (to >= 0 => d.last <= to)
    BY <2>3, DirectionalQtyIs
  <2>5. back = d
    BY <2>2 DEF d
  <2> HIDE DEF d
  <2>6. QED
    BY <2>1, <2>4, <2>5
<1> HIDE DEF back, stamps, prints
<1>11. a.end_ts = IF back.last >= to - R THEN back.last ELSE to - R
  BY <1>0, <1>1, <1>5, <1>10, TwoExtremes
<1>12. a.end_ts \in Int /\ a.start_ts \in Int /\ a.start_ts <= a.end_ts /\ a.end_ts <= to
       /\ to - History <= a.start_ts
  BY <1>0, <1>8, <1>9, <1>10, <1>11
<1>13. QED
  BY <1>5, <1>12 DEF EvidenceOK

-----------------------------------------------------------------------------
(***************************************************************************)
(* The alerts.                                                             *)
(***************************************************************************)
RecordsInv == \A i \in DOMAIN tape : RecordOK(tape[i])

EvidenceInv == \A a \in alerts : EvidenceOK(a, a.detect_ts)

LEMMA RecordsKept ==
  ASSUME ClockInv, RecordsInv, [Next]_vars
  PROVE  RecordsInv'
<1>1. ASSUME NEW e, ArrivingOK(e), RecordOK(e), Apply(e) PROVE RecordsInv'
  <2>1. tape' = Append(tape, e)
    BY <1>1 DEF Apply
  <2>2. /\ DOMAIN tape' = DOMAIN tape \cup {Len(tape) + 1}
        /\ \A i \in DOMAIN tape : tape'[i] = tape[i]
        /\ tape'[Len(tape) + 1] = e
    BY <1>1, <2>1, TapeGrows
  <2>3. \A i \in DOMAIN tape' : RecordOK(tape'[i])
    BY <1>1, <2>2 DEF RecordsInv
  <2>4. QED
    BY <2>3 DEF RecordsInv, RecordOK
<1>2. ASSUME tape' = tape PROVE RecordsInv'
  BY <1>2 DEF RecordsInv, RecordOK
<1>3. QED
  BY <1>1, <1>2, StepsApply DEF Finish, vars

\* What a scan finds in the windows it has just told the time.
LEMMA ScansRead ==
  ASSUME ClockInv, WindowsInv, RecordsInv, NEW to \in Int,
         started => LastScan <= to /\ now <= to
  PROVE  /\ Legible(Expired(ctx, to).trades, to) /\ Paid(Expired(ctx, to).trades)
         /\ Legible(Expired(ctx, to).cancels, to) /\ Entered(Expired(ctx, to).cancels)
<1>1. ASSUME NEW w, NEW pushed, DOMAIN pushed \subseteq DOMAIN tape,
             \A i \in DOMAIN pushed : pushed[i].ts = tape[i].ts, WindowOf(w, pushed)
      PROVE  /\ Legible(Expire(w, to), to)
             /\ \A p \in Positions(Expire(w, to)) : \E i \in DOMAIN pushed :
                  /\ TsAt(Expire(w, to), p) = pushed[i].ts
                  /\ ItemAt(Expire(w, to), p) = pushed[i].item
  <2>1. PushedOK(pushed)
    BY <1>1, PushedFromTape
  <2>2. HoldsAsOf(Expire(w, to), pushed, to)
    <3>1. LastScan \in Int
      BY ScanIntervalAssumption DEF ClockInv, LastScan
    <3>2. CASE started
      BY <1>1, <2>1, <3>1, <3>2, ScanHolds DEF WindowOf
    <3>3. CASE ~started
      <4>1. DOMAIN pushed = {}
        BY <1>1, <3>3 DEF ClockInv
      <4>2. HoldsAsOf(w, pushed, to)
        BY <1>1, <4>1, EmptyHolds DEF WindowOf
      <4>3. QED
        BY <2>1, <4>2, ScanHolds
    <3>4. QED
      BY <3>2, <3>3
  <2>3. \A i \in DOMAIN pushed : pushed[i].ts \in Nat \ {0} /\ pushed[i].ts <= to
    <3>1. CASE started
      BY <1>1, <3>1 DEF ClockInv
    <3>2. CASE ~started
      BY <1>1, <3>2 DEF ClockInv
    <3>3. QED
      BY <3>1, <3>2
  <2>4. Legible(Expire(w, to), to)
    BY <2>1, <2>2, <2>3, WindowIsLegible
  <2>5. QED
    BY <2>1, <2>2, <2>4, PositionsAreEvents DEF Carried
<1> DEFINE t == Expire(ctx.trades, to)
           c == Expire(ctx.cancels, to)
<1>2. Expired(ctx, to).trades = t /\ Expired(ctx, to).cancels = c
  BY DEF Expired
<1>3. /\ Legible(t, to)
      /\ \A p \in Positions(t) : \E i \in DOMAIN Printed : ItemAt(t, p) = Printed[i].item
  BY <1>1, PushedDomains DEF WindowsInv
<1>4. /\ Legible(c, to)
      /\ \A p \in Positions(c) : \E i \in DOMAIN Withdrawn :
           TsAt(c, p) = Withdrawn[i].ts /\ ItemAt(c, p) = Withdrawn[i].item
  BY <1>1, PushedDomains DEF WindowsInv
<1> HIDE DEF t, c
<1>5. \A i \in DOMAIN Printed : Printed[i].item.qty \in Nat \ {0}
  BY DEF Printed, OfKind, RecordsInv, RecordOK
<1>6. \A i \in DOMAIN Withdrawn : /\ Withdrawn[i].item.entry_ts \in Int
                                  /\ Withdrawn[i].item.entry_ts <= Withdrawn[i].ts
  BY DEF Withdrawn, OfKind, RecordsInv, RecordOK
<1>7. Paid(t)
  BY <1>3, <1>5 DEF Paid
<1>8. Entered(c)
  BY <1>4, <1>6 DEF Entered
<1>9. QED
  BY <1>2, <1>3, <1>4, <1>7, <1>8

LEMMA RaisedHaveEvidence ==
  ASSUME MomentumConfig.revert_ns >= 0, MomentumConfig.reversal_ns >= 0,
         ClockInv, WindowsInv, RecordsInv, NEW first \in Int, NEW until \in Int,
         started => LastScan <= first /\ now <= first,
         NEW a \in Raised(first, until)
  PROVE  EvidenceOK(a, a.detect_ts)
<1>1. PICK to \in ScanPoints(first, until) : a \in Scan(Expired(ctx, to), to - ScanInterval, to)
  BY DEF Raised
<1>2. to \in Int /\ first <= to
  BY ScansDue DEF ScanPoints
<1>3. started => LastScan <= to /\ now <= to
  BY <1>2, ScanIntervalAssumption DEF ClockInv, LastScan
<1> DEFINE c == Expired(ctx, to)
           from == to - ScanInterval
<1>4. /\ Legible(c.trades, to) /\ Paid(c.trades)
      /\ Legible(c.cancels, to) /\ Entered(c.cancels)
  BY <1>2, <1>3, ScansRead
<1>5. enabled \in Kind
  BY EnabledAssumption DEF ClockInv
<1> HIDE DEF c
<1>6. \/ a \in SpoofingScan(c, from, to)
      \/ a \in LayeringScan(c, from, to)
      \/ a \in WashScan(c, from, to)
      \/ a \in MomentumScan(c, from, to)
  BY <1>1, <1>5 DEF Scan, Kind, c
<1>7. EvidenceOK(a, to)
  BY <1>2, <1>4, <1>6, SpoofingEvidence, LayeringEvidence, WashEvidence, MomentumEvidence
<1>8. QED
  BY <1>7 DEF EvidenceOK

LEMMA EvidenceKept ==
  ASSUME MomentumConfig.revert_ns >= 0, MomentumConfig.reversal_ns >= 0,
         ClockInv, WindowsInv, RecordsInv, EvidenceInv, [Next]_vars
  PROVE  EvidenceInv'
<1>0. now \in Int /\ next_scan \in Int /\ ScanInterval \in Nat \ {0} /\ History \in Int
  BY ScanIntervalAssumption, HistoryIsInt DEF ClockInv
<1>1. ASSUME NEW e, ArrivingOK(e), Apply(e) PROVE EvidenceInv'
  <2> DEFINE first == IF started THEN next_scan ELSE e.ts + ScanInterval
  <2>1. alerts' = alerts \cup Raised(first, e.ts) /\ ~finished
    BY <1>1 DEF Apply
  <2>2. /\ first \in Int /\ e.ts \in Int
        /\ started => LastScan <= first /\ now <= first
    BY <1>0, <1>1, <2>1 DEF ArrivingOK, ClockInv, LastScan
  <2> HIDE DEF first
  <2>3. \A a \in alerts' : EvidenceOK(a, a.detect_ts)
    BY <2>1, <2>2, RaisedHaveEvidence DEF EvidenceInv
  <2>4. QED
    BY <2>3 DEF EvidenceInv, EvidenceOK
<1>2. ASSUME alerts' = alerts PROVE EvidenceInv'
  BY <1>2 DEF EvidenceInv, EvidenceOK
<1>3. CASE Finish
  <2>1. CASE ~started
    <3>1. alerts' = alerts
      BY <1>3, <2>1 DEF Finish
    <3>2. QED
      BY <1>2, <3>1
  <2>2. CASE started
    <3> DEFINE until == now + History
    <3>1. alerts' = alerts \cup Raised(next_scan, until) /\ ~finished
      BY <1>3, <2>2 DEF Finish
    <3>2. until \in Int /\ LastScan <= next_scan /\ now <= next_scan
      BY <1>0, <2>2, <3>1 DEF ClockInv, LastScan
    <3> HIDE DEF until
    <3>3. \A a \in alerts' : EvidenceOK(a, a.detect_ts)
      BY <1>0, <3>1, <3>2, RaisedHaveEvidence DEF EvidenceInv
    <3>4. QED
      BY <3>3 DEF EvidenceInv, EvidenceOK
  <2>3. QED
    BY <2>1, <2>2
<1>4. QED
  BY <1>1, <1>2, <1>3, StepsApply DEF vars

(***************************************************************************)
(* An alert is about a stretch of tape before its detection, and not       *)
(* further back than the history (but for layering), for every tape and    *)
(* every configuration whose momentum windows do not run backwards.        *)
(***************************************************************************)
THEOREM EvidenceIsRecentCorrect ==
  ASSUME MomentumConfig.revert_ns >= 0, MomentumConfig.reversal_ns >= 0
  PROVE  Spec => []EvidenceIsRecent
<1>1. Init => RecordsInv /\ EvidenceInv
  BY DEF Init, RecordsInv, EvidenceInv
<1>2. ClockInv /\ WindowsInv /\ RecordsInv /\ EvidenceInv /\ [Next]_vars
        => RecordsInv' /\ EvidenceInv'
  BY RecordsKept, EvidenceKept
<1>3. EvidenceInv => EvidenceIsRecent
  BY DEF EvidenceInv, EvidenceOK, EvidenceIsRecent
<1>4. QED
  BY <1>1, <1>2, <1>3, WindowsInvariant, PTL DEF Spec

-----------------------------------------------------------------------------
(***************************************************************************)
(* A window that never gave up an entry for room has every entry that is   *)
(* not older than the history.                                             *)
(***************************************************************************)
Whole(w, pushed, last) ==
  w.overflowed = 0 =>
    \A i \in DOMAIN pushed : Recent(w, pushed[i].ts, Stamps(pushed) \cup {last})
                               => Newer(DOMAIN pushed, i) < w.capacity

LEMMA LaterIsWhole ==
  ASSUME NEW w, NEW v, SameShape(v, w), v.overflowed = w.overflowed, RingOK(w),
         NEW pushed, PushedOK(pushed), NEW last \in Int, NEW to \in Int, last <= to,
         Whole(w, pushed, last)
  PROVE  Whole(v, pushed, to)
<1> SUFFICES ASSUME v.overflowed = 0, NEW i \in DOMAIN pushed,
                    Recent(v, pushed[i].ts, Stamps(pushed) \cup {to})
             PROVE  Newer(DOMAIN pushed, i) < v.capacity
  BY DEF Whole
<1>1. w.window_ns \in Int /\ v.window_ns = w.window_ns /\ v.capacity = w.capacity
  BY DEF RingOK, SameShape
<1>2. pushed[i].ts \in Int
  BY DEF PushedOK
<1>3. pushed[i].ts >= to - w.window_ns
  BY <1>1 DEF Recent
<1>4. pushed[i].ts >= last - w.window_ns
  BY <1>1, <1>2, <1>3
<1>5. \A t \in Stamps(pushed) : pushed[i].ts >= t - w.window_ns
  BY <1>1 DEF Recent
<1>6. Recent(w, pushed[i].ts, Stamps(pushed) \cup {last})
  BY <1>4, <1>5 DEF Recent
<1>7. QED
  BY <1>1, <1>6 DEF Whole

LEMMA PushedIsWhole ==
  ASSUME NEW w, NEW pushed, PushedOK(pushed), NEW last, HoldsAsOf(w, pushed, last),
         Whole(w, pushed, last), NEW x, SameShape(x, w),
         x.overflowed = w.overflowed + (IF w.size = w.capacity THEN 1 ELSE 0),
         NEW m \in Nat, \A i \in DOMAIN pushed : i < m, NEW entry
  PROVE  Whole(x, WithEntry(pushed, m, entry), last)
<1> DEFINE more == WithEntry(pushed, m, entry)
           K == DOMAIN pushed
<1>1. /\ w.overflowed \in Nat /\ w.size \in Nat /\ w.capacity \in Nat \ {0}
      /\ w.size <= w.capacity /\ x.capacity = w.capacity /\ x.window_ns = w.window_ns
      /\ K \in SUBSET Nat /\ IsFiniteSet(K)
  BY DEF HoldsAsOf, RingOK, SameShape, PushedOK
<1>2. DOMAIN more = K \cup {m} /\ \A i \in K : more[i] = pushed[i]
  BY DEF WithEntry
<1> HIDE DEF more, K
<1> SUFFICES ASSUME x.overflowed = 0, NEW i \in DOMAIN more,
                    Recent(x, more[i].ts, Stamps(more) \cup {last})
             PROVE  Newer(DOMAIN more, i) < x.capacity
  BY DEF Whole, more
<1>3. w.overflowed = 0 /\ w.size < w.capacity
  BY <1>1
<1>4. /\ Newer(K \cup {m}, m) = 0
      /\ \A j \in K : Newer(K \cup {m}, j) = Newer(K, j) + 1 /\ Newer(K, j) \in Nat
  <2>1. \A j \in K : j < m
    BY DEF K
  <2>2. \A j \in K : Newer(K, j) \in Nat
    BY <1>1, NewerFalls
  <2>3. QED
    BY <1>1, <2>1, <2>2, NewerOfMore
<1>5. CASE i = m
  BY <1>1, <1>2, <1>4, <1>5
<1>6. CASE i \in K
  <2>1. Stamps(pushed) \subseteq Stamps(more)
    BY <1>2 DEF Stamps, K
  <2>2. Recent(w, pushed[i].ts, Stamps(pushed) \cup {last})
    BY <1>1, <1>2, <1>6, <2>1 DEF Recent
  <2>3. Newer(K, i) < w.capacity
    BY <1>3, <1>6, <2>2 DEF Whole, K
  <2>4. Newer(K, i) < w.size
    BY <1>6, <2>2, <2>3 DEF HoldsAsOf, Carries, K
  <2>5. Newer(DOMAIN more, i) = Newer(K, i) + 1 /\ Newer(K, i) \in Nat
    BY <1>2, <1>4, <1>6
  <2>6. QED
    BY <1>1, <2>4, <2>5
<1>7. QED
  BY <1>2, <1>5, <1>6

\* One window through apply.
LEMMA WholeThroughApply ==
  ASSUME ClockInv, ClockInv', NEW e, ArrivingOK(e), Apply(e),
         NEW w, NEW pushed, DOMAIN pushed \subseteq DOMAIN tape,
         \A i \in DOMAIN pushed : pushed[i].ts = tape[i].ts,
         HoldsAsOf(w, pushed, LastScan), Whole(w, pushed, LastScan), NEW item
  PROVE  LET first == IF started THEN next_scan ELSE e.ts + ScanInterval
             v     == AfterScans(w, first, e.ts)
             more  == WithEntry(pushed, Len(tape) + 1, [ts |-> e.ts, item |-> item])
             x     == Push(v, e.ts, item)
         IN  /\ Whole(v, pushed, LastScan') /\ v.overflowed = w.overflowed
             /\ Whole(x, more, LastScan') /\ x.overflowed >= w.overflowed
             /\ w.overflowed \in Nat
<1> DEFINE first == IF started THEN next_scan ELSE e.ts + ScanInterval
           v == AfterScans(w, first, e.ts)
           entry == [ts |-> e.ts, item |-> item]
           more == WithEntry(pushed, Len(tape) + 1, entry)
           x == Push(v, e.ts, item)
<1>1. PushedOK(pushed) /\ \A i \in DOMAIN pushed : i < Len(tape) + 1
  BY PushedFromTape
<1>2. /\ HoldsAsOf(v, pushed, LastScan') /\ SameShape(v, w)
      /\ v.overflowed = w.overflowed
      /\ HoldsAsOf(x, more, LastScan') /\ SameShape(x, w)
      /\ x.overflowed = w.overflowed + (IF v.size = v.capacity THEN 1 ELSE 0)
  BY WindowThroughApply
<1>3. RingOK(w) /\ w.overflowed \in Nat
  BY DEF HoldsAsOf, RingOK
<1>4. LastScan \in Int /\ LastScan' \in Int
  BY ScanIntervalAssumption DEF ClockInv, LastScan
<1>5. Len(tape) + 1 \in Nat
  <2>1. PICK S : tape \in Seq(S)
    BY DEF ClockInv
  <2>2. QED
    BY <2>1
<1> HIDE DEF v, x, entry
<1>6. Whole(v, pushed, LastScan')
  <2>1. CASE started
    <3>1. LastScan <= LastScan'
      <4>1. /\ next_scan' = NextScan(next_scan, e.ts) /\ next_scan \in Int /\ e.ts \in Int
        BY <2>1 DEF Apply, ClockInv, ArrivingOK
      <4>2. next_scan <= next_scan' /\ next_scan' \in Int
        <5>1. CASE e.ts < next_scan
          BY <4>1, <5>1, ScansDue DEF NextScan
        <5>2. CASE next_scan <= e.ts
          BY <4>1, <5>2, ScansDue
        <5>3. QED
          BY <4>1, <5>1, <5>2
      <4>3. QED
        BY <4>1, <4>2, ScanIntervalAssumption DEF LastScan
    <3>2. QED
      BY <1>1, <1>2, <1>3, <1>4, <3>1, LaterIsWhole
  <2>2. CASE ~started
    <3>1. DOMAIN tape = {}
      BY <2>2 DEF ClockInv
    <3>2. DOMAIN pushed = {}
      BY <3>1
    <3>3. QED
      BY <3>2 DEF Whole
  <2>3. QED
    BY <2>1, <2>2
<1>7. Whole(x, more, LastScan')
  <2>1. SameShape(x, v)
    BY <1>2 DEF SameShape
  <2>2. x.overflowed = v.overflowed + (IF v.size = v.capacity THEN 1 ELSE 0)
    BY <1>2
  <2>3. QED
    BY <1>1, <1>2, <1>5, <1>6, <2>1, <2>2, PushedIsWhole
<1>8. x.overflowed >= w.overflowed
  BY <1>2, <1>3
<1>9. QED
  BY <1>2, <1>3, <1>6, <1>7, <1>8 DEF v, x, entry

\* The three windows of the symbol lack nothing they did not overflow with.
WholeInv ==
  /\ Whole(ctx.trades, Printed, LastScan)
  /\ Whole(ctx.cancels, Withdrawn, LastScan)
  /\ Whole(ctx.mids, Quoted, LastScan)

\* Nothing a window gave up comes back.
StillDisplaced ==
  /\ ctx'.trades.overflowed = 0 => ctx.trades.overflowed = 0
  /\ ctx'.cancels.overflowed = 0 => ctx.cancels.overflowed = 0
  /\ ctx'.mids.overflowed = 0 => ctx.mids.overflowed = 0

LEMMA WholeKept ==
  ASSUME ClockInv, ClockInv', WindowsInv, WholeInv, [Next]_vars
  PROVE  WholeInv' /\ StillDisplaced
<1>1. ASSUME NEW e, ArrivingOK(e), Apply(e) PROVE WholeInv' /\ StillDisplaced
  <2> DEFINE n == Len(tape) + 1
             first == IF started THEN next_scan ELSE e.ts + ScanInterval
             After(w) == AfterScans(w, first, e.ts)
             Entry(item) == [ts |-> e.ts, item |-> item]
  <2>1. /\ tape' = Append(tape, e) /\ ctx' = Pushed(Scanned(first, e.ts), e)
    BY <1>1 DEF Apply
  <2>2. /\ Printed' = IF e.kind = "trade" THEN WithEntry(Printed, n, Entry(e.rec)) ELSE Printed
        /\ Withdrawn' = IF e.kind = "withdrawal" THEN WithEntry(Withdrawn, n, Entry(e.rec))
                                                 ELSE Withdrawn
        /\ Quoted' = WithEntry(Quoted, n, Entry(e.mid2))
    BY <1>1, <2>1, PushedGrow
  <2>3. /\ ctx'.trades = IF e.kind = "trade" THEN Push(After(ctx.trades), e.ts, e.rec)
                                             ELSE After(ctx.trades)
        /\ ctx'.cancels = IF e.kind = "withdrawal" THEN Push(After(ctx.cancels), e.ts, e.rec)
                                                   ELSE After(ctx.cancels)
        /\ ctx'.mids = Push(After(ctx.mids), e.ts, e.mid2)
    <3> HIDE DEF first
    <3>1. QED
      BY <2>1, ScannedIs DEF Pushed
  <2>4. ASSUME NEW w, NEW pushed, DOMAIN pushed \subseteq DOMAIN tape,
               \A i \in DOMAIN pushed : pushed[i].ts = tape[i].ts,
               WindowOf(w, pushed), Whole(w, pushed, LastScan), NEW item
        PROVE  /\ Whole(After(w), pushed, LastScan') /\ After(w).overflowed = w.overflowed
               /\ Whole(Push(After(w), e.ts, item), WithEntry(pushed, n, Entry(item)), LastScan')
               /\ Push(After(w), e.ts, item).overflowed >= w.overflowed
               /\ w.overflowed \in Nat
    BY <1>1, <2>4, WholeThroughApply DEF WindowOf
  <2> HIDE DEF n, first, After, Entry
  <2>5. Whole(ctx'.trades, Printed', LastScan')
        /\ (ctx'.trades.overflowed = 0 => ctx.trades.overflowed = 0)
    <3>1. /\ Whole(After(ctx.trades), Printed, LastScan')
          /\ After(ctx.trades).overflowed = ctx.trades.overflowed
          /\ Whole(Push(After(ctx.trades), e.ts, e.rec), WithEntry(Printed, n, Entry(e.rec)),
                   LastScan')
          /\ Push(After(ctx.trades), e.ts, e.rec).overflowed >= ctx.trades.overflowed
          /\ ctx.trades.overflowed \in Nat
      BY <2>4, PushedDomains DEF WindowsInv, WholeInv
    <3>2. CASE e.kind = "trade"
      BY <2>2, <2>3, <3>1, <3>2
    <3>3. CASE e.kind # "trade"
      BY <2>2, <2>3, <3>1, <3>3
    <3>4. QED
      BY <3>2, <3>3
  <2>6. Whole(ctx'.cancels, Withdrawn', LastScan')
        /\ (ctx'.cancels.overflowed = 0 => ctx.cancels.overflowed = 0)
    <3>1. /\ Whole(After(ctx.cancels), Withdrawn, LastScan')
          /\ After(ctx.cancels).overflowed = ctx.cancels.overflowed
          /\ Whole(Push(After(ctx.cancels), e.ts, e.rec),
                   WithEntry(Withdrawn, n, Entry(e.rec)), LastScan')
          /\ Push(After(ctx.cancels), e.ts, e.rec).overflowed >= ctx.cancels.overflowed
          /\ ctx.cancels.overflowed \in Nat
      BY <2>4, PushedDomains DEF WindowsInv, WholeInv
    <3>2. CASE e.kind = "withdrawal"
      BY <2>2, <2>3, <3>1, <3>2
    <3>3. CASE e.kind # "withdrawal"
      BY <2>2, <2>3, <3>1, <3>3
    <3>4. QED
      BY <3>2, <3>3
  <2>7. Whole(ctx'.mids, Quoted', LastScan')
        /\ (ctx'.mids.overflowed = 0 => ctx.mids.overflowed = 0)
    <3>1. /\ Whole(Push(After(ctx.mids), e.ts, e.mid2), WithEntry(Quoted, n, Entry(e.mid2)),
                   LastScan')
          /\ Push(After(ctx.mids), e.ts, e.mid2).overflowed >= ctx.mids.overflowed
          /\ ctx.mids.overflowed \in Nat
      BY <2>4, PushedDomains DEF WindowsInv, WholeInv
    <3>2. QED
      BY <2>2, <2>3, <3>1
  <2>8. QED
    BY <2>5, <2>6, <2>7 DEF WholeInv, StillDisplaced
<1>2. ASSUME UNCHANGED <<ctx, tape, next_scan>> PROVE WholeInv' /\ StillDisplaced
  BY <1>2 DEF WholeInv, StillDisplaced, LastScan, Printed, Withdrawn, Quoted, OfKind
<1>3. CASE Finish
  <2>1. CASE ~started
    BY <1>2, <1>3, <2>1 DEF Finish
  <2>2. CASE started
    <3> DEFINE until == now + History
               After(w) == AfterScans(w, next_scan, until)
    <3>1. /\ ctx' = Scanned(next_scan, until) /\ next_scan' = NextScan(next_scan, until)
          /\ tape' = tape
      BY <1>3, <2>2 DEF Finish
    <3>2. until \in Int /\ next_scan \in Int /\ next_scan' \in Int
      BY HistoryIsInt DEF ClockInv
    <3> HIDE DEF until
    <3>3. /\ ctx'.trades = After(ctx.trades) /\ ctx'.cancels = After(ctx.cancels)
          /\ ctx'.mids = After(ctx.mids)
      BY <3>1, ScannedIs
    <3>4. Printed' = Printed /\ Withdrawn' = Withdrawn /\ Quoted' = Quoted
      BY <3>1 DEF Printed, Withdrawn, Quoted, OfKind
    <3>5. LastScan <= LastScan' /\ LastScan \in Int /\ LastScan' \in Int
      <4>1. next_scan <= next_scan'
        <5>1. CASE until < next_scan
          BY <3>1, <3>2, <5>1, ScansDue DEF NextScan
        <5>2. CASE next_scan <= until
          BY <3>1, <3>2, <5>2, ScansDue
        <5>3. QED
          BY <3>2, <5>1, <5>2
      <4>2. /\ LastScan = next_scan - ScanInterval /\ LastScan' = next_scan' - ScanInterval
            /\ ScanInterval \in Int
        BY ScanIntervalAssumption DEF LastScan
      <4>3. \A x, y \in Int : x <= y => x - ScanInterval <= y - ScanInterval
        BY <4>2
      <4>4. LastScan \in Int /\ LastScan' \in Int
        BY <3>2, <4>2
      <4>5. QED
        BY <3>2, <4>1, <4>2, <4>3, <4>4
    <3>6. ASSUME NEW w, NEW pushed, DOMAIN pushed \subseteq DOMAIN tape,
                 \A i \in DOMAIN pushed : pushed[i].ts = tape[i].ts,
                 WindowOf(w, pushed), Whole(w, pushed, LastScan)
          PROVE  Whole(After(w), pushed, LastScan') /\ After(w).overflowed = w.overflowed
      <4>1. PushedOK(pushed)
        BY <3>6, PushedFromTape
      <4>2. SameShape(After(w), w) /\ After(w).overflowed = w.overflowed /\ RingOK(w)
        <5>1. HoldsAsOf(w, pushed, next_scan - ScanInterval)
          BY <3>6 DEF WindowOf, LastScan
        <5>2. /\ SameShape(AfterScans(w, next_scan, until), w)
              /\ AfterScans(w, next_scan, until).overflowed = w.overflowed
          BY <3>2, <4>1, <5>1, ScansHold
        <5>3. RingOK(w)
          BY <5>1 DEF HoldsAsOf
        <5>4. QED
          BY <5>2, <5>3
      <4> HIDE DEF After
      <4>3. QED
        BY <3>5, <3>6, <4>1, <4>2, LaterIsWhole
    <3> HIDE DEF After
    <3>7. /\ Whole(After(ctx.trades), Printed, LastScan')
          /\ After(ctx.trades).overflowed = ctx.trades.overflowed
          /\ Whole(After(ctx.cancels), Withdrawn, LastScan')
          /\ After(ctx.cancels).overflowed = ctx.cancels.overflowed
          /\ Whole(After(ctx.mids), Quoted, LastScan')
          /\ After(ctx.mids).overflowed = ctx.mids.overflowed
      BY <3>6, PushedDomains DEF WindowsInv, WholeInv
    <3>8. QED
      BY <3>3, <3>4, <3>7 DEF WholeInv, StillDisplaced
  <2>3. QED
    BY <2>1, <2>2
<1>4. CASE UNCHANGED vars
  BY <1>2, <1>4 DEF vars
<1>5. QED
  BY <1>1, <1>3, <1>4, StepsApply

LEMMA WholeInitially == Init => WholeInv
<1> SUFFICES ASSUME Init PROVE WholeInv
  OBVIOUS
<1>1. DOMAIN tape = {}
  BY DEF Init
<1>2. DOMAIN Printed = {} /\ DOMAIN Withdrawn = {} /\ DOMAIN Quoted = {}
  BY <1>1, PushedDomains
<1>3. QED
  BY <1>2 DEF WholeInv, Whole

(***************************************************************************)
(* A window of trades, cancels or quotes that never gave an entry up for   *)
(* room lacks nothing that is not older than the history, so a scan reads  *)
(* in it everything the tape had to show.                                  *)
(***************************************************************************)
THEOREM WholeInvariant == Spec => []WholeInv
<1>1. ClockInv /\ WindowsInv /\ WholeInv /\ ClockInv' /\ [Next]_vars => WholeInv'
  BY WholeKept
<1>2. QED
  BY <1>1, WholeInitially, WindowsInvariant, PTL DEF Spec

-----------------------------------------------------------------------------
(***************************************************************************)
(* The scan points.                                                        *)
(***************************************************************************)
OnGrid(p) == p \in Int /\ (p - StartTs) % ScanInterval = 0

\* A multiple, with its quotient.
LEMMA Multiples ==
  ASSUME NEW n \in Nat \ {0}, NEW a \in Int
  PROVE  a % n = 0 <=> \E k \in Int : a = k * n
<1>1. ASSUME a % n = 0 PROVE \E k \in Int : a = k * n
  <2> DEFINE q == a \div n
  <2>1. a = q * n /\ q \in Int
    BY <1>1
  <2> HIDE DEF q
  <2>2. QED
    BY <2>1
<1>2. ASSUME NEW k \in Int, a = k * n PROVE a % n = 0
  BY <1>2
<1>3. QED
  BY <1>1, <1>2

LEMMA OneInReach ==
  ASSUME NEW n \in Nat \ {0}, NEW a \in Int, NEW b \in Int, a % n = 0, b % n = 0,
         a <= b, b < a + n
  PROVE  a = b
<1>1. PICK k \in Int : a = k * n
  BY Multiples
<1>2. PICK m \in Int : b = m * n
  BY Multiples
<1>3. ~(m >= k + 1)
  <2> SUFFICES ASSUME m >= k + 1 PROVE FALSE
    OBVIOUS
  <2>1. m * n >= (k + 1) * n
    OBVIOUS
  <2>2. (k + 1) * n = k * n + n
    OBVIOUS
  <2>3. QED
    BY <1>1, <1>2, <2>1, <2>2
<1>4. ~(k >= m + 1)
  <2> SUFFICES ASSUME k >= m + 1 PROVE FALSE
    OBVIOUS
  <2>1. k * n >= (m + 1) * n
    OBVIOUS
  <2>2. (m + 1) * n = m * n + n
    OBVIOUS
  <2>3. QED
    BY <1>1, <1>2, <2>1, <2>2
<1>5. k = m
  BY <1>3, <1>4
<1>6. QED
  BY <1>1, <1>2, <1>5

LEMMA SumsAreMultiples ==
  ASSUME NEW n \in Nat \ {0}, NEW a \in Int, NEW b \in Int, a % n = 0
  PROVE  b % n = 0 <=> (b - a) % n = 0
<1>1. PICK k \in Int : a = k * n
  BY Multiples
<1>2. ASSUME b % n = 0 PROVE (b - a) % n = 0
  <2>1. PICK m \in Int : b = m * n
    BY <1>2, Multiples
  <2>2. b - a = (m - k) * n
    BY <1>1, <2>1
  <2>3. QED
    BY <2>2, Multiples
<1>3. ASSUME (b - a) % n = 0 PROVE b % n = 0
  <2>1. PICK m \in Int : b - a = m * n
    BY <1>3, Multiples
  <2>2. b = (m + k) * n
    BY <1>1, <2>1
  <2>3. QED
    BY <2>2, Multiples
<1>4. QED
  BY <1>2, <1>3

\* Some scan point is not far from any instant.
LEMMA ClosingScanIs ==
  ASSUME NEW t \in Int
  PROVE  /\ OnGrid(ClosingScan(t)) /\ t <= ClosingScan(t) /\ ClosingScan(t) < t + ScanInterval
         /\ \A p : OnGrid(p) /\ t <= p /\ p < t + ScanInterval => p = ClosingScan(t)
<1>0. ScanInterval \in Nat \ {0} /\ StartTs \in Int
  BY ScanIntervalAssumption, StartTsAssumption
<1> DEFINE r == (t - StartTs) % ScanInterval
           q == (t - StartTs) \div ScanInterval
           p0 == IF r = 0 THEN t ELSE t + ScanInterval - r
<1>1. /\ r \in 0 .. ScanInterval - 1 /\ q \in Int
      /\ t - StartTs = ScanInterval * q + r
  BY <1>0
<1>2. p0 \in t .. t + ScanInterval - 1 /\ (p0 - StartTs) % ScanInterval = 0
  <2>1. CASE r = 0
    BY <1>0, <1>1, <2>1
  <2>2. CASE r # 0
    <3>1. p0 \in t .. t + ScanInterval - 1
      <4> HIDE DEF r
      <4>1. QED
        BY <1>0, <1>1, <2>2
    <3>2. p0 - StartTs = (q + 1) * ScanInterval
      <4> HIDE DEF r, q
      <4>1. (q + 1) * ScanInterval = ScanInterval * q + ScanInterval
        BY <1>0, <1>1
      <4>2. QED
        BY <1>0, <1>1, <2>2, <4>1
    <3> HIDE DEF p0, r, q
    <3>3. p0 - StartTs \in Int /\ q + 1 \in Int
      BY <1>0, <1>1, <3>1
    <3>4. QED
      BY <1>0, <3>1, <3>2, <3>3, Multiples
  <2>3. QED
    BY <2>1, <2>2
<1> HIDE DEF p0
<1>3. ClosingScan(t) \in t .. t + ScanInterval - 1 /\ (ClosingScan(t) - StartTs) % ScanInterval = 0
  BY <1>2 DEF ClosingScan
<1> DEFINE c == ClosingScan(t)
<1> HIDE DEF c
<1>4. c \in Int /\ t <= c /\ c < t + ScanInterval /\ (c - StartTs) % ScanInterval = 0
  BY <1>0, <1>3 DEF c
<1>5. ASSUME NEW p, OnGrid(p), t <= p, p < t + ScanInterval PROVE p = c
  <2>1. p \in Int /\ (p - StartTs) % ScanInterval = 0
    BY <1>5 DEF OnGrid
  <2>2. p - StartTs \in Int /\ c - StartTs \in Int
    BY <1>0, <1>4, <2>1
  <2>3. CASE p <= c
    <3>1. p - StartTs <= c - StartTs /\ c - StartTs < (p - StartTs) + ScanInterval
      BY <1>0, <1>4, <1>5, <2>1, <2>3
    <3>2. p - StartTs = c - StartTs
      BY <1>0, <1>4, <2>1, <2>2, <3>1, OneInReach
    <3>3. QED
      BY <1>0, <1>4, <2>1, <3>2
  <2>4. CASE c <= p
    <3>1. c - StartTs <= p - StartTs /\ p - StartTs < (c - StartTs) + ScanInterval
      BY <1>0, <1>4, <1>5, <2>1, <2>4
    <3>2. p - StartTs = c - StartTs
      BY <1>0, <1>4, <2>1, <2>2, <3>1, OneInReach
    <3>3. QED
      BY <1>0, <1>4, <2>1, <3>2
  <2>5. QED
    BY <1>4, <2>1, <2>3, <2>4
<1>6. OnGrid(c)
  BY <1>4 DEF OnGrid
<1>7. QED
  BY <1>4, <1>5, <1>6 DEF c

\* The scans that are due are the scan points up to now.
LEMMA ScansOnGrid ==
  ASSUME NEW first, OnGrid(first), NEW until \in Int
  PROVE  /\ \A t : t \in ScanPoints(first, until) <=> OnGrid(t) /\ first <= t /\ t <= until
         /\ OnGrid(NextScan(first, until))
         /\ OnGrid(first - ScanInterval) /\ OnGrid(first + ScanInterval)
         /\ \A t : OnGrid(t) /\ t > first - ScanInterval => first <= t
<1>0. ScanInterval \in Nat \ {0} /\ StartTs \in Int /\ first \in Int
      /\ (first - StartTs) % ScanInterval = 0 /\ first - StartTs \in Int
  BY ScanIntervalAssumption, StartTsAssumption DEF OnGrid
<1>1. ASSUME NEW t \in Int PROVE OnGrid(t) <=> (t - first) % ScanInterval = 0
  <2>1. (t - StartTs) - (first - StartTs) = t - first /\ t - StartTs \in Int
    BY <1>0
  <2>2. (t - StartTs) % ScanInterval = 0
          <=> ((t - StartTs) - (first - StartTs)) % ScanInterval = 0
    BY <1>0, <2>1, SumsAreMultiples
  <2>3. QED
    BY <2>1, <2>2 DEF OnGrid
<1>2. \A t : t \in ScanPoints(first, until) <=> OnGrid(t) /\ first <= t /\ t <= until
  <2>1. \A t : t \in ScanPoints(first, until)
                 <=> t \in Int /\ first <= t /\ t <= until /\ (t - first) % ScanInterval = 0
    BY <1>0 DEF ScanPoints
  <2>2. QED
    BY <1>1, <2>1 DEF OnGrid
<1>3. ASSUME NEW t, OnGrid(t) PROVE OnGrid(t - ScanInterval) /\ OnGrid(t + ScanInterval)
  <2>1. t \in Int /\ (t - StartTs) % ScanInterval = 0
    BY <1>3 DEF OnGrid
  <2>2. t - StartTs \in Int
    BY <1>0, <2>1
  <2>3. PICK k \in Int : t - StartTs = k * ScanInterval
    BY <1>0, <2>1, <2>2, Multiples
  <2>4. /\ (t - ScanInterval) - StartTs = (k - 1) * ScanInterval
        /\ (t + ScanInterval) - StartTs = (k + 1) * ScanInterval
        /\ t - ScanInterval \in Int /\ t + ScanInterval \in Int
        /\ (t - ScanInterval) - StartTs \in Int /\ (t + ScanInterval) - StartTs \in Int
        /\ k - 1 \in Int /\ k + 1 \in Int
    BY <1>0, <2>1, <2>3
  <2>5. /\ ((t - ScanInterval) - StartTs) % ScanInterval = 0
        /\ ((t + ScanInterval) - StartTs) % ScanInterval = 0
    BY <1>0, <2>4, Multiples
  <2>6. QED
    BY <2>4, <2>5 DEF OnGrid
<1>4. OnGrid(NextScan(first, until))
  <2>1. CASE until < first
    BY <1>0, <2>1, ScansDue DEF NextScan
  <2>2. CASE first <= until
    <3>1. /\ Max(ScanPoints(first, until)) \in ScanPoints(first, until)
          /\ ScanPoints(first, until) # {}
      BY <1>0, <2>2, ScansDue
    <3>2. OnGrid(Max(ScanPoints(first, until)) + ScanInterval)
      BY <1>2, <1>3, <3>1
    <3>3. QED
      BY <3>1, <3>2 DEF NextScan
  <2>3. QED
    BY <1>0, <2>1, <2>2
<1>5. ASSUME NEW t, OnGrid(t), t > first - ScanInterval PROVE first <= t
  <2>1. t \in Int /\ (t - first) % ScanInterval = 0
    BY <1>1, <1>5 DEF OnGrid
  <2>2. SUFFICES ASSUME t < first PROVE FALSE
    BY <1>0, <2>1
  <2>3. t - first \in Int /\ t - first <= 0 /\ 0 < (t - first) + ScanInterval /\ 0 % ScanInterval = 0
    BY <1>0, <1>5, <2>1, <2>2
  <2>4. t - first = 0
    BY <1>0, <2>1, <2>3, OneInReach
  <2>5. QED
    BY <1>0, <2>1, <2>2, <2>4
<1>6. QED
  BY <1>0, <1>2, <1>3, <1>4, <1>5

\* The next scan is at a scan point.
GridInv == started => OnGrid(next_scan)

\* Where advance_scans starts: at a scan point, after everything on the tape.
LEMMA FirstOnGrid ==
  ASSUME ClockInv, GridInv, NEW e, ArrivingOK(e), ~finished
  PROVE  LET first == IF started THEN next_scan ELSE e.ts + ScanInterval IN
         /\ OnGrid(first) /\ first \in Int /\ e.ts \in Int
         /\ started => now < first /\ LastScan <= first
         /\ ~started => e.ts < first
<1>0. ScanInterval \in Nat \ {0} /\ StartTs \in Int /\ e.ts \in Int
  BY ScanIntervalAssumption, StartTsAssumption DEF ArrivingOK
<1>1. CASE started
  BY <1>0, <1>1 DEF GridInv, ClockInv, LastScan, OnGrid
<1>2. CASE ~started
  <2>1. e.ts = StartTs
    BY <1>2 DEF ArrivingOK
  <2>2. OnGrid(StartTs)
    <3>1. StartTs - StartTs = 0 /\ 0 % ScanInterval = 0
      BY <1>0
    <3>2. QED
      BY <1>0, <3>1 DEF OnGrid
  <2>3. OnGrid(StartTs + ScanInterval)
    BY <1>0, <2>2, ScansOnGrid
  <2>4. QED
    BY <1>0, <1>2, <2>1, <2>3
<1>3. QED
  BY <1>1, <1>2

LEMMA GridKept ==
  ASSUME ClockInv, GridInv, [Next]_vars
  PROVE  GridInv'
<1>1. ASSUME NEW e, ArrivingOK(e), Apply(e) PROVE GridInv'
  <2> DEFINE first == IF started THEN next_scan ELSE e.ts + ScanInterval
  <2>1. next_scan' = NextScan(first, e.ts) /\ ~finished
    BY <1>1 DEF Apply
  <2>2. OnGrid(first) /\ e.ts \in Int
    BY <1>1, <2>1, FirstOnGrid
  <2> HIDE DEF first
  <2>3. OnGrid(next_scan')
    BY <2>1, <2>2, ScansOnGrid
  <2>4. QED
    BY <2>3 DEF GridInv, OnGrid
<1>2. CASE Finish
  <2>1. CASE started
    <3> DEFINE until == now + History
    <3>1. next_scan' = NextScan(next_scan, until) /\ OnGrid(next_scan) /\ until \in Int
      BY <1>2, <2>1, HistoryIsInt DEF Finish, GridInv, ClockInv
    <3> HIDE DEF until
    <3>2. OnGrid(next_scan')
      BY <3>1, ScansOnGrid
    <3>3. QED
      BY <3>2 DEF GridInv, OnGrid
  <2>2. CASE ~started
    BY <1>2, <2>2 DEF Finish, GridInv
  <2>3. QED
    BY <2>1, <2>2
<1>3. CASE UNCHANGED vars
  BY <1>3 DEF vars, GridInv, OnGrid
<1>4. QED
  BY <1>1, <1>2, <1>3, StepsApply

\* A withdrawn order has the number of its event.
\* The order of a withdrawal is numbered by its event, so no two have the same.
NumbersInv == \A i \in OfKind("withdrawal") : tape[i].rec.order_id = i

LEMMA NumbersKept ==
  ASSUME ClockInv, NumbersInv, [Next]_vars
  PROVE  NumbersInv'
<1>1. ASSUME NEW e, ArrivingOK(e), Apply(e) PROVE NumbersInv'
  <2> DEFINE n == Len(tape) + 1
  <2>1. tape' = Append(tape, e)
    BY <1>1 DEF Apply
  <2>2. /\ DOMAIN tape' = DOMAIN tape \cup {n}
        /\ \A i \in DOMAIN tape : tape'[i] = tape[i]
        /\ tape'[n] = e
    BY <1>1, <2>1, TapeGrows
  <2>3. e.kind = "withdrawal" => e.rec.order_id = n
    BY <1>1 DEF ArrivingOK
  <2> HIDE DEF n
  <2>4. ASSUME NEW i \in DOMAIN tape', tape'[i].kind = "withdrawal"
        PROVE  tape'[i].rec.order_id = i
    BY <2>2, <2>3, <2>4 DEF NumbersInv, OfKind
  <2>5. QED
    BY <2>4 DEF NumbersInv, OfKind
<1>2. ASSUME tape' = tape PROVE NumbersInv'
  BY <1>2 DEF NumbersInv, OfKind
<1>3. QED
  BY <1>1, <1>2, StepsApply DEF Finish, vars

\* What a scan finds in a window: entries of the tape, and, if the window
\* never gave one up for room, every one of them the history reaches.
\* The window v has this entry.
Has(v, ts, item) == \E p \in Positions(v) : TsAt(v, p) = ts /\ ItemAt(v, p) = item

LEMMA ScanFinds ==
  ASSUME ClockInv, NEW w, NEW pushed, DOMAIN pushed \subseteq DOMAIN tape,
         \A i \in DOMAIN pushed : pushed[i].ts = tape[i].ts,
         WindowOf(w, pushed), Whole(w, pushed, LastScan),
         started, NEW to \in Int, LastScan <= to, now <= to
  PROVE  LET v == Expire(w, to) IN
         /\ Legible(v, to)
         /\ \A p \in Positions(v) : \E i \in DOMAIN pushed :
              TsAt(v, p) = pushed[i].ts /\ ItemAt(v, p) = pushed[i].item
         /\ w.overflowed = 0 =>
              \A i \in DOMAIN pushed : pushed[i].ts >= to - History
                                         => Has(v, pushed[i].ts, pushed[i].item)
<1> DEFINE v == Expire(w, to)
<1>1. PushedOK(pushed) /\ \A i \in DOMAIN pushed : pushed[i].ts <= now
  BY PushedFromTape
<1>2. LastScan \in Int /\ now \in Int
  BY ScanIntervalAssumption DEF ClockInv, LastScan
<1>3. /\ HoldsAsOf(v, pushed, to) /\ SameShape(v, w) /\ v.overflowed = w.overflowed
      /\ RingOK(w) /\ w.window_ns = History /\ History \in Int
  BY <1>1, <1>2, ScanHolds, HistoryIsInt DEF WindowOf, SameShape, HoldsAsOf
<1> HIDE DEF v
<1>4. Whole(v, pushed, to)
  BY <1>1, <1>2, <1>3, LaterIsWhole
<1>5. \A i \in DOMAIN pushed : pushed[i].ts \in Nat \ {0} /\ pushed[i].ts <= to
  BY <1>1, <1>2 DEF ClockInv
<1>6. Legible(v, to)
  BY <1>1, <1>3, <1>5, WindowIsLegible
<1>7. /\ \A p \in Positions(v) :
              /\ EventAt(v, pushed, p) \in Carried(v, pushed)
              /\ TsAt(v, p) = pushed[EventAt(v, pushed, p)].ts
              /\ ItemAt(v, p) = pushed[EventAt(v, pushed, p)].item
      /\ \A i \in Carried(v, pushed) : \E p \in Positions(v) : EventAt(v, pushed, p) = i
  BY <1>1, <1>3, PositionsAreEvents
<1>8. ASSUME w.overflowed = 0, NEW i \in DOMAIN pushed, pushed[i].ts >= to - History
      PROVE  Has(v, pushed[i].ts, pushed[i].item)
  <2>1. \A t \in Stamps(pushed) \cup {to} : t \in Int /\ t <= to
    BY <1>5 DEF Stamps
  <2>2. pushed[i].ts \in Int /\ v.window_ns = History
    BY <1>3, <1>5 DEF SameShape
  <2>3. \A t \in Stamps(pushed) \cup {to} : pushed[i].ts >= t - History
    BY <1>3, <1>8, <2>1, <2>2
  <2>4. Recent(v, pushed[i].ts, Stamps(pushed) \cup {to})
    BY <2>2, <2>3 DEF Recent
  <2>5. Newer(DOMAIN pushed, i) < v.capacity
    BY <1>3, <1>4, <1>8, <2>4 DEF Whole
  <2>6. i \in Carried(v, pushed)
    BY <1>3, <2>4, <2>5 DEF HoldsAsOf, Carries, Carried
  <2>7. QED
    BY <1>7, <2>6 DEF Has
<1>9. \A p \in Positions(v) : \E i \in DOMAIN pushed :
        TsAt(v, p) = pushed[i].ts /\ ItemAt(v, p) = pushed[i].item
  BY <1>7 DEF Carried
<1>10. QED
  BY <1>6, <1>8, <1>9 DEF v

\* The trades and the withdrawals as a scan sees them.
LEMMA ScanFindsTape ==
  ASSUME ClockInv, WindowsInv, WholeInv, RecordsInv,
         started, NEW to \in Int, LastScan <= to, now <= to
  PROVE  LET c == Expired(ctx, to) IN
         /\ Legible(c.trades, to) /\ Paid(c.trades)
         /\ Legible(c.cancels, to)
         /\ \A p \in Positions(c.trades) : \E k \in OfKind("trade") :
              TsAt(c.trades, p) = tape[k].ts /\ ItemAt(c.trades, p) = tape[k].rec
         /\ \A p \in Positions(c.cancels) : \E i \in OfKind("withdrawal") :
              TsAt(c.cancels, p) = tape[i].ts /\ ItemAt(c.cancels, p) = tape[i].rec
         /\ ctx.trades.overflowed = 0 =>
              \A k \in OfKind("trade") : tape[k].ts >= to - History
                                           => Has(c.trades, tape[k].ts, tape[k].rec)
         /\ ctx.cancels.overflowed = 0 =>
              \A i \in OfKind("withdrawal") : tape[i].ts >= to - History
                                                => Has(c.cancels, tape[i].ts, tape[i].rec)
<1> DEFINE t == Expire(ctx.trades, to)
           c == Expire(ctx.cancels, to)
<1>1. Expired(ctx, to).trades = t /\ Expired(ctx, to).cancels = c
  BY DEF Expired
<1>2. Paid(t)
  BY <1>1, ScansRead
<1>3. /\ Legible(t, to)
      /\ \A p \in Positions(t) : \E i \in DOMAIN Printed :
           TsAt(t, p) = Printed[i].ts /\ ItemAt(t, p) = Printed[i].item
      /\ ctx.trades.overflowed = 0 =>
           \A i \in DOMAIN Printed : Printed[i].ts >= to - History
                                       => Has(t, Printed[i].ts, Printed[i].item)
  BY ScanFinds, PushedDomains DEF WindowsInv, WholeInv
<1>4. /\ Legible(c, to)
      /\ \A p \in Positions(c) : \E i \in DOMAIN Withdrawn :
           TsAt(c, p) = Withdrawn[i].ts /\ ItemAt(c, p) = Withdrawn[i].item
      /\ ctx.cancels.overflowed = 0 =>
           \A i \in DOMAIN Withdrawn : Withdrawn[i].ts >= to - History
                                         => Has(c, Withdrawn[i].ts, Withdrawn[i].item)
  BY ScanFinds, PushedDomains DEF WindowsInv, WholeInv
<1>5. /\ DOMAIN Printed = OfKind("trade") /\ DOMAIN Withdrawn = OfKind("withdrawal")
      /\ \A k \in OfKind("trade") : Printed[k].ts = tape[k].ts /\ Printed[k].item = tape[k].rec
      /\ \A i \in OfKind("withdrawal") : /\ Withdrawn[i].ts = tape[i].ts
                                         /\ Withdrawn[i].item = tape[i].rec
  BY DEF Printed, Withdrawn
<1> HIDE DEF t, c
<1>6. QED
  BY <1>1, <1>2, <1>3, <1>4, <1>5

-----------------------------------------------------------------------------
(***************************************************************************)
(* Spoofing: a scan raises an alert about exactly the withdrawals that are *)
(* guilty and whose window closed since the scan before.                   *)
(***************************************************************************)
\* How long after a withdrawal, and how long before, a taking counts.
OppositeWindow == SpoofingConfig.opposite_window_ns

\* The tape has the benefit the withdrawal i needs.
Benefits(i) ==
  \E k \in OfKind("trade") :
    /\ tape[k].rec.taker = tape[i].rec.participant
    /\ tape[k].rec.aggressor = Opposite(tape[i].rec.side)
    /\ tape[i].ts - OppositeWindow <= tape[k].ts
    /\ tape[k].ts <= tape[i].ts + OppositeWindow

ClosesBy(i, to) ==
  to - ScanInterval < tape[i].ts + OppositeWindow /\ tape[i].ts + OppositeWindow <= to

Report(i, to) == SpoofingAlert(Expired(ctx, to), tape[i].rec, tape[i].ts, to)

LEMMA OppositeWindowIsInt == OppositeWindow \in Int
BY DurationsAssumption DEF OppositeWindow

\* The events of the tape have times, and none is later than tape time.
LEMMA TimesOnTape ==
  ASSUME ClockInv, NEW kind
  PROVE  \A k \in OfKind(kind) : tape[k].ts \in Int /\ tape[k].ts <= now
BY DEF ClockInv, OfKind

\* Who took on which side, in the words of directional_qty.
LEMMA TakerIsAggressor ==
  ASSUME NEW t, NEW pid, NEW want
  PROVE  SideOf(t, pid) = want /\ RoleMatches(t, pid, "Aggressor")
           <=> t.taker = pid /\ t.aggressor = want
BY DEF SideOf, RoleMatches

\* The benefit a scan finds is the one on the tape.
LEMMA BenefitIsFound ==
  ASSUME ClockInv, WindowsInv, WholeInv, RecordsInv,
         started, NEW to \in Int, LastScan <= to, now <= to, NEW i \in OfKind("withdrawal")
  PROVE  LET qty == SpoofingBenefit(Expired(ctx, to), tape[i].rec, tape[i].ts).qty IN
         /\ qty > 0 => Benefits(i)
         /\ ctx.trades.overflowed = 0 /\ tape[i].ts - OppositeWindow >= to - History /\ Benefits(i)
              => qty > 0
<1> DEFINE w == Expired(ctx, to).trades
           pid == tape[i].rec.participant
           want == Opposite(tape[i].rec.side)
           lo == tape[i].ts - OppositeWindow
           hi == tape[i].ts + OppositeWindow
           qty == SpoofingBenefit(Expired(ctx, to), tape[i].rec, tape[i].ts).qty
           hits == Hits(w, pid, want, lo, hi, "Aggressor")
<1>1. /\ Legible(w, to) /\ Paid(w)
      /\ \A p \in Positions(w) : \E k \in OfKind("trade") :
           TsAt(w, p) = tape[k].ts /\ ItemAt(w, p) = tape[k].rec
      /\ ctx.trades.overflowed = 0 =>
           \A k \in OfKind("trade") : tape[k].ts >= to - History => Has(w, tape[k].ts, tape[k].rec)
  BY ScanFindsTape
<1>2. /\ tape[i].ts \in Int /\ OppositeWindow \in Int /\ History \in Int
      /\ \A k \in OfKind("trade") : tape[k].ts \in Int
  BY OppositeWindowIsInt, HistoryIsInt, TimesOnTape
<1>3. lo \in Int /\ hi \in Int
  BY <1>2
<1>4. qty = DirectionalQty(w, pid, want, lo, hi, "Aggressor").qty
  BY DEF SpoofingBenefit, OppositeWindow
<1> HIDE DEF w, qty
<1>5. qty > 0 <=> hits # {}
  <2> HIDE DEF lo, hi, pid, want
  <2>1. QED
    BY <1>1, <1>3, <1>4, DirectionalQtyIs
<1>6. \A p : p \in hits <=> /\ p \in Positions(w)
                            /\ lo <= TsAt(w, p) /\ TsAt(w, p) <= hi
                            /\ ItemAt(w, p).taker = pid /\ ItemAt(w, p).aggressor = want
  BY TakerIsAggressor DEF Hits
<1>7. Benefits(i) <=> \E k \in OfKind("trade") :
                        /\ tape[k].rec.taker = pid /\ tape[k].rec.aggressor = want
                        /\ lo <= tape[k].ts /\ tape[k].ts <= hi
  BY DEF Benefits
<1> HIDE DEF hits, pid, want, lo, hi
<1>8. ASSUME qty > 0 PROVE Benefits(i)
  <2>1. PICK p \in hits : TRUE
    BY <1>5, <1>8
  <2>2. PICK k \in OfKind("trade") : TsAt(w, p) = tape[k].ts /\ ItemAt(w, p) = tape[k].rec
    BY <1>1, <1>6
  <2>3. QED
    BY <1>6, <1>7, <2>1, <2>2
<1>9. ASSUME ctx.trades.overflowed = 0, lo >= to - History, Benefits(i) PROVE qty > 0
  <2>1. PICK k \in OfKind("trade") : /\ tape[k].rec.taker = pid /\ tape[k].rec.aggressor = want
                                     /\ lo <= tape[k].ts /\ tape[k].ts <= hi
    BY <1>7, <1>9
  <2>2. tape[k].ts >= to - History
    BY <1>2, <1>3, <1>9, <2>1
  <2>3. PICK p \in Positions(w) : TsAt(w, p) = tape[k].ts /\ ItemAt(w, p) = tape[k].rec
    BY <1>1, <1>9, <2>2 DEF Has
  <2>4. p \in hits
    BY <1>6, <2>1, <2>3
  <2>5. QED
    BY <1>5, <2>4
<1>10. QED
  BY <1>8, <1>9 DEF qty, lo

LEMMA SpoofingReads ==
  ASSUME ClockInv, WindowsInv, WholeInv, RecordsInv,
         started, NEW to \in Int, LastScan <= to, now <= to
  PROVE  LET raised == SpoofingScan(Expired(ctx, to), to - ScanInterval, to)
             found(i) == /\ ClosesBy(i, to) /\ Benefits(i)
                         /\ SpoofingGates(tape[i].rec, tape[i].ts)
         IN  /\ \A a \in raised : \E i \in OfKind("withdrawal") : found(i) /\ a = Report(i, to)
             /\ ctx.trades.overflowed = 0 /\ ctx.cancels.overflowed = 0 =>
                  \A i \in OfKind("withdrawal") : found(i) => Report(i, to) \in raised
<1> DEFINE x == Expired(ctx, to)
           c == x.cancels
           raised == SpoofingScan(x, to - ScanInterval, to)
           lo == to - ScanInterval - OppositeWindow + 1
           hi == to - OppositeWindow
           Good(o, ts) == SpoofingGates(o, ts) /\ SpoofingBenefit(x, o, ts).qty > 0
<1>1. /\ Legible(c, to)
      /\ \A p \in Positions(c) : \E i \in OfKind("withdrawal") :
           TsAt(c, p) = tape[i].ts /\ ItemAt(c, p) = tape[i].rec
      /\ ctx.cancels.overflowed = 0 =>
           \A i \in OfKind("withdrawal") : tape[i].ts >= to - History
                                             => Has(c, tape[i].ts, tape[i].rec)
  BY ScanFindsTape
<1>2. /\ OppositeWindow \in Int /\ SpoofingConfig.max_lifetime_ns \in Int
      /\ ScanInterval \in Nat \ {0} /\ History \in Int
      /\ 2 * OppositeWindow + 3 * SpoofingConfig.max_lifetime_ns + 2 * ScanInterval <= History
  BY DurationsAssumption, ScanIntervalAssumption, HistoryCovers DEF OppositeWindow
<1>3. lo \in Int /\ hi \in Int
  BY <1>2
<1>4. SpoofingAnchors(x, to - ScanInterval, to) =
        {p \in Positions(c) : lo <= TsAt(c, p) /\ TsAt(c, p) <= hi}
  <2>1. SpoofingAnchors(x, to - ScanInterval, to) = Slice(c, lo, hi)
    BY DEF SpoofingAnchors, OppositeWindow
  <2>2. QED
    BY <1>1, <1>3, <2>1 DEF Legible
<1>5. \A a : a \in raised <=>
        \E p \in Positions(c) :
          /\ lo <= TsAt(c, p) /\ TsAt(c, p) <= hi
          /\ Good(ItemAt(c, p), TsAt(c, p))
          /\ a = SpoofingAlert(x, ItemAt(c, p), TsAt(c, p), to)
  BY <1>4 DEF SpoofingScan
<1>6. ASSUME NEW i \in OfKind("withdrawal")
      PROVE  /\ tape[i].ts \in Int /\ tape[i].rec.entry_ts \in Int
             /\ ClosesBy(i, to) <=> lo <= tape[i].ts /\ tape[i].ts <= hi
  <2>1. tape[i].ts \in Int
    BY DEF OfKind, ClockInv
  <2>2. tape[i].rec.entry_ts \in Int
    BY DEF OfKind, RecordsInv, RecordOK
  <2>3. QED
    BY <1>2, <2>1, <2>2 DEF ClosesBy
<1> HIDE DEF c, raised
<1>7. ASSUME NEW a \in raised
      PROVE  \E i \in OfKind("withdrawal") :
               /\ ClosesBy(i, to) /\ Benefits(i) /\ SpoofingGates(tape[i].rec, tape[i].ts)
               /\ a = Report(i, to)
  <2>1. PICK p \in Positions(c) : /\ lo <= TsAt(c, p) /\ TsAt(c, p) <= hi
                                  /\ Good(ItemAt(c, p), TsAt(c, p))
                                  /\ a = SpoofingAlert(x, ItemAt(c, p), TsAt(c, p), to)
    BY <1>5
  <2>2. PICK i \in OfKind("withdrawal") : TsAt(c, p) = tape[i].ts /\ ItemAt(c, p) = tape[i].rec
    BY <1>1
  <2> HIDE DEF lo, hi
  <2>3. ClosesBy(i, to) /\ a = Report(i, to) /\ Good(tape[i].rec, tape[i].ts)
    BY <1>6, <2>1, <2>2 DEF Report
  <2>4. Benefits(i)
    BY <2>3, BenefitIsFound
  <2>5. QED
    BY <2>3, <2>4
<1>8. ASSUME ctx.trades.overflowed = 0, ctx.cancels.overflowed = 0,
             NEW i \in OfKind("withdrawal"), ClosesBy(i, to), Benefits(i),
             SpoofingGates(tape[i].rec, tape[i].ts)
      PROVE  Report(i, to) \in raised
  <2>1. /\ tape[i].ts \in Int /\ lo <= tape[i].ts /\ tape[i].ts <= hi
        /\ tape[i].rec.entry_ts \in Int
    BY <1>6, <1>8
  <2>2. tape[i].ts - tape[i].rec.entry_ts >= 0
        /\ tape[i].ts - tape[i].rec.entry_ts <= 3 * SpoofingConfig.max_lifetime_ns
    BY <1>8, <2>1 DEF SpoofingGates
  <2>3. OppositeWindow >= 0
    <3>1. PICK k \in OfKind("trade") : /\ tape[i].ts - OppositeWindow <= tape[k].ts
                                       /\ tape[k].ts <= tape[i].ts + OppositeWindow
      BY <1>8 DEF Benefits
    <3>2. tape[k].ts \in Int
      BY DEF OfKind, ClockInv
    <3>3. QED
      BY <1>2, <2>1, <3>1, <3>2
  <2>4. tape[i].ts >= to - History /\ tape[i].ts - OppositeWindow >= to - History
    BY <1>2, <2>1, <2>2, <2>3
  <2>5. SpoofingBenefit(x, tape[i].rec, tape[i].ts).qty > 0
    BY <1>8, <2>4, BenefitIsFound
  <2>6. PICK p \in Positions(c) : TsAt(c, p) = tape[i].ts /\ ItemAt(c, p) = tape[i].rec
    BY <1>1, <1>8, <2>4 DEF Has
  <2> HIDE DEF lo, hi
  <2>7. QED
    BY <1>5, <1>8, <2>1, <2>5, <2>6 DEF Report
<1>9. QED
  BY <1>7, <1>8 DEF raised

\* A withdrawal of the right shape by somebody who took the other side, as the
\* scan that closes its window sees it.
Guilty(i) ==
  /\ SpoofingGates(tape[i].rec, tape[i].ts)
  /\ TookOnTape(tape[i].rec.participant, Opposite(tape[i].rec.side),
                tape[i].ts - OppositeWindow, tape[i].ts + OppositeWindow,
                ClosingScan(tape[i].ts + OppositeWindow))

\* The scan that closes the window of the withdrawal i has run.
Shut(i) == tape[i].ts + OppositeWindow <= LastScan

LEMMA ClosedBy ==
  ASSUME NEW t \in Int, NEW q, OnGrid(q), t <= q
  PROVE  ClosingScan(t) <= q /\ ClosingScan(t) \in Int
<1>0. ScanInterval \in Nat \ {0} /\ q \in Int
  BY ScanIntervalAssumption DEF OnGrid
<1>1. /\ ClosingScan(t) \in Int /\ t <= ClosingScan(t) /\ ClosingScan(t) < t + ScanInterval
      /\ \A p : OnGrid(p) /\ t <= p /\ p < t + ScanInterval => p = ClosingScan(t)
  BY ClosingScanIs DEF OnGrid
<1>2. CASE q < t + ScanInterval
  BY <1>0, <1>1, <1>2
<1>3. CASE t + ScanInterval <= q
  BY <1>0, <1>1, <1>3
<1>4. QED
  BY <1>0, <1>2, <1>3

LEMMA GuiltyAt ==
  ASSUME ClockInv, NEW to, OnGrid(to), now < to, NEW i \in OfKind("withdrawal"), ClosesBy(i, to)
  PROVE  /\ ClosingScan(tape[i].ts + OppositeWindow) = to
         /\ Guilty(i) <=> Benefits(i) /\ SpoofingGates(tape[i].rec, tape[i].ts)
<1>0. /\ ScanInterval \in Nat \ {0} /\ OppositeWindow \in Int /\ to \in Int /\ now \in Int
      /\ tape[i].ts \in Int /\ \A k \in OfKind("trade") : tape[k].ts \in Int /\ tape[k].ts <= now
  <2>1. ScanInterval \in Nat \ {0} /\ to \in Int /\ now \in Int
    BY ScanIntervalAssumption DEF OnGrid, ClockInv
  <2>2. QED
    BY <2>1, OppositeWindowIsInt, TimesOnTape
<1> DEFINE t == tape[i].ts + OppositeWindow
<1>1. t \in Int /\ t <= to /\ to < t + ScanInterval
  BY <1>0 DEF ClosesBy
<1> HIDE DEF t
<1>2. ClosingScan(t) = to
  BY <1>1, ClosingScanIs
<1>3. \A k \in OfKind("trade") : tape[k].ts < to
  BY <1>0
<1>4. QED
  BY <1>2, <1>3 DEF Guilty, TookOnTape, Benefits, t

\* What the scans of one advance_scans raise.
LEMMA RaisedSpoofers ==
  ASSUME enabled = "spoofing", ClockInv, WindowsInv, WholeInv, RecordsInv, NumbersInv, started,
         NEW first, OnGrid(first), now < first, LastScan <= first, NEW until \in Int
  PROVE  LET last == NextScan(first, until) - ScanInterval
             due(i) == /\ first - ScanInterval < tape[i].ts + OppositeWindow
                       /\ tape[i].ts + OppositeWindow <= last
         IN  /\ \A a \in Raised(first, until) : \E i \in OfKind("withdrawal") :
                  a.orders = {i} /\ due(i) /\ Guilty(i)
             /\ \A a, b \in Raised(first, until) : a.orders = b.orders => a = b
             /\ ctx.trades.overflowed = 0 /\ ctx.cancels.overflowed = 0 =>
                  \A i \in OfKind("withdrawal") :
                    due(i) /\ Guilty(i) => \E a \in Raised(first, until) : a.orders = {i}
<1> DEFINE last == NextScan(first, until) - ScanInterval
           due(i) == /\ first - ScanInterval < tape[i].ts + OppositeWindow
                     /\ tape[i].ts + OppositeWindow <= last
           raised == Raised(first, until)
           P == ScanPoints(first, until)
<1>0. /\ ScanInterval \in Nat \ {0} /\ OppositeWindow \in Int /\ first \in Int /\ now \in Int
      /\ LastScan \in Int /\ last \in Int
      /\ \A i \in OfKind("withdrawal") : tape[i].ts \in Int
  <2>1. NextScan(first, until) \in Int /\ first \in Int
    BY ScansDue DEF OnGrid
  <2>2. QED
    <3>1. now \in Int /\ next_scan \in Int /\ ScanInterval \in Nat \ {0}
      BY ScanIntervalAssumption DEF ClockInv
    <3>2. LastScan \in Int
      BY <3>1 DEF LastScan
    <3>3. last \in Int
      BY <2>1, <3>1
    <3>4. QED
      BY <2>1, <3>1, <3>2, <3>3, OppositeWindowIsInt, TimesOnTape
<1>1. ASSUME NEW to \in P
      PROVE  /\ to \in Int /\ OnGrid(to) /\ first <= to /\ to <= last
             /\ LastScan <= to /\ now < to /\ now <= to
  <2>1. OnGrid(to) /\ first <= to
    BY ScansOnGrid
  <2>2. to <= last
    BY <1>0, ScansDue
  <2> HIDE DEF last, P
  <2>3. to \in Int
    BY <2>1 DEF OnGrid
  <2>4. QED
    BY <1>0, <2>1, <2>2, <2>3
<1>2. ASSUME NEW to \in P
      PROVE  /\ \A a \in Scan(Expired(ctx, to), to - ScanInterval, to) :
                  \E i \in OfKind("withdrawal") :
                    ClosesBy(i, to) /\ Guilty(i) /\ a = Report(i, to) /\ a.orders = {i}
             /\ ctx.trades.overflowed = 0 /\ ctx.cancels.overflowed = 0 =>
                  \A i \in OfKind("withdrawal") : ClosesBy(i, to) /\ Guilty(i) =>
                    /\ Report(i, to) \in Scan(Expired(ctx, to), to - ScanInterval, to)
                    /\ Report(i, to).orders = {i}
  <2>1. Scan(Expired(ctx, to), to - ScanInterval, to)
          = SpoofingScan(Expired(ctx, to), to - ScanInterval, to)
    BY DEF Scan
  <2>2. \A i \in OfKind("withdrawal") : Report(i, to).orders = {i}
    BY DEF Report, SpoofingAlert, NumbersInv
  <2>3. \A i \in OfKind("withdrawal") : ClosesBy(i, to) =>
          (Guilty(i) <=> Benefits(i) /\ SpoofingGates(tape[i].rec, tape[i].ts))
    BY <1>1, GuiltyAt
  <2> HIDE DEF P
  <2>4. /\ \A a \in SpoofingScan(Expired(ctx, to), to - ScanInterval, to) :
             \E i \in OfKind("withdrawal") :
               /\ ClosesBy(i, to) /\ Benefits(i) /\ SpoofingGates(tape[i].rec, tape[i].ts)
               /\ a = Report(i, to)
        /\ ctx.trades.overflowed = 0 /\ ctx.cancels.overflowed = 0 =>
             \A i \in OfKind("withdrawal") :
               ClosesBy(i, to) /\ Benefits(i) /\ SpoofingGates(tape[i].rec, tape[i].ts) =>
                 Report(i, to) \in SpoofingScan(Expired(ctx, to), to - ScanInterval, to)
    BY <1>1, SpoofingReads
  <2>5. QED
    BY <2>1, <2>2, <2>3, <2>4
<1>3. \A a : a \in raised <=> \E to \in P : a \in Scan(Expired(ctx, to), to - ScanInterval, to)
  BY DEF Raised
<1>4. ASSUME NEW to \in P, NEW i \in OfKind("withdrawal"), ClosesBy(i, to) PROVE due(i)
  <2> HIDE DEF P, last
  <2>1. QED
    BY <1>0, <1>1, <1>4 DEF ClosesBy
<1>5. ASSUME NEW a \in raised
      PROVE  \E i \in OfKind("withdrawal") : a.orders = {i} /\ due(i) /\ Guilty(i)
  <2>1. PICK to \in P : a \in Scan(Expired(ctx, to), to - ScanInterval, to)
    BY <1>3
  <2>2. PICK i \in OfKind("withdrawal") :
          ClosesBy(i, to) /\ Guilty(i) /\ a = Report(i, to) /\ a.orders = {i}
    BY <1>2, <2>1
  <2> HIDE DEF P, due
  <2>3. QED
    BY <1>4, <2>2
<1>6. ASSUME NEW a \in raised, NEW b \in raised, a.orders = b.orders PROVE a = b
  <2>1. PICK to \in P : a \in Scan(Expired(ctx, to), to - ScanInterval, to)
    BY <1>3
  <2>2. PICK i \in OfKind("withdrawal") :
          ClosesBy(i, to) /\ a = Report(i, to) /\ a.orders = {i}
    BY <1>2, <2>1
  <2>3. PICK at \in P : b \in Scan(Expired(ctx, at), at - ScanInterval, at)
    BY <1>3
  <2>4. PICK j \in OfKind("withdrawal") :
          ClosesBy(j, at) /\ b = Report(j, at) /\ b.orders = {j}
    BY <1>2, <2>3
  <2>5. i = j
    BY <1>6, <2>2, <2>4
  <2> HIDE DEF P
  <2>6. to = ClosingScan(tape[i].ts + OppositeWindow)
    BY <1>1, <2>2, GuiltyAt
  <2>7. at = ClosingScan(tape[i].ts + OppositeWindow)
    BY <1>1, <2>4, <2>5, GuiltyAt
  <2>8. QED
    BY <2>2, <2>4, <2>5, <2>6, <2>7
<1>7. ASSUME ctx.trades.overflowed = 0, ctx.cancels.overflowed = 0,
             NEW i \in OfKind("withdrawal"), due(i), Guilty(i)
      PROVE  \E a \in raised : a.orders = {i}
  <2> DEFINE t == tape[i].ts + OppositeWindow
             to == ClosingScan(t)
  <2>1. t \in Int /\ first - ScanInterval < t /\ t <= last
    BY <1>0, <1>7
  <2>2. OnGrid(NextScan(first, until)) /\ OnGrid(last)
    BY ScansOnGrid
  <2> HIDE DEF t, last
  <2>3. OnGrid(to) /\ t <= to /\ to < t + ScanInterval /\ to <= last /\ to \in Int
    BY <2>1, <2>2, ClosingScanIs, ClosedBy
  <2>4. first <= to
    <3>1. to > first - ScanInterval
      BY <1>0, <2>1, <2>3
    <3>2. QED
      BY <2>3, <3>1, ScansOnGrid
  <2>5. to <= until
    <3>1. first <= last
      BY <1>0, <2>3, <2>4
    <3>2. CASE until < first
      <4>1. last = first - ScanInterval
        BY <1>0, <3>2, ScansDue DEF NextScan, last
      <4>2. QED
        BY <1>0, <3>1, <4>1
    <3>3. CASE first <= until
      <4>1. last \in P
        BY <1>0, <3>3, ScansDue DEF last
      <4>2. last <= until
        BY <4>1, ScansOnGrid
      <4>3. QED
        BY <1>0, <2>3, <4>2
    <3>4. QED
      BY <1>0, <3>2, <3>3
  <2>6. to \in P
    BY <2>3, <2>4, <2>5, ScansOnGrid
  <2> HIDE DEF P
  <2>7. ClosesBy(i, to)
    <3>1. to - ScanInterval < t
      BY <1>0, <2>1, <2>3
    <3> HIDE DEF to
    <3>2. QED
      BY <2>3, <3>1 DEF ClosesBy, t
  <2> HIDE DEF to
  <2>8. /\ Report(i, to) \in Scan(Expired(ctx, to), to - ScanInterval, to)
        /\ Report(i, to).orders = {i}
    BY <1>2, <1>7, <2>6, <2>7
  <2>9. QED
    BY <1>3, <2>6, <2>8
<1> HIDE DEF raised, last
<1>8. QED
  BY <1>5, <1>6, <1>7 DEF raised, last

(***************************************************************************)
(* An alert is about one guilty withdrawal whose window is shut, no two    *)
(* are about the same one, and with nothing given up each has one.         *)
(***************************************************************************)
SpoofersInv ==
  enabled = "spoofing" =>
    /\ \A a \in alerts : \E i \in OfKind("withdrawal") : a.orders = {i} /\ Shut(i) /\ Guilty(i)
    /\ \A a, b \in alerts : a.orders = b.orders => a = b
    /\ ctx.trades.overflowed = 0 /\ ctx.cancels.overflowed = 0 =>
         \A i \in OfKind("withdrawal") :
           Shut(i) /\ Guilty(i) => \E a \in alerts : a.orders = {i}

\* Guilt does not change any more once its scan has run.
LEMMA GuiltStays ==
  ASSUME ClockInv, NEW e, ArrivingOK(e), tape' = Append(tape, e),
         NEW i \in OfKind("withdrawal")
  PROVE  /\ i \in OfKind("withdrawal")' /\ tape'[i] = tape[i]
         /\ Guilty(i) => Guilty(i)'
         /\ ClosingScan(tape[i].ts + OppositeWindow) <= e.ts
            /\ ClosingScan(tape[i].ts + OppositeWindow) \in Int /\ Guilty(i)' => Guilty(i)
<1> DEFINE n == Len(tape) + 1
<1>1. /\ DOMAIN tape' = DOMAIN tape \cup {n} /\ n \notin DOMAIN tape
      /\ \A k \in DOMAIN tape : tape'[k] = tape[k]
      /\ tape'[n] = e
  BY TapeGrows
<1> HIDE DEF n
<1>2. /\ i \in OfKind("withdrawal")' /\ tape'[i] = tape[i] /\ i \in DOMAIN tape
      /\ \A k \in OfKind("trade") : k \in OfKind("trade")' /\ tape'[k] = tape[k]
      /\ \A k \in OfKind("trade")' : k = n \/ (k \in OfKind("trade") /\ tape'[k] = tape[k])
  BY <1>1 DEF OfKind
<1> DEFINE pid == tape[i].rec.participant
           dir == Opposite(tape[i].rec.side)
           lo == tape[i].ts - OppositeWindow
           hi == tape[i].ts + OppositeWindow
           to == ClosingScan(tape[i].ts + OppositeWindow)
           Takes(t, k) == /\ t[k].rec.taker = pid /\ t[k].rec.aggressor = dir
                          /\ lo <= t[k].ts /\ t[k].ts <= hi /\ t[k].ts < to
<1>3. Guilty(i) <=> /\ SpoofingGates(tape[i].rec, tape[i].ts)
                    /\ \E k \in OfKind("trade") : Takes(tape, k)
  BY DEF Guilty, TookOnTape
<1>4. Guilty(i)' <=> /\ SpoofingGates(tape[i].rec, tape[i].ts)
                     /\ \E k \in OfKind("trade")' : Takes(tape', k)
  BY <1>2 DEF Guilty, TookOnTape, OppositeWindow, ClosingScan, SpoofingGates
<1> HIDE DEF pid, dir, lo, hi, to
<1>5. Guilty(i) => Guilty(i)'
  BY <1>2, <1>3, <1>4
<1>6. ASSUME to <= e.ts, to \in Int, Guilty(i)' PROVE Guilty(i)
  <2>1. PICK k \in OfKind("trade")' : Takes(tape', k)
    BY <1>4, <1>6
  <2>2. k # n
    <3>1. e.ts \in Int
      BY DEF ArrivingOK
    <3>2. tape'[k].ts < to
      BY <2>1
    <3>3. QED
      BY <1>1, <1>6, <3>1, <3>2
  <2>3. QED
    BY <1>2, <1>3, <1>4, <1>6, <2>1, <2>2
<1>7. QED
  BY <1>2, <1>5, <1>6 DEF to

LEMMA SpoofersThroughApply ==
  ASSUME ClockInv, ClockInv', WindowsInv, WholeInv, RecordsInv, NumbersInv, GridInv, GridInv',
         SpoofersInv, StillDisplaced, NEW e, ArrivingOK(e), Apply(e), enabled = "spoofing"
  PROVE  SpoofersInv'
<1> DEFINE first == IF started THEN next_scan ELSE e.ts + ScanInterval
           raised == Raised(first, e.ts)
           n == Len(tape) + 1
           Close(i) == ClosingScan(tape[i].ts + OppositeWindow)
<1>1. /\ alerts' = alerts \cup raised /\ ~finished /\ tape' = Append(tape, e)
      /\ next_scan' = NextScan(first, e.ts) /\ started' = TRUE /\ finished' = FALSE
      /\ enabled' = "spoofing" /\ now' = e.ts
  BY DEF Apply
<1>2. /\ OnGrid(first) /\ first \in Int /\ e.ts \in Int
      /\ started => now < first /\ LastScan <= first
      /\ ~started => e.ts < first
  BY <1>1, FirstOnGrid
<1>3. /\ DOMAIN tape' = DOMAIN tape \cup {n} /\ n \notin DOMAIN tape
      /\ \A i \in DOMAIN tape : tape'[i] = tape[i]
      /\ tape'[n] = e
  BY <1>1, TapeGrows
<1>0. /\ ScanInterval \in Nat \ {0} /\ OppositeWindow \in Int /\ LastScan \in Int
      /\ LastScan' \in Int /\ LastScan' <= e.ts /\ OnGrid(LastScan')
      /\ LastScan' = NextScan(first, e.ts) - ScanInterval
      /\ \A i \in OfKind("withdrawal") : tape[i].ts \in Int
  <2>1. ScanInterval \in Nat \ {0} /\ OppositeWindow \in Int
    BY ScanIntervalAssumption, DurationsAssumption DEF OppositeWindow
  <2>2. LastScan \in Int /\ LastScan' \in Int /\ LastScan' <= e.ts
    BY <1>1, <2>1 DEF ClockInv, LastScan
  <2>3. LastScan' = next_scan' - ScanInterval
    BY DEF LastScan
  <2>4. OnGrid(next_scan')
    BY <1>1, <1>2, ScansOnGrid
  <2>5. OnGrid(next_scan' - ScanInterval)
    BY <2>4, <1>2, ScansOnGrid
  <2>6. \A i \in OfKind("withdrawal") : tape[i].ts \in Int
    BY DEF ClockInv, OfKind
  <2>7. QED
    BY <1>1, <2>1, <2>2, <2>3, <2>5, <2>6
<1>4. ~started => raised = {} /\ OfKind("withdrawal") = {} /\ alerts = {}
  <2> SUFFICES ASSUME ~started PROVE raised = {} /\ OfKind("withdrawal") = {} /\ alerts = {}
    OBVIOUS
  <2>1. ScanPoints(first, e.ts) = {}
    BY <1>2, ScansDue
  <2>2. DOMAIN tape = {}
    BY DEF ClockInv
  <2>3. OfKind("withdrawal") = {}
    BY <2>2 DEF OfKind
  <2>4. QED
    BY <2>1, <2>3 DEF Raised, SpoofersInv
<1> DEFINE due(i) == /\ LastScan < tape[i].ts + OppositeWindow
                     /\ tape[i].ts + OppositeWindow <= LastScan'
<1>5. /\ \A a \in raised : \E i \in OfKind("withdrawal") : a.orders = {i} /\ due(i) /\ Guilty(i)
      /\ \A a, b \in raised : a.orders = b.orders => a = b
      /\ ctx.trades.overflowed = 0 /\ ctx.cancels.overflowed = 0 =>
           \A i \in OfKind("withdrawal") :
             due(i) /\ Guilty(i) => \E a \in raised : a.orders = {i}
  <2>1. CASE started
    <3>1. first - ScanInterval = LastScan
      BY <2>1 DEF LastScan
    <3>2. now < first /\ LastScan <= first
      BY <1>2, <2>1
    <3>3. LastScan' = NextScan(first, e.ts) - ScanInterval
      BY <1>0
    <3> HIDE DEF first
    <3> DEFINE late(i) == /\ first - ScanInterval < tape[i].ts + OppositeWindow
                          /\ tape[i].ts + OppositeWindow <= NextScan(first, e.ts) - ScanInterval
    <3>4. /\ \A a \in Raised(first, e.ts) : \E i \in OfKind("withdrawal") :
               a.orders = {i} /\ late(i) /\ Guilty(i)
          /\ \A a, b \in Raised(first, e.ts) : a.orders = b.orders => a = b
          /\ ctx.trades.overflowed = 0 /\ ctx.cancels.overflowed = 0 =>
               \A i \in OfKind("withdrawal") :
                 late(i) /\ Guilty(i) => \E a \in Raised(first, e.ts) : a.orders = {i}
      BY <1>2, <2>1, <3>2, RaisedSpoofers
    <3>5. \A i : late(i) <=> due(i)
      BY <3>1, <3>3
    <3> HIDE DEF late, due
    <3>6. QED
      BY <3>4, <3>5
  <2>2. CASE ~started
    BY <1>4, <2>2
  <2>3. QED
    BY <2>1, <2>2
<1> HIDE DEF first, raised, n
<1>6. ASSUME NEW i \in OfKind("withdrawal")
      PROVE  /\ i \in OfKind("withdrawal")' /\ tape'[i] = tape[i]
             /\ Guilty(i) => Guilty(i)'
             /\ Close(i) <= e.ts /\ Close(i) \in Int /\ Guilty(i)' => Guilty(i)
             /\ Shut(i) <=> tape[i].ts + OppositeWindow <= LastScan
             /\ Shut(i)' <=> tape[i].ts + OppositeWindow <= LastScan'
  <2>1. /\ i \in OfKind("withdrawal")' /\ tape'[i] = tape[i]
        /\ Guilty(i) => Guilty(i)'
        /\ Close(i) <= e.ts /\ Close(i) \in Int /\ Guilty(i)' => Guilty(i)
    BY <1>1, GuiltStays
  <2>2. Shut(i)' <=> tape[i].ts + OppositeWindow <= LastScan'
    BY <2>1 DEF Shut, OppositeWindow
  <2>3. Shut(i) <=> tape[i].ts + OppositeWindow <= LastScan
    BY DEF Shut
  <2>4. QED
    BY <2>1, <2>2, <2>3
<1>7. LastScan <= LastScan' \/ ~started
  <2>1. CASE started
    <3>1. next_scan' = NextScan(next_scan, e.ts) /\ next_scan \in Int /\ next_scan' \in Int
      BY <1>1, <2>1 DEF ClockInv, first
    <3>2. next_scan <= next_scan'
      <4>1. CASE e.ts < next_scan
        BY <1>2, <3>1, <4>1, ScansDue DEF NextScan
      <4>2. CASE next_scan <= e.ts
        <5>1. e.ts \in Int /\ next_scan \in Int
          BY <1>2, <3>1
        <5>2. NextScan(next_scan, e.ts) > e.ts
          BY <4>2, <5>1, ScansDue
        <5>3. QED
          BY <3>1, <4>2, <5>1, <5>2
      <4>3. QED
        BY <1>2, <3>1, <4>1, <4>2
    <3>3. LastScan = next_scan - ScanInterval /\ LastScan' = next_scan' - ScanInterval
      BY DEF LastScan
    <3>4. QED
      BY <1>0, <3>1, <3>2, <3>3
  <2>2. QED
    BY <2>1
<1>8. ASSUME NEW a \in alerts'
      PROVE  \E i \in OfKind("withdrawal")' : a.orders = {i} /\ Shut(i)' /\ Guilty(i)'
  <2>1. CASE a \in alerts
    <3>1. PICK i \in OfKind("withdrawal") : a.orders = {i} /\ Shut(i) /\ Guilty(i)
      BY <2>1 DEF SpoofersInv
    <3>2. started
      BY <1>4, <2>1
    <3>3. Shut(i)'
      <4>1. tape[i].ts + OppositeWindow \in Int /\ tape[i].ts + OppositeWindow <= LastScan
        BY <1>0, <1>6, <3>1
      <4>2. LastScan <= LastScan' /\ LastScan \in Int /\ LastScan' \in Int
        BY <1>0, <1>7, <3>2
      <4>3. tape[i].ts + OppositeWindow <= LastScan'
        BY <4>1, <4>2
      <4>4. QED
        BY <1>6, <4>3
    <3>4. QED
      BY <1>6, <3>1, <3>3
  <2>2. CASE a \in raised
    <3>1. PICK i \in OfKind("withdrawal") : a.orders = {i} /\ due(i) /\ Guilty(i)
      BY <1>5, <2>2
    <3>2. QED
      BY <1>6, <3>1
  <2>3. QED
    BY <1>1, <2>1, <2>2
<1>9. ASSUME NEW a \in alerts', NEW b \in alerts', a.orders = b.orders PROVE a = b
  <2>1. ASSUME NEW x \in alerts, NEW y \in raised PROVE x.orders # y.orders
    <3>1. PICK i \in OfKind("withdrawal") : x.orders = {i} /\ Shut(i)
      BY DEF SpoofersInv
    <3>2. PICK j \in OfKind("withdrawal") : y.orders = {j} /\ due(j)
      BY <1>5
    <3>3. i # j
      <4> SUFFICES ASSUME i = j PROVE FALSE
        OBVIOUS
      <4>1. /\ tape[i].ts + OppositeWindow <= LastScan /\ LastScan < tape[i].ts + OppositeWindow
            /\ tape[i].ts + OppositeWindow \in Int
        BY <1>0, <1>6, <3>1, <3>2
      <4>2. QED
        BY <1>0, <4>1
    <3>4. QED
      BY <3>1, <3>2, <3>3
  <2>2. a \in alerts \/ a \in raised
    BY <1>1
  <2>3. b \in alerts \/ b \in raised
    BY <1>1
  <2>4. CASE a \in alerts /\ b \in alerts
    BY <1>9, <2>4 DEF SpoofersInv
  <2>5. CASE a \in raised /\ b \in raised
    BY <1>5, <1>9, <2>5
  <2>6. QED
    BY <1>9, <2>1, <2>2, <2>3, <2>4, <2>5
<1>10. ASSUME ctx'.trades.overflowed = 0, ctx'.cancels.overflowed = 0,
              NEW i \in OfKind("withdrawal")', Shut(i)', Guilty(i)'
       PROVE  \E a \in alerts' : a.orders = {i}
  <2>1. ctx.trades.overflowed = 0 /\ ctx.cancels.overflowed = 0
    BY <1>10 DEF StillDisplaced
  <2>2. CASE i \in OfKind("withdrawal")
    <3> DEFINE t == tape[i].ts + OppositeWindow
    <3>1. t \in Int /\ t <= LastScan'
      BY <1>0, <1>6, <1>10, <2>2
    <3>2. Close(i) <= LastScan' /\ Close(i) \in Int
      <4> HIDE DEF t
      <4>1. ClosingScan(t) <= LastScan' /\ ClosingScan(t) \in Int
        BY <1>0, <3>1, ClosedBy
      <4>2. QED
        BY <4>1 DEF t
    <3>3. Close(i) <= e.ts
      <4> HIDE DEF Close
      <4>1. QED
        BY <1>0, <1>2, <3>2
    <3> HIDE DEF Close
    <3>4. Guilty(i)
      BY <1>6, <1>10, <2>2, <3>2, <3>3
    <3>5. CASE Shut(i)
      <4>1. \E a \in alerts : a.orders = {i}
        BY <2>1, <2>2, <3>4, <3>5 DEF SpoofersInv
      <4>2. QED
        BY <1>1, <4>1
    <3>6. CASE ~Shut(i)
      <4>1. due(i)
        <5>1. LastScan < t
          BY <1>0, <1>6, <2>2, <3>1, <3>6
        <5>2. QED
          BY <3>1, <5>1
      <4>2. \E a \in raised : a.orders = {i}
        BY <1>5, <2>1, <2>2, <3>4, <4>1
      <4>3. QED
        BY <1>1, <4>2
    <3>7. QED
      BY <3>5, <3>6
  <2>3. CASE i \notin OfKind("withdrawal")
    <3>1. i = n
      BY <1>3, <2>3 DEF OfKind
    <3>2. tape'[i] = e
      BY <1>3, <3>1
    <3>3. e.ts + OppositeWindow <= LastScan'
      BY <1>10, <3>2 DEF Shut, OppositeWindow
    <3>4. PICK k \in OfKind("trade")' : /\ e.ts - OppositeWindow <= tape'[k].ts
                                        /\ tape'[k].ts < ClosingScan(e.ts + OppositeWindow)
      BY <1>10, <3>2 DEF Guilty, TookOnTape, OppositeWindow, ClosingScan
    <3>5. tape'[k].ts \in Int
      BY DEF OfKind, ClockInv
    <3>6. /\ ClosingScan(e.ts + OppositeWindow) <= LastScan'
          /\ ClosingScan(e.ts + OppositeWindow) \in Int
      <4>1. e.ts + OppositeWindow \in Int
        BY <1>0, <1>2
      <4>2. QED
        BY <1>0, <3>3, <4>1, ClosedBy
    <3>7. QED
      BY <1>0, <1>2, <3>3, <3>4, <3>5, <3>6
  <2>4. QED
    BY <2>2, <2>3
<1> HIDE DEF Close
<1>11. QED
  BY <1>8, <1>9, <1>10 DEF SpoofersInv

LEMMA SpoofersThroughFinish ==
  ASSUME ClockInv, ClockInv', WindowsInv, WholeInv, RecordsInv, NumbersInv, GridInv,
         SpoofersInv, StillDisplaced, Finish, started, enabled = "spoofing"
  PROVE  SpoofersInv'
<1> DEFINE until == now + History
           raised == Raised(next_scan, until)
<1>1. /\ alerts' = alerts \cup raised /\ ~finished /\ tape' = tape
      /\ next_scan' = NextScan(next_scan, until) /\ enabled' = "spoofing"
  BY DEF Finish
<1>2. /\ OnGrid(next_scan) /\ next_scan \in Int /\ next_scan' \in Int /\ until \in Int
      /\ now < next_scan /\ LastScan <= next_scan
      /\ ScanInterval \in Nat \ {0} /\ LastScan = next_scan - ScanInterval
      /\ LastScan' = next_scan' - ScanInterval
  BY <1>1, HistoryIsInt, ScanIntervalAssumption DEF ClockInv, GridInv, LastScan
<1> HIDE DEF until
<1> DEFINE due(i) == /\ LastScan < tape[i].ts + OppositeWindow
                     /\ tape[i].ts + OppositeWindow <= LastScan'
<1>3. /\ \A a \in raised : \E i \in OfKind("withdrawal") : a.orders = {i} /\ due(i) /\ Guilty(i)
      /\ \A a, b \in raised : a.orders = b.orders => a = b
      /\ ctx.trades.overflowed = 0 /\ ctx.cancels.overflowed = 0 =>
           \A i \in OfKind("withdrawal") :
             due(i) /\ Guilty(i) => \E a \in raised : a.orders = {i}
  <2> DEFINE late(i) == /\ next_scan - ScanInterval < tape[i].ts + OppositeWindow
                        /\ tape[i].ts + OppositeWindow <= NextScan(next_scan, until) - ScanInterval
  <2>1. /\ \A a \in Raised(next_scan, until) : \E i \in OfKind("withdrawal") :
             a.orders = {i} /\ late(i) /\ Guilty(i)
        /\ \A a, b \in Raised(next_scan, until) : a.orders = b.orders => a = b
        /\ ctx.trades.overflowed = 0 /\ ctx.cancels.overflowed = 0 =>
             \A i \in OfKind("withdrawal") :
               late(i) /\ Guilty(i) => \E a \in Raised(next_scan, until) : a.orders = {i}
    BY <1>2, RaisedSpoofers
  <2>2. \A i : late(i) <=> due(i)
    BY <1>1, <1>2
  <2> HIDE DEF late, due
  <2>3. QED
    BY <2>1, <2>2
<1>4. /\ OfKind("withdrawal")' = OfKind("withdrawal")
      /\ \A i \in OfKind("withdrawal") : /\ Guilty(i)' <=> Guilty(i)
                                         /\ Shut(i) <=> tape[i].ts + OppositeWindow <= LastScan
                                         /\ Shut(i)' <=> tape[i].ts + OppositeWindow <= LastScan'
                                         /\ tape[i].ts + OppositeWindow \in Int
  <2>1. OfKind("withdrawal")' = OfKind("withdrawal") /\ OfKind("trade")' = OfKind("trade")
    BY <1>1 DEF OfKind
  <2>2. \A i \in OfKind("withdrawal") : Guilty(i)' <=> Guilty(i)
    BY <1>1, <2>1 DEF Guilty, TookOnTape, OppositeWindow, ClosingScan, SpoofingGates
  <2>3. \A i \in OfKind("withdrawal") :
             /\ Shut(i) <=> tape[i].ts + OppositeWindow <= LastScan
             /\ Shut(i)' <=> tape[i].ts + OppositeWindow <= LastScan'
    BY <1>1 DEF Shut, OppositeWindow
  <2>4. \A i \in OfKind("withdrawal") : tape[i].ts + OppositeWindow \in Int
    BY OppositeWindowIsInt, TimesOnTape
  <2>5. QED
    BY <2>1, <2>2, <2>3, <2>4
<1>5. LastScan <= LastScan' /\ LastScan \in Int /\ LastScan' \in Int
  <2>1. next_scan <= next_scan'
    <3>1. CASE until < next_scan
      BY <1>1, <1>2, <3>1, ScansDue DEF NextScan
    <3>2. CASE next_scan <= until
      <4>1. next_scan' > until
        BY <1>1, <1>2, <3>2, ScansDue
      <4>2. QED
        BY <1>2, <3>2, <4>1
    <3>3. QED
      BY <1>2, <3>1, <3>2
  <2>2. \A x, y \in Int : x <= y => x - ScanInterval <= y - ScanInterval
    BY <1>2
  <2>3. LastScan = next_scan - ScanInterval /\ LastScan' = next_scan' - ScanInterval
    BY DEF LastScan
  <2>4. LastScan \in Int /\ LastScan' \in Int
    BY <1>2, <2>3
  <2>5. QED
    BY <1>2, <2>1, <2>2, <2>3, <2>4
<1> HIDE DEF raised
<1>6. ASSUME NEW a \in alerts'
      PROVE  \E i \in OfKind("withdrawal")' : a.orders = {i} /\ Shut(i)' /\ Guilty(i)'
  <2>1. CASE a \in alerts
    <3>1. PICK i \in OfKind("withdrawal") : a.orders = {i} /\ Shut(i) /\ Guilty(i)
      BY <2>1 DEF SpoofersInv
    <3>2. /\ tape[i].ts + OppositeWindow \in Int /\ tape[i].ts + OppositeWindow <= LastScan
      BY <1>4, <3>1
    <3>3. tape[i].ts + OppositeWindow <= LastScan'
      BY <1>5, <3>2
    <3>4. QED
      BY <1>4, <3>1, <3>3
  <2>2. CASE a \in raised
    BY <1>3, <1>4, <2>2
  <2>3. QED
    BY <1>1, <2>1, <2>2
<1>7. ASSUME NEW a \in alerts', NEW b \in alerts', a.orders = b.orders PROVE a = b
  <2>1. ASSUME NEW x \in alerts, NEW y \in raised PROVE x.orders # y.orders
    <3>1. PICK i \in OfKind("withdrawal") : x.orders = {i} /\ Shut(i)
      BY DEF SpoofersInv
    <3>2. PICK j \in OfKind("withdrawal") : y.orders = {j} /\ due(j)
      BY <1>3
    <3>3. i # j
      <4> SUFFICES ASSUME i = j PROVE FALSE
        OBVIOUS
      <4>1. /\ tape[i].ts + OppositeWindow <= LastScan /\ LastScan < tape[i].ts + OppositeWindow
            /\ tape[i].ts + OppositeWindow \in Int
        BY <1>4, <3>1, <3>2
      <4>2. QED
        BY <1>5, <4>1
    <3>4. QED
      BY <3>1, <3>2, <3>3
  <2>2. a \in alerts \/ a \in raised
    BY <1>1
  <2>3. b \in alerts \/ b \in raised
    BY <1>1
  <2>4. CASE a \in alerts /\ b \in alerts
    BY <1>7, <2>4 DEF SpoofersInv
  <2>5. CASE a \in raised /\ b \in raised
    BY <1>3, <1>7, <2>5
  <2>6. QED
    BY <1>7, <2>1, <2>2, <2>3, <2>4, <2>5
<1>8. ASSUME ctx'.trades.overflowed = 0, ctx'.cancels.overflowed = 0,
             NEW i \in OfKind("withdrawal"), Shut(i)', Guilty(i)'
      PROVE  \E a \in alerts' : a.orders = {i}
  <2>1. ctx.trades.overflowed = 0 /\ ctx.cancels.overflowed = 0
    BY <1>8 DEF StillDisplaced
  <2>2. Guilty(i) /\ tape[i].ts + OppositeWindow <= LastScan'
    BY <1>4, <1>8
  <2>3. CASE Shut(i)
    <3>1. \E a \in alerts : a.orders = {i}
      BY <2>1, <2>2, <2>3 DEF SpoofersInv
    <3>2. QED
      BY <1>1, <3>1
  <2>4. CASE ~Shut(i)
    <3>1. due(i)
      <4>1. LastScan < tape[i].ts + OppositeWindow
        BY <1>4, <1>5, <2>4
      <4>2. QED
        BY <2>2, <4>1
    <3>2. \E a \in raised : a.orders = {i}
      BY <1>3, <2>1, <2>2, <3>1
    <3>3. QED
      BY <1>1, <3>2
  <2>5. QED
    BY <2>3, <2>4
<1>9. QED
  BY <1>4, <1>6, <1>7, <1>8 DEF SpoofersInv

LEMMA SpoofersKept ==
  ASSUME ClockInv, ClockInv', WindowsInv, WholeInv, RecordsInv, NumbersInv, GridInv, GridInv',
         SpoofersInv, [Next]_vars
  PROVE  SpoofersInv'
<1>0. StillDisplaced /\ enabled' = enabled
  <2>1. enabled' = enabled
    BY StepsApply DEF Apply, Finish, vars
  <2>2. QED
    BY <2>1, WholeKept
<1>1. CASE enabled # "spoofing"
  BY <1>0, <1>1 DEF SpoofersInv
<1>2. CASE enabled = "spoofing" /\ Finish /\ started
  BY <1>0, <1>2, SpoofersThroughFinish
<1>3. CASE enabled = "spoofing" /\ \E e : ArrivingOK(e) /\ Apply(e)
  BY <1>0, <1>3, SpoofersThroughApply
<1>4. ASSUME UNCHANGED <<alerts, ctx, tape, next_scan>> PROVE SpoofersInv'
  <2>1. /\ alerts' = alerts /\ ctx' = ctx
        /\ OfKind("withdrawal")' = OfKind("withdrawal") /\ OfKind("trade")' = OfKind("trade")
        /\ tape' = tape /\ LastScan' = LastScan
    BY <1>4 DEF OfKind, LastScan
  <2>2. \A i \in OfKind("withdrawal") : (Guilty(i)' <=> Guilty(i)) /\ (Shut(i)' <=> Shut(i))
    BY <2>1 DEF Guilty, TookOnTape, OppositeWindow, ClosingScan, SpoofingGates, Shut
  <2>3. QED
    BY <1>0, <2>1, <2>2 DEF SpoofersInv
<1>5. CASE Finish /\ ~started
  BY <1>4, <1>5 DEF Finish
<1>6. CASE UNCHANGED vars
  BY <1>4, <1>6 DEF vars
<1>7. QED
  BY <1>1, <1>2, <1>3, <1>5, <1>6, StepsApply

(***************************************************************************)
(* A spoofer is reported by exactly one scan and nobody else is, for every *)
(* configuration and every tape, as long as no window had to give up an    *)
(* entry for room.                                                         *)
(***************************************************************************)
THEOREM SpoofersReportedOnceCorrect == Spec => []SpoofersReportedOnce
<1>1. Init => RecordsInv /\ NumbersInv /\ GridInv /\ SpoofersInv
  <2> SUFFICES ASSUME Init PROVE RecordsInv /\ NumbersInv /\ GridInv /\ SpoofersInv
    OBVIOUS
  <2>1. DOMAIN tape = {} /\ alerts = {} /\ ~started
    BY DEF Init
  <2>2. OfKind("withdrawal") = {}
    BY <2>1 DEF OfKind
  <2>3. QED
    BY <2>1, <2>2 DEF RecordsInv, NumbersInv, GridInv, SpoofersInv
<1>2. /\ ClockInv /\ ClockInv' /\ WindowsInv /\ WholeInv
      /\ RecordsInv /\ NumbersInv /\ GridInv /\ SpoofersInv /\ [Next]_vars
      => RecordsInv' /\ NumbersInv' /\ GridInv' /\ SpoofersInv'
  BY RecordsKept, NumbersKept, GridKept, SpoofersKept
<1>3. ClockInv /\ NumbersInv /\ SpoofersInv => SpoofersReportedOnce
  <2> SUFFICES ASSUME ClockInv, NumbersInv, SpoofersInv, enabled = "spoofing", NothingDisplaced,
                      NEW i \in OfKind("withdrawal"), Shut(i)
               PROVE  Cardinality({a \in alerts : i \in a.orders}) = IF Guilty(i) THEN 1 ELSE 0
    BY DEF SpoofersReportedOnce, Guilty, Shut, OppositeWindow, NumbersInv
  <2> DEFINE S == {a \in alerts : i \in a.orders}
  <2>1. /\ \A a \in alerts : i \in a.orders => a.orders = {i} /\ Guilty(i)
        /\ \A a, b \in alerts : a.orders = b.orders => a = b
        /\ Guilty(i) => \E a \in alerts : a.orders = {i}
    BY DEF SpoofersInv, NothingDisplaced
  <2>2. CASE Guilty(i)
    <3>1. PICK a \in alerts : a.orders = {i}
      BY <2>1, <2>2
    <3>2. S = {a}
      BY <2>1, <3>1
    <3> HIDE DEF S
    <3>3. Cardinality(S) = 1
      BY <3>2, FS_Singleton
    <3>4. QED
      BY <2>2, <3>3 DEF S
  <2>3. CASE ~Guilty(i)
    <3>1. S = {}
      BY <2>1, <2>3
    <3> HIDE DEF S
    <3>2. Cardinality(S) = 0
      BY <3>1, FS_EmptySet
    <3>3. QED
      BY <2>3, <3>2 DEF S
  <2>4. QED
    BY <2>2, <2>3
<1>4. QED
  BY <1>1, <1>2, <1>3, WindowsInvariant, WholeInvariant, PTL DEF Spec

-----------------------------------------------------------------------------
(***************************************************************************)
(* A step, as the reports see it: the scan points it passes, and what it   *)
(* adds to the tape.                                                       *)
(***************************************************************************)
ScanAt(p) == Scan(Expired(ctx, p), p - ScanInterval, p)

\* The points advance_scans walks through from the next scan on.
LEMMA PointsPassed ==
  ASSUME ClockInv, GridInv, started, NEW until \in Int
  PROVE  LET last == NextScan(next_scan, until) - ScanInterval IN
         /\ last \in Int /\ LastScan \in Int /\ LastScan <= last
         /\ \A p : OnGrid(p) /\ LastScan < p /\ p <= last => p \in ScanPoints(next_scan, until)
         /\ \A p \in ScanPoints(next_scan, until) :
              OnGrid(p) /\ LastScan < p /\ p <= last /\ next_scan <= p
<1> DEFINE last == NextScan(next_scan, until) - ScanInterval
           P == ScanPoints(next_scan, until)
<1>1. /\ ScanInterval \in Nat \ {0} /\ next_scan \in Int /\ OnGrid(next_scan)
      /\ NextScan(next_scan, until) \in Int
      /\ LastScan = next_scan - ScanInterval
  <2>1. next_scan \in Int /\ ScanInterval \in Nat \ {0}
    BY ScanIntervalAssumption DEF ClockInv
  <2>2. QED
    BY <2>1, ScansDue DEF GridInv, LastScan
<1>2. /\ \A t : t \in P <=> OnGrid(t) /\ next_scan <= t /\ t <= until
      /\ \A t : OnGrid(t) /\ t > next_scan - ScanInterval => next_scan <= t
  BY <1>1, ScansOnGrid
<1>3. CASE until < next_scan
  <2>1. P = {} /\ last = LastScan
    BY <1>1, <1>3, ScansDue DEF NextScan
  <2> HIDE DEF P, last
  <2>2. \A p \in Int : ~(LastScan < p /\ p <= LastScan)
    BY <1>1
  <2>3. LastScan \in Int
    BY <1>1
  <2>4. QED
    BY <2>1, <2>2, <2>3 DEF OnGrid, P, last
<1>4. CASE next_scan <= until
  <2>1. last \in P /\ \A p \in P : p <= last
    BY <1>1, <1>4, ScansDue
  <2>2. last \in Int /\ LastScan \in Int
    BY <1>1
  <2> HIDE DEF P, last
  <2>3. next_scan <= last /\ last <= until
    BY <1>2, <2>1
  <2>4. ASSUME NEW p, OnGrid(p), LastScan < p, p <= last PROVE p \in P
    <3>1. p \in Int /\ p > next_scan - ScanInterval
      BY <1>1, <2>4 DEF OnGrid
    <3>2. next_scan <= p /\ p <= until
      BY <1>2, <2>2, <2>3, <2>4, <3>1
    <3>3. QED
      BY <1>2, <2>4, <3>2
  <2>5. ASSUME NEW p \in P PROVE OnGrid(p) /\ LastScan < p /\ next_scan <= p
    <3>1. OnGrid(p) /\ next_scan <= p /\ p \in Int
      BY <1>2 DEF OnGrid
    <3>2. QED
      BY <1>1, <3>1
  <2>6. LastScan <= last
    BY <1>1, <2>2, <2>3
  <2>7. QED
    BY <2>1, <2>2, <2>4, <2>5, <2>6 DEF P, last
<1>5. QED
  BY <1>1, <1>3, <1>4

\* What a step raises, once the tape has begun.
LEMMA ScansOfStep ==
  ASSUME ClockInv, ClockInv', GridInv, started, [Next]_vars
  PROVE  /\ LastScan \in Int /\ LastScan' \in Int /\ LastScan <= LastScan' /\ started'
         /\ alerts \subseteq alerts'
         /\ \A p : OnGrid(p) /\ LastScan < p /\ p <= LastScan'
                => now < p /\ ScanAt(p) \subseteq alerts'
         /\ \A a \in alerts' \ alerts : \E p :
              OnGrid(p) /\ LastScan < p /\ p <= LastScan' /\ now < p /\ a \in ScanAt(p)
<1>1. ASSUME NEW until \in Int, ~finished, started', next_scan' = NextScan(next_scan, until),
             alerts' = alerts \cup Raised(next_scan, until)
      PROVE  /\ LastScan \in Int /\ LastScan' \in Int /\ LastScan <= LastScan' /\ started'
             /\ alerts \subseteq alerts'
             /\ \A p : OnGrid(p) /\ LastScan < p /\ p <= LastScan'
                => now < p /\ ScanAt(p) \subseteq alerts'
             /\ \A a \in alerts' \ alerts : \E p :
                  OnGrid(p) /\ LastScan < p /\ p <= LastScan' /\ now < p /\ a \in ScanAt(p)
  <2> DEFINE P == ScanPoints(next_scan, until)
  <2>1. LastScan' = NextScan(next_scan, until) - ScanInterval
    BY <1>1 DEF LastScan
  <2>2. /\ LastScan' \in Int /\ LastScan \in Int /\ LastScan <= LastScan'
        /\ \A p : OnGrid(p) /\ LastScan < p /\ p <= LastScan' => p \in P
        /\ \A p \in P : OnGrid(p) /\ LastScan < p /\ p <= LastScan' /\ next_scan <= p
    BY <2>1, PointsPassed
  <2>3. \A a : a \in Raised(next_scan, until) <=> \E p \in P : a \in ScanAt(p)
    BY DEF Raised, ScanAt
  <2>4. now \in Int /\ next_scan \in Int /\ now < next_scan
    BY <1>1 DEF ClockInv
  <2> HIDE DEF P
  <2>5. \A p \in P : now < p
    BY <2>2, <2>4 DEF OnGrid
  <2>6. QED
    BY <1>1, <2>2, <2>3, <2>5
<1>2. ASSUME UNCHANGED <<next_scan, alerts, started>>
      PROVE  /\ LastScan \in Int /\ LastScan' \in Int /\ LastScan <= LastScan' /\ started'
             /\ alerts \subseteq alerts'
             /\ \A p : OnGrid(p) /\ LastScan < p /\ p <= LastScan'
                => now < p /\ ScanAt(p) \subseteq alerts'
             /\ \A a \in alerts' \ alerts : \E p :
                  OnGrid(p) /\ LastScan < p /\ p <= LastScan' /\ now < p /\ a \in ScanAt(p)
  <2>1. LastScan \in Int /\ LastScan' = LastScan
    BY <1>2, ScanIntervalAssumption DEF ClockInv, LastScan
  <2>2. \A p \in Int : ~(LastScan < p /\ p <= LastScan)
    BY <2>1
  <2>3. QED
    BY <1>2, <2>1, <2>2 DEF OnGrid
<1>3. ASSUME NEW e, ArrivingOK(e), Apply(e)
      PROVE  /\ e.ts \in Int /\ ~finished /\ started' /\ next_scan' = NextScan(next_scan, e.ts)
             /\ alerts' = alerts \cup Raised(next_scan, e.ts)
  BY <1>3 DEF Apply, ArrivingOK
<1>4. ASSUME Finish
      PROVE  /\ now + History \in Int /\ ~finished /\ started'
             /\ next_scan' = NextScan(next_scan, now + History)
             /\ alerts' = alerts \cup Raised(next_scan, now + History)
  BY <1>4, HistoryIsInt DEF Finish, ClockInv
<1>5. CASE UNCHANGED vars
  BY <1>2, <1>5 DEF vars
<1>6. CASE Finish
  BY <1>1, <1>4, <1>6
<1>7. CASE \E e : ArrivingOK(e) /\ Apply(e)
  BY <1>1, <1>3, <1>7
<1>8. QED
  BY <1>5, <1>6, <1>7, StepsApply

\* What a step adds to the tape comes after everything there was, and not
\* before the last scan.
LEMMA TapeOfStep ==
  ASSUME ClockInv, ClockInv', [Next]_vars, NEW kind
  PROVE  /\ Len(tape) \in Nat
         /\ \A i \in OfKind(kind) : i \in OfKind(kind)' /\ i \in 1 .. Len(tape)
         /\ \A i \in 1 .. Len(tape) : tape'[i] = tape[i]
         /\ \A i \in OfKind(kind)' : /\ i \in Nat
                                     /\ tape'[i].ts \in Int
                                     /\ \/ i \in OfKind(kind)
                                        \/ (i = Len(tape) + 1 /\ LastScan' <= tape'[i].ts)
         /\ ~started => OfKind(kind) = {}
<1>0. Len(tape) \in Nat /\ DOMAIN tape = 1 .. Len(tape)
  BY DEF ClockInv
<1>1. ~started => OfKind(kind) = {}
  <2>1. ~started => DOMAIN tape = {}
    BY DEF ClockInv
  <2>2. QED
    BY <2>1 DEF OfKind
<1>2. ASSUME NEW e, ArrivingOK(e), Apply(e)
      PROVE  /\ \A i \in OfKind(kind) : i \in OfKind(kind)' /\ i \in 1 .. Len(tape)
             /\ \A i \in 1 .. Len(tape) : tape'[i] = tape[i]
             /\ \A i \in OfKind(kind)' : i \in OfKind(kind)
                  \/ (i = Len(tape) + 1 /\ LastScan' <= tape'[i].ts)
  <2>1. tape' = Append(tape, e) /\ now' = e.ts /\ started' /\ ~finished'
    BY <1>2 DEF Apply
  <2>2. /\ DOMAIN tape' = DOMAIN tape \cup {Len(tape) + 1}
        /\ \A i \in DOMAIN tape : tape'[i] = tape[i]
        /\ tape'[Len(tape) + 1] = e
    BY <1>2, <2>1, TapeGrows
  <2>3. LastScan' <= e.ts
    BY <2>1 DEF ClockInv
  <2>4. \A i \in OfKind(kind) : i \in OfKind(kind)' /\ i \in 1 .. Len(tape)
    BY <1>0, <2>2 DEF OfKind
  <2>5. ASSUME NEW i \in OfKind(kind)'
        PROVE  i \in OfKind(kind) \/ (i = Len(tape) + 1 /\ LastScan' <= tape'[i].ts)
    <3>1. i \in DOMAIN tape \/ i = Len(tape) + 1
      BY <2>2, <2>5 DEF OfKind
    <3>2. CASE i \in DOMAIN tape
      <4>1. tape'[i].kind = kind
        BY <2>5 DEF OfKind
      <4>2. tape'[i] = tape[i]
        BY <2>2, <3>2
      <4>3. QED
        BY <3>2, <4>1, <4>2 DEF OfKind
    <3>3. CASE i = Len(tape) + 1
      BY <2>2, <2>3, <3>3
    <3>4. QED
      BY <3>1, <3>2, <3>3
  <2>6. QED
    BY <1>0, <2>2, <2>4, <2>5
<1>3. ASSUME tape' = tape
      PROVE  /\ \A i \in OfKind(kind) : i \in OfKind(kind)' /\ i \in 1 .. Len(tape)
             /\ \A i \in 1 .. Len(tape) : tape'[i] = tape[i]
             /\ \A i \in OfKind(kind)' : i \in OfKind(kind)
  BY <1>0, <1>3 DEF OfKind
<1>4. \A i \in OfKind(kind)' : i \in Nat /\ tape'[i].ts \in Int
  <2>1. Len(tape') \in Nat /\ DOMAIN tape' = 1 .. Len(tape')
    BY DEF ClockInv
  <2>2. QED
    BY <2>1 DEF OfKind, ClockInv
<1>5. CASE \E e : ArrivingOK(e) /\ Apply(e)
  BY <1>0, <1>1, <1>2, <1>4, <1>5
<1>6. CASE tape' = tape
  BY <1>0, <1>1, <1>3, <1>4, <1>6
<1>7. QED
  BY <1>5, <1>6, StepsApply DEF Finish, vars

\* Two prints of a slice are worth what both are worth, or more.
LEMMA TwoOfTotal ==
  ASSUME NEW w, NEW S, IsFiniteSet(S), \A i \in S : ItemAt(w, i).qty \in Nat,
         NEW p \in S, NEW q \in S, p # q
  PROVE  Total(w, S) \in Nat /\ Total(w, S) >= ItemAt(w, p).qty + ItemAt(w, q).qty
<1> DEFINE f == [i \in S |-> ItemAt(w, i).qty]
           P == S \ {p}
           Q == P \ {q}
<1>1. Total(w, S) = Cardinality(Units(f, S))
  BY SumIsUnits DEF Total
<1>2. /\ \A i \in S : f[i] \in Nat
      /\ f[p] = ItemAt(w, p).qty /\ f[q] = ItemAt(w, q).qty
  OBVIOUS
<1>3. /\ IsFiniteSet(P) /\ q \in P /\ \A i \in P : f[i] \in Nat
      /\ IsFiniteSet(Q) /\ \A i \in Q : f[i] \in Nat
  <2>1. P \subseteq S /\ Q \subseteq S /\ q \in P
    OBVIOUS
  <2> HIDE DEF P, Q, f
  <2>2. IsFiniteSet(P) /\ IsFiniteSet(Q)
    BY <2>1, FS_Subset
  <2>3. QED
    BY <1>2, <2>1, <2>2
<1> HIDE DEF f
<1>4. Cardinality(Units(f, S)) = f[p] + Cardinality(Units(f, P))
  BY <1>2, UnitsWithout
<1>5. Cardinality(Units(f, P)) = f[q] + Cardinality(Units(f, Q))
  <2> HIDE DEF P
  <2>1. QED
    BY <1>3, UnitsWithout
<1>6. Cardinality(Units(f, Q)) \in Nat
  <2> HIDE DEF Q
  <2>1. QED
    BY <1>3, UnitsFinite
<1>7. f[p] \in Nat /\ f[q] \in Nat
  BY <1>2
<1> HIDE DEF P, Q
<1>8. QED
  BY <1>1, <1>2, <1>4, <1>5, <1>6, <1>7

-----------------------------------------------------------------------------
(***************************************************************************)
(* Wash trading.                                                           *)
(***************************************************************************)
WashWindow == WashConfig.window_ns

\* The trades a and b went back and forth between two accounts.
BackAndForth(a, b) ==
  /\ a.taker # a.maker /\ {a.taker, a.maker} = {b.taker, b.maker}
  /\ Buyer(a) # Buyer(b)
  /\ a.qty + b.qty >= WashConfig.min_gross_qty

Washes(i, j) ==
  /\ i < j
  /\ BackAndForth(tape[i].rec, tape[j].rec)
  /\ tape[j].ts - tape[i].ts <= WashWindow - ScanInterval

\* The alert x is the one about them, of the scan at p.
Names(x, i, j, p) ==
  /\ {x.participant, x.counterparty} = {tape[i].rec.taker, tape[i].rec.maker}
  /\ x.detect_ts = p
  /\ x.start_ts <= tape[i].ts /\ tape[j].ts <= x.end_ts

\* A pair of prints in the window of a scan is reported by it.
LEMMA PairIsReported ==
  ASSUME NEW c, NEW to \in Int, Legible(c.trades, to), Paid(c.trades), NEW from \in Int,
         NEW p \in Positions(c.trades), NEW q \in Positions(c.trades), p # q,
         from < TsAt(c.trades, q),
         to - WashWindow <= TsAt(c.trades, p), to - WashWindow <= TsAt(c.trades, q),
         ItemAt(c.trades, p).taker \in Nat, ItemAt(c.trades, p).maker \in Nat,
         BackAndForth(ItemAt(c.trades, p), ItemAt(c.trades, q))
  PROVE  \E x \in WashScan(c, from, to) :
           /\ {x.participant, x.counterparty}
                = {ItemAt(c.trades, p).taker, ItemAt(c.trades, p).maker}
           /\ x.detect_ts = to
           /\ x.start_ts <= TsAt(c.trades, p) /\ TsAt(c.trades, q) <= x.end_ts
<1> DEFINE w == c.trades
           a == ItemAt(w, p)
           b == ItemAt(w, q)
<1>0. /\ c.trades = w /\ Legible(w, to) /\ Paid(w)
      /\ p \in Positions(w) /\ q \in Positions(w) /\ p # q
      /\ from < TsAt(w, q) /\ to - WashWindow <= TsAt(w, p) /\ to - WashWindow <= TsAt(w, q)
      /\ a = ItemAt(w, p) /\ b = ItemAt(w, q)
      /\ a.taker \in Nat /\ a.maker \in Nat /\ a.taker # a.maker
      /\ {a.taker, a.maker} = {b.taker, b.maker} /\ Buyer(a) # Buyer(b)
      /\ a.qty + b.qty >= WashConfig.min_gross_qty
  BY DEF BackAndForth
<1> SUFFICES \E x \in WashScan(c, from, to) :
               /\ {x.participant, x.counterparty} = {a.taker, a.maker}
               /\ x.detect_ts = to
               /\ x.start_ts <= TsAt(w, p) /\ TsAt(w, q) <= x.end_ts
  OBVIOUS
<1> HIDE DEF w, a, b
<1> USE <1>0
<1> DEFINE prints == WashPrints(w, from, to)
<1>1. /\ prints \in SUBSET Positions(w) /\ p \in prints /\ q \in prints
  <2>1. to - WashWindow \in Int
    BY DurationsAssumption DEF WashWindow
  <2>2. prints = {i \in Positions(w) : to - WashWindow <= TsAt(w, i) /\ TsAt(w, i) <= to}
    BY <2>1 DEF WashPrints, WashWindow, Legible
  <2>3. TsAt(w, p) <= to /\ TsAt(w, q) <= to
    BY DEF Legible
  <2>4. QED
    BY <2>2, <2>3
<1> HIDE DEF prints
\* The volume of some of the prints.
<1>2. ASSUME NEW S \in SUBSET prints
      PROVE  /\ IsFiniteSet(S) /\ \A i \in S : ItemAt(w, i).qty \in Nat \ {0}
             /\ Volume(w, S) = Total(w, S)
             /\ Volume(w, S) > 0 <=> S # {}
  <2>1. IsFiniteSet(S) /\ \A i \in S : ItemAt(w, i).qty \in Nat \ {0}
    BY <1>1, StampsOf DEF Paid
  <2>2. Volume(w, S) = Total(w, S)
    BY DEF Volume, Total
  <2>3. QED
    BY <2>1, <2>2, QuantityOfPrints
<1>3. PICK lo, hi : /\ lo \in Nat /\ hi \in Nat /\ lo < hi /\ {lo, hi} = {a.taker, a.maker}
  <2>1. CASE a.taker < a.maker
    BY <2>1
  <2>2. CASE a.maker < a.taker
    BY <2>2
  <2>3. QED
    BY <2>1, <2>2
<1> DEFINE pair == PairPrints(w, prints, lo, hi)
<1>4. pair \in SUBSET prints /\ p \in pair /\ q \in pair
  BY <1>1, <1>3 DEF PairPrints
<1> HIDE DEF pair
<1>5. BothWays(w, pair, lo)
  <2> DEFINE bought == {i \in pair : Buyer(ItemAt(w, i)) = lo}
             sold == {i \in pair : Buyer(ItemAt(w, i)) # lo}
  <2>1. Buyer(a) \in {lo, hi} /\ Buyer(b) \in {lo, hi}
    BY <1>3 DEF Buyer
  <2>2. bought \in SUBSET prints /\ sold \in SUBSET prints
    BY <1>4
  <2>3. bought # {} /\ sold # {}
    BY <1>3, <1>4, <2>1
  <2>4. Volume(w, bought) > 0 /\ Volume(w, sold) > 0
    <3> HIDE DEF bought, sold
    <3>1. QED
      BY <1>2, <2>2, <2>3
  <2>5. QED
    BY <2>4 DEF BothWays
<1>6. Volume(w, pair) >= WashConfig.min_gross_qty
  <2>1. IsFiniteSet(pair) /\ \A i \in pair : ItemAt(w, i).qty \in Nat
    BY <1>2, <1>4
  <2>2. Total(w, pair) \in Nat /\ Total(w, pair) >= ItemAt(w, p).qty + ItemAt(w, q).qty
    BY <1>4, <2>1, TwoOfTotal
  <2>3. a.qty \in Nat /\ b.qty \in Nat /\ WashConfig.min_gross_qty \in Int
    BY <1>4, <2>1, DurationsAssumption
  <2>4. Total(w, pair) >= a.qty + b.qty
    BY <2>2
  <2>5. Total(w, pair) >= WashConfig.min_gross_qty
    BY <2>2, <2>3, <2>4
  <2>6. QED
    BY <1>2, <1>4, <2>5
<1>7. ~NothingNew(w, from)
  <2>1. w.size \in Nat /\ w.size # 0 /\ w.size - 1 \in Positions(w) /\ q <= w.size - 1
    BY DEF Legible, Positions
  <2>2. TsAt(w, q) <= TsAt(w, w.size - 1) /\ TsAt(w, q) \in Int /\ TsAt(w, w.size - 1) \in Int
    BY <2>1 DEF Legible
  <2>3. QED
    BY <2>1, <2>2 DEF NothingNew, BackTs
<1>8. Volume(w, prints) > 0 /\ Volume(w, prints) \in Nat
  <2>1. Volume(w, prints) = Total(w, prints) /\ Volume(w, prints) > 0
    BY <1>1, <1>2
  <2>2. IsFiniteSet(prints) /\ \A i \in prints : ItemAt(w, i).qty \in Nat \ {0}
    BY <1>2
  <2>3. QED
    BY <2>1, <2>2, QuantityOfPrints
<1> DEFINE x == WashAlert(w, pair, lo, hi, to)
           traders == UNION {{ItemAt(w, i).taker, ItemAt(w, i).maker} : i \in prints}
<1>9. x \in PairAlerts(w, prints, to)
  <2>1. lo \in traders /\ hi \in traders
    BY <1>1, <1>3
  <2>2. <<lo, hi>> \in traders \X traders
    BY <2>1
  <2> HIDE DEF traders
  <2>3. <<lo, hi>>[1] = lo /\ <<lo, hi>>[2] = hi
    OBVIOUS
  <2>4. QED
    BY <1>3, <1>5, <1>6, <2>2, <2>3 DEF PairAlerts, pair, traders
<1>10. x \in WashScan(c, from, to)
  <2> HIDE DEF x
  <2>1. ~(Volume(w, prints) <= 0)
    BY <1>8
  <2>2. WashScan(c, from, to) = SelfAlerts(w, prints, to) \cup PairAlerts(w, prints, to)
    BY <1>7, <2>1 DEF WashScan, prints
  <2>3. QED
    BY <1>9, <2>2
<1>11. x.start_ts <= TsAt(w, p) /\ TsAt(w, q) <= x.end_ts
  <2> DEFINE stamps == {TsAt(w, i) : i \in pair}
  <2>1. pair \in SUBSET Positions(w) /\ pair # {}
    BY <1>1, <1>4
  <2>2. /\ \A i \in pair : Earliest(stamps) <= TsAt(w, i)
        /\ \A i \in pair : TsAt(w, i) <= Latest(stamps)
    BY ONLY to \in Int, Legible(w, to), <2>1, StampsOf
  <2>3. QED
    BY <1>4, <2>2 DEF WashAlert
<1>12. x.detect_ts = to /\ x.participant = lo /\ x.counterparty = hi
  BY DEF WashAlert
<1> HIDE DEF x
<1>13. QED
  BY <1>3, <1>10, <1>11, <1>12

\* So are two trades of the tape, by the scan after the later one.
LEMMA WashIsRaised ==
  ASSUME ClockInv, WindowsInv, WholeInv, RecordsInv, started, ctx.trades.overflowed = 0,
         NEW to \in Int, LastScan <= to, now <= to,
         NEW i \in OfKind("trade"), NEW j \in OfKind("trade"), Washes(i, j),
         to - ScanInterval < tape[j].ts, tape[j].ts <= to
  PROVE  \E x \in WashScan(Expired(ctx, to), to - ScanInterval, to) : Names(x, i, j, to)
<1> DEFINE w == Expired(ctx, to).trades
           ti == tape[i].ts
           tj == tape[j].ts
<1>1. /\ Legible(w, to) /\ Paid(w)
      /\ \A k \in OfKind("trade") : tape[k].ts >= to - History => Has(w, tape[k].ts, tape[k].rec)
  BY ScanFindsTape
<1>2. /\ ti \in Int /\ tj \in Int /\ WashWindow \in Int /\ History \in Int
      /\ ScanInterval \in Nat \ {0} /\ WashWindow + 2 * ScanInterval <= History
      /\ tj - ti <= WashWindow - ScanInterval /\ ti <= tj
  <2>1. ti \in Int /\ tj \in Int /\ ti <= tj
    BY DEF ClockInv, OfKind, Washes
  <2>2. tj - ti <= WashWindow - ScanInterval
    BY DEF Washes
  <2> HIDE DEF ti, tj
  <2>3. QED
    BY <2>1, <2>2, HistoryCovers, ScanIntervalAssumption, DurationsAssumption DEF WashWindow
<1> HIDE DEF w
<1>3. to - WashWindow <= ti /\ to - History <= ti /\ to - WashWindow <= tj /\ to - History <= tj
  <2> HIDE DEF ti, tj
  <2>1. to - ScanInterval < tj
    BY DEF tj
  <2>2. QED
    BY <1>2, <2>1
<1>4. PICK p \in Positions(w) : TsAt(w, p) = ti /\ ItemAt(w, p) = tape[i].rec
  BY <1>1, <1>2, <1>3 DEF Has
<1>5. PICK q \in Positions(w) : TsAt(w, q) = tj /\ ItemAt(w, q) = tape[j].rec
  BY <1>1, <1>2, <1>3 DEF Has
<1>6. p # q
  BY <1>4, <1>5 DEF Washes, BackAndForth
<1>7. /\ tape[i].rec.taker \in Nat /\ tape[i].rec.maker \in Nat
      /\ BackAndForth(tape[i].rec, tape[j].rec)
  BY DEF Washes, RecordsInv, RecordOK, OfKind
<1> DEFINE c == Expired(ctx, to)
           from == to - ScanInterval
<1>8. from \in Int /\ c.trades = w /\ from < tj
  BY <1>2 DEF w
<1> HIDE DEF c, from, ti, tj
<1>9. PICK x \in WashScan(c, from, to) :
        /\ {x.participant, x.counterparty} = {ItemAt(w, p).taker, ItemAt(w, p).maker}
        /\ x.detect_ts = to
        /\ x.start_ts <= TsAt(w, p) /\ TsAt(w, q) <= x.end_ts
  <2>1. /\ from < TsAt(w, q) /\ to - WashWindow <= TsAt(w, p) /\ to - WashWindow <= TsAt(w, q)
        /\ ItemAt(w, p).taker \in Nat /\ ItemAt(w, p).maker \in Nat
        /\ BackAndForth(ItemAt(w, p), ItemAt(w, q))
    BY <1>3, <1>4, <1>5, <1>7, <1>8
  <2>2. /\ from \in Int /\ Legible(c.trades, to) /\ Paid(c.trades)
        /\ p \in Positions(c.trades) /\ q \in Positions(c.trades)
    BY <1>1, <1>8
  <2>3. QED
    BY <1>6, <1>8, <2>1, <2>2, PairIsReported
<1>10. QED
  BY <1>4, <1>5, <1>9 DEF Names, c, from, ti, tj

\* The scan after the trade j has run, and j was not at its very instant.
Followed(j) ==
  tape[j].ts < ClosingScan(tape[j].ts) /\ ClosingScan(tape[j].ts) <= LastScan

\* A wash whose scan has run has an alert, if nothing was given up.
WashesInv ==
  enabled = "wash_trading" /\ ctx.trades.overflowed = 0 =>
    \A i, j \in OfKind("trade") :
      Washes(i, j) /\ Followed(j) =>
        \E x \in alerts : Names(x, i, j, ClosingScan(tape[j].ts))

LEMMA WashesKept ==
  ASSUME ClockInv, ClockInv', WindowsInv, WholeInv, RecordsInv, GridInv, WashesInv, [Next]_vars
  PROVE  WashesInv'
<1>0. StillDisplaced /\ enabled' = enabled
  <2>1. enabled' = enabled
    BY StepsApply DEF Apply, Finish, vars
  <2>2. QED
    BY <2>1, WholeKept
<1> SUFFICES ASSUME enabled = "wash_trading", ctx.trades.overflowed = 0,
                    NEW i \in OfKind("trade")', NEW j \in OfKind("trade")',
                    Washes(i, j)', Followed(j)'
             PROVE  \E x \in alerts' : Names(x, i, j, ClosingScan(tape[j].ts))'
  BY <1>0 DEF WashesInv, StillDisplaced
<1> DEFINE n == Len(tape) + 1
<1>1. /\ n \in Nat
      /\ \A k \in OfKind("trade") : k \in 1 .. n - 1
      /\ \A k \in 1 .. n - 1 : tape'[k] = tape[k]
      /\ \A k \in OfKind("trade")' : /\ k \in Nat /\ tape'[k].ts \in Int
                                     /\ \/ k \in OfKind("trade")
                                        \/ k = n /\ LastScan' <= tape'[k].ts
      /\ ~started => OfKind("trade") = {}
  BY TapeOfStep
<1> HIDE DEF n
<1> DEFINE tj == tape'[j].ts
           p == ClosingScan(tj)
<1>2. tj \in Int /\ tj < p /\ p <= LastScan' /\ i < j
  BY <1>1 DEF Followed, Washes, ClosingScan
<1>3. /\ OnGrid(p) /\ p < tj + ScanInterval /\ ScanInterval \in Nat \ {0}
      /\ p \in Int /\ LastScan' \in Int
  <2> HIDE DEF tj
  <2>1. OnGrid(p) /\ p < tj + ScanInterval
    BY <1>2, ClosingScanIs
  <2>2. QED
    BY <2>1, ScanIntervalAssumption DEF OnGrid, ClockInv, LastScan
\* The later trade was there before, for it precedes a scan that has run.
<1>4. j \in OfKind("trade") /\ tape'[j] = tape[j]
  <2>1. ~(LastScan' <= tj)
    <3> HIDE DEF tj, p
    <3>1. QED
      BY <1>2, <1>3
  <2>2. QED
    BY <1>1, <2>1
<1>5. i \in OfKind("trade") /\ tape'[i] = tape[i] /\ started
  <2>1. j <= n - 1 /\ j \in Nat /\ i \in Nat
    BY <1>1, <1>4
  <2>2. i # n
    BY <1>1, <1>2, <2>1
  <2>3. QED
    BY <1>1, <1>4, <2>2
<1>6. Washes(i, j)
  BY <1>4, <1>5 DEF Washes, BackAndForth, Buyer, WashWindow
<1>7. \A x : Names(x, i, j, p) <=> Names(x, i, j, ClosingScan(tape[j].ts))'
  BY <1>4, <1>5 DEF Names, ClosingScan
<1>8. /\ LastScan \in Int /\ alerts \subseteq alerts'
      /\ LastScan < p => ScanAt(p) \subseteq alerts'
  BY <1>2, <1>3, <1>5, ScansOfStep
<1>9. CASE p <= LastScan
  <2>1. Followed(j) /\ p = ClosingScan(tape[j].ts)
    BY <1>2, <1>4, <1>9 DEF Followed
  <2>2. PICK x \in alerts : Names(x, i, j, p)
    BY <1>4, <1>5, <1>6, <2>1 DEF WashesInv
  <2>3. QED
    BY <1>7, <1>8, <2>2
<1>10. CASE LastScan < p
  <2>1. /\ p \in Int /\ LastScan <= p /\ now <= p
        /\ p - ScanInterval < tape[j].ts /\ tape[j].ts <= p
    <3>1. now < p /\ now \in Int
      BY <1>2, <1>3, <1>5, <1>10, ScansOfStep DEF ClockInv
    <3> HIDE DEF p
    <3>2. QED
      BY <1>2, <1>3, <1>4, <1>8, <1>10, <3>1
  <2>2. PICK x \in WashScan(Expired(ctx, p), p - ScanInterval, p) : Names(x, i, j, p)
    BY <1>4, <1>5, <1>6, <2>1, WashIsRaised
  <2>3. ScanAt(p) = WashScan(Expired(ctx, p), p - ScanInterval, p)
    BY DEF ScanAt, Scan
  <2>4. QED
    BY <1>7, <1>8, <1>10, <2>2, <2>3
<1>11. QED
  BY <1>3, <1>8, <1>9, <1>10

(***************************************************************************)
(* Two accounts that bought from one another are reported by the scan that *)
(* follows the later trade, for every configuration and every tape, as     *)
(* long as the window of trades had not to give up an entry for room.      *)
(***************************************************************************)
THEOREM WashesReportedCorrect == Spec => []WashesReported
<1>1. Init => RecordsInv /\ GridInv /\ WashesInv
  <2> SUFFICES ASSUME Init PROVE RecordsInv /\ GridInv /\ WashesInv
    OBVIOUS
  <2>1. DOMAIN tape = {} /\ ~started
    BY DEF Init
  <2>2. OfKind("trade") = {}
    BY <2>1 DEF OfKind
  <2>3. QED
    BY <2>1, <2>2 DEF RecordsInv, GridInv, WashesInv
<1>2. /\ ClockInv /\ ClockInv' /\ WindowsInv /\ WholeInv
      /\ RecordsInv /\ GridInv /\ WashesInv /\ [Next]_vars
      => RecordsInv' /\ GridInv' /\ WashesInv'
  BY RecordsKept, GridKept, WashesKept
<1>3. ClockInv /\ WashesInv => WashesReported
  <2> SUFFICES ASSUME ClockInv, WashesInv, enabled = "wash_trading", NothingDisplaced,
                      NEW i \in OfKind("trade"), NEW j \in OfKind("trade"), i < j,
                      BackAndForth(tape[i].rec, tape[j].rec),
                      tape[j].ts - tape[i].ts <= WashConfig.window_ns - ScanInterval,
                      ClosingScan(tape[j].ts) \in tape[j].ts + 1 .. LastScan
               PROVE  \E x \in alerts : Names(x, i, j, ClosingScan(tape[j].ts))
    BY DEF WashesReported, BackAndForth, Names
  <2>1. tape[j].ts \in Int /\ LastScan \in Int
    BY ScanIntervalAssumption DEF ClockInv, OfKind, LastScan
  <2>2. Followed(j)
    BY <2>1 DEF Followed
  <2>3. QED
    BY <2>2 DEF WashesInv, NothingDisplaced, Washes, WashWindow
<1>4. QED
  BY <1>1, <1>2, <1>3, WindowsInvariant, WholeInvariant, PTL DEF Spec

-----------------------------------------------------------------------------
(***************************************************************************)
(* A window as the tape it was filled from: ev gives the event of each     *)
(* position, in the order of the positions; those since "since" are there, *)
(* and no others.                                                          *)
(***************************************************************************)
Shows(v, pushed, ev, since) ==
  /\ \A p \in Positions(v) : /\ ev[p] \in DOMAIN pushed
                             /\ TsAt(v, p) = pushed[ev[p]].ts
                             /\ ItemAt(v, p) = pushed[ev[p]].item
                             /\ TsAt(v, p) >= since
  /\ \A p, q \in Positions(v) : p <= q <=> ev[p] <= ev[q]
  /\ \A p, q \in Positions(v) : ev[p] = ev[q] => p = q
  /\ \A i \in DOMAIN pushed : pushed[i].ts >= since => \E p \in Positions(v) : ev[p] = i

LEMMA ScanShows ==
  ASSUME ClockInv, NEW w, NEW pushed, DOMAIN pushed \subseteq DOMAIN tape,
         \A i \in DOMAIN pushed : pushed[i].ts = tape[i].ts,
         WindowOf(w, pushed), Whole(w, pushed, LastScan), w.overflowed = 0,
         started, NEW to \in Int, LastScan <= to, now <= to
  PROVE  /\ Legible(Expire(w, to), to)
         /\ \E ev : Shows(Expire(w, to), pushed, ev, to - History)
<1> DEFINE v == Expire(w, to)
           ev == [p \in Positions(v) |-> EventAt(v, pushed, p)]
<1>1. PushedOK(pushed) /\ \A i \in DOMAIN pushed : pushed[i].ts <= now
  BY PushedFromTape
<1>2. LastScan \in Int /\ now \in Int
  BY ScanIntervalAssumption DEF ClockInv, LastScan
<1>3. /\ HoldsAsOf(v, pushed, to) /\ SameShape(v, w) /\ v.overflowed = w.overflowed
      /\ RingOK(w) /\ w.window_ns = History /\ History \in Int
  <2>1. w.window_ns = History /\ HoldsAsOf(w, pushed, LastScan)
    BY DEF WindowOf
  <2>2. /\ HoldsAsOf(v, pushed, to)
        /\ v.capacity = w.capacity /\ v.window_ns = w.window_ns
        /\ v.overflowed = w.overflowed
    BY <1>1, <1>2, <2>1, ScanHolds
  <2>3. QED
    BY <2>1, <2>2, HistoryIsInt DEF HoldsAsOf, SameShape
<1> HIDE DEF v
<1>4. Whole(v, pushed, to)
  BY <1>1, <1>2, <1>3, LaterIsWhole
<1>5. \A i \in DOMAIN pushed : pushed[i].ts \in Nat \ {0} /\ pushed[i].ts <= to
  BY <1>1, <1>2 DEF ClockInv
<1>6. /\ v.size \in Nat
      /\ \A p \in Positions(v) :
              /\ EventAt(v, pushed, p) \in Carried(v, pushed)
              /\ TsAt(v, p) = pushed[EventAt(v, pushed, p)].ts
              /\ ItemAt(v, p) = pushed[EventAt(v, pushed, p)].item
      /\ \A p, q \in Positions(v) : p <= q <=> EventAt(v, pushed, p) <= EventAt(v, pushed, q)
      /\ \A i \in Carried(v, pushed) : \E p \in Positions(v) : EventAt(v, pushed, p) = i
  BY <1>1, <1>3, PositionsAreEvents
<1>7. ASSUME NEW i \in DOMAIN pushed, pushed[i].ts >= to - History
      PROVE  i \in Carried(v, pushed)
  <2>1. \A t \in Stamps(pushed) \cup {to} : t \in Int /\ t <= to
    BY <1>5 DEF Stamps
  <2>2. pushed[i].ts \in Int /\ v.window_ns = History
    BY <1>3, <1>5 DEF SameShape
  <2>3. \A t \in Stamps(pushed) \cup {to} : pushed[i].ts >= t - History
    BY <1>3, <1>7, <2>1, <2>2
  <2>4. Recent(v, pushed[i].ts, Stamps(pushed) \cup {to})
    BY <2>2, <2>3 DEF Recent
  <2>5. Newer(DOMAIN pushed, i) < v.capacity
    BY <1>3, <1>4, <2>4 DEF Whole
  <2>6. QED
    BY <1>3, <2>4, <2>5 DEF HoldsAsOf, Carries, Carried
<1>8. \A i \in Carried(v, pushed) : i \in DOMAIN pushed /\ i \in Nat
  BY <1>1 DEF Carried, PushedOK
<1>9. \A p \in Positions(v) : ev[p] = EventAt(v, pushed, p)
  OBVIOUS
<1> HIDE DEF ev
<1>10. \A p \in Positions(v) : /\ ev[p] \in DOMAIN pushed /\ ev[p] \in Nat
                               /\ TsAt(v, p) = pushed[ev[p]].ts
                               /\ ItemAt(v, p) = pushed[ev[p]].item
  BY <1>6, <1>8, <1>9
<1>11. \A p, q \in Positions(v) : p <= q <=> ev[p] <= ev[q]
  BY <1>6, <1>9
<1>12. \A p, q \in Positions(v) : ev[p] = ev[q] => p = q
  <2>1. \A p \in Positions(v) : p \in Int
    BY <1>6 DEF Positions
  <2>2. \A p, q \in Int : p <= q /\ q <= p => p = q
    OBVIOUS
  <2>3. \A p \in Positions(v) : ev[p] <= ev[p]
    BY <1>10
  <2>4. QED
    BY <1>11, <2>1, <2>2, <2>3
<1>13. \A i \in DOMAIN pushed : pushed[i].ts >= to - History => \E p \in Positions(v) : ev[p] = i
  BY <1>6, <1>7, <1>9
<1>14. \A p \in Positions(v) : TsAt(v, p) >= to - History
  <2> TAKE p \in Positions(v)
  <2> DEFINE i == EventAt(v, pushed, p)
  <2>1. i \in Carried(v, pushed) /\ TsAt(v, p) = pushed[i].ts
    BY <1>6
  <2> HIDE DEF i
  <2>2. Recent(v, pushed[i].ts, Stamps(pushed) \cup {to})
    BY <1>3, <2>1 DEF HoldsAsOf, Cleared, Carried
  <2>3. v.window_ns = History
    BY <1>3 DEF SameShape
  <2>4. QED
    BY <2>1, <2>2, <2>3 DEF Recent
<1>15. Shows(v, pushed, ev, to - History)
  BY <1>10, <1>11, <1>12, <1>13, <1>14 DEF Shows
<1>16. Legible(v, to)
  BY <1>1, <1>3, <1>5, WindowIsLegible
<1>17. QED
  BY <1>15, <1>16 DEF v

\* The three windows of a scan, as the tape.
LEMMA ScanShowsTape ==
  ASSUME ClockInv, WindowsInv, WholeInv,
         started, NEW to \in Int, LastScan <= to, now <= to
  PROVE  LET c == Expired(ctx, to) IN
         /\ ctx.trades.overflowed = 0 => \E ev : Shows(c.trades, Printed, ev, to - History)
         /\ ctx.cancels.overflowed = 0 => \E ev : Shows(c.cancels, Withdrawn, ev, to - History)
         /\ ctx.mids.overflowed = 0 =>
              /\ Legible(c.mids, to)
              /\ \E ev : Shows(c.mids, Quoted, ev, to - History)
<1>1. /\ Expired(ctx, to).trades = Expire(ctx.trades, to)
      /\ Expired(ctx, to).cancels = Expire(ctx.cancels, to)
      /\ Expired(ctx, to).mids = Expire(ctx.mids, to)
  BY DEF Expired
<1>2. ctx.trades.overflowed = 0 =>
        \E ev : Shows(Expire(ctx.trades, to), Printed, ev, to - History)
  BY ScanShows, PushedDomains DEF WindowsInv, WholeInv
<1>3. ctx.cancels.overflowed = 0 =>
        \E ev : Shows(Expire(ctx.cancels, to), Withdrawn, ev, to - History)
  BY ScanShows, PushedDomains DEF WindowsInv, WholeInv
<1>4. ctx.mids.overflowed = 0 =>
        /\ Legible(Expire(ctx.mids, to), to)
        /\ \E ev : Shows(Expire(ctx.mids, to), Quoted, ev, to - History)
  BY ScanShows, PushedDomains DEF WindowsInv, WholeInv
<1>5. QED
  BY <1>1, <1>2, <1>3, <1>4

-----------------------------------------------------------------------------
(***************************************************************************)
(* The same many, and the same much.                                       *)
(***************************************************************************)
Pairs(f, A, B) ==
  /\ \A p \in A : f[p] \in B
  /\ \A p, q \in A : f[p] = f[q] => p = q
  /\ \A i \in B : \E p \in A : f[p] = i

LEMMA SameCount ==
  ASSUME NEW A, IsFiniteSet(A), NEW B, NEW f, Pairs(f, A, B)
  PROVE  IsFiniteSet(B) /\ Cardinality(B) = Cardinality(A)
<1> DEFINE g == [p \in A |-> f[p]]
<1>1. g \in Bijection(A, B)
  <2>1. g \in [A -> B] /\ \A p \in A : g[p] = f[p]
    BY DEF Pairs
  <2> HIDE DEF g
  <2>2. g \in Injection(A, B)
    BY <2>1 DEF Pairs, Injection, IsInjective
  <2>3. g \in Surjection(A, B)
    BY <2>1 DEF Pairs, Surjection
  <2>4. QED
    BY <2>2, <2>3 DEF Bijection
<1>2. ExistsBijection(A, B)
  BY <1>1 DEF ExistsBijection
<1>3. QED
  BY <1>2, FS_Bijection

LEMMA UnitsAre ==
  ASSUME NEW q, NEW S
  PROVE  \A u : u \in Units(q, S) <=> \E p \in S : \E k \in 1 .. q[p] : u = <<p, k>>
<1>1. \A u : u \in Units(q, S) <=> \E p \in S : u \in {p} \X (1 .. q[p])
  BY DEF Units
<1>2. \A p, u : u \in {p} \X (1 .. q[p]) <=> \E k \in 1 .. q[p] : u = <<p, k>>
  OBVIOUS
<1>3. QED
  BY <1>1, <1>2

LEMMA SameUnits ==
  ASSUME NEW A, IsFiniteSet(A), NEW B, NEW f, Pairs(f, A, B),
         NEW q, \A p \in A : q[p] \in Nat, NEW r, \A p \in A : r[f[p]] = q[p]
  PROVE  Cardinality(Units(r, B)) = Cardinality(Units(q, A))
<1> DEFINE U == Units(q, A)
           V == Units(r, B)
           g == [u \in U |-> <<f[u[1]], u[2]>>]
<1>1. \A u : u \in U <=> \E p \in A : \E k \in 1 .. q[p] : u = <<p, k>>
  BY UnitsAre
<1>2. \A u : u \in V <=> \E i \in B : \E k \in 1 .. r[i] : u = <<i, k>>
  BY UnitsAre
<1>3. IsFiniteSet(U)
  BY UnitsFinite
<1> HIDE DEF U, V
<1>4. \A u \in U : g[u] = <<f[u[1]], u[2]>>
  OBVIOUS
<1> HIDE DEF g
<1>5. \A u \in U : g[u] \in V
  <2> TAKE u \in U
  <2>1. PICK p \in A : \E k \in 1 .. q[p] : u = <<p, k>>
    BY <1>1
  <2>2. PICK k \in 1 .. q[p] : u = <<p, k>>
    BY <2>1
  <2>3. g[u] = <<f[p], k>> /\ f[p] \in B /\ k \in 1 .. r[f[p]]
    BY <1>4, <2>2 DEF Pairs
  <2>4. QED
    BY <1>2, <2>3
<1>6. \A u, v \in U : g[u] = g[v] => u = v
  <2> SUFFICES ASSUME NEW u \in U, NEW v \in U, g[u] = g[v] PROVE u = v
    OBVIOUS
  <2>1. PICK p \in A : \E k \in 1 .. q[p] : u = <<p, k>>
    BY <1>1
  <2>2. PICK s \in A : \E m \in 1 .. q[s] : v = <<s, m>>
    BY <1>1
  <2>3. PICK k \in 1 .. q[p] : u = <<p, k>>
    BY <2>1
  <2>4. PICK m \in 1 .. q[s] : v = <<s, m>>
    BY <2>2
  <2>5. g[u] = <<f[p], k>>
    BY <1>4, <2>3
  <2>6. g[v] = <<f[s], m>>
    BY <1>4, <2>4
  <2>7. \A a, b, c, d : <<a, b>> = <<c, d>> => a = c /\ b = d
    OBVIOUS
  <2>8. <<f[p], k>> = <<f[s], m>>
    BY <2>5, <2>6
  <2>9. f[p] = f[s] /\ k = m
    BY <2>7, <2>8
  <2>10. QED
    BY <2>3, <2>4, <2>9 DEF Pairs
<1>7. \A v \in V : \E u \in U : g[u] = v
  <2> TAKE v \in V
  <2>0. PICK i \in B : \E k \in 1 .. r[i] : v = <<i, k>>
    BY <1>2
  <2>1. PICK k \in 1 .. r[i] : v = <<i, k>>
    BY <2>0
  <2>2. PICK p \in A : f[p] = i
    BY DEF Pairs
  <2>3. <<p, k>> \in U
    BY <1>1, <2>1, <2>2
  <2>4. g[<<p, k>>] = v
    BY <1>4, <2>1, <2>2, <2>3
  <2>5. QED
    BY <2>3, <2>4
<1>8. Pairs(g, U, V)
  BY <1>5, <1>6, <1>7 DEF Pairs
<1>9. Cardinality(V) = Cardinality(U)
  BY <1>3, <1>8, SameCount
<1>10. QED
  BY <1>9 DEF U, V

-----------------------------------------------------------------------------
(***************************************************************************)
(* Layering.                                                               *)
(***************************************************************************)
LayerWindow == LayeringConfig.opposite_window_ns
Span == LayeringConfig.cancel_span_ns

\* All of somebody's withdrawals near the touch on one side.
Layer(pid, side) ==
  {i \in OfKind("withdrawal") :
     /\ tape[i].rec.participant = pid /\ tape[i].rec.side = side
     /\ tape[i].rec.ticks_from_touch \in 0 .. LayeringConfig.near_touch_ticks}

\* They are a layer worth reporting, with somebody behind it.
Layered(pid, side) ==
  LET layer == Layer(pid, side)
      first == tape[Min(layer)].ts
      last  == tape[Max(layer)].ts
  IN  /\ layer # {}
      /\ last - first <= Span
      /\ Cardinality(layer) >= LayeringConfig.min_orders
      /\ Cardinality({tape[i].rec.price : i \in layer}) >= LayeringConfig.min_levels
      /\ TookOnTape(pid, Opposite(side), first - LayerWindow, last + LayerWindow,
                    ClosingScan(last + LayerWindow))

LastOf(pid, side) == tape[Max(Layer(pid, side))].ts

\* The ends of a layer, in the order of the tape and in time.
LEMMA LayerEnds ==
  ASSUME ClockInv, NEW pid, NEW side, Layer(pid, side) # {}
  PROVE  LET L == Layer(pid, side) IN
         /\ L \in SUBSET Nat /\ L \subseteq OfKind("withdrawal")
         /\ Min(L) \in L /\ Max(L) \in L
         /\ \A i \in L : /\ Min(L) <= i /\ i <= Max(L) /\ tape[i].ts \in Int
                         /\ tape[Min(L)].ts <= tape[i].ts /\ tape[i].ts <= tape[Max(L)].ts
<1> DEFINE L == Layer(pid, side)
<1>1. Len(tape) \in Nat /\ DOMAIN tape = 1 .. Len(tape)
  BY DEF ClockInv
<1>2. L \in SUBSET Nat /\ L \subseteq OfKind("withdrawal") /\ \A i \in L : i <= Len(tape)
  BY <1>1 DEF Layer, OfKind
<1> HIDE DEF L
<1>3. /\ Min(L) \in L /\ \A i \in L : Min(L) <= i
      /\ Max(L) \in L /\ \A i \in L : i <= Max(L)
  <2>1. L # {}
    BY DEF L
  <2>2. QED
    BY <1>1, <1>2, <2>1, BoundedExtremes
<1>4. \A i \in L : i \in DOMAIN tape
  BY <1>2 DEF OfKind
<1>5. \A i \in L : /\ tape[i].ts \in Int
                   /\ tape[Min(L)].ts <= tape[i].ts /\ tape[i].ts <= tape[Max(L)].ts
  BY <1>3, <1>4 DEF ClockInv
<1>6. QED
  BY <1>2, <1>3, <1>5 DEF L

\* What a scan gathers of a participant is the layer.
LEMMA GatheredIsLayer ==
  ASSUME ClockInv, WindowsInv, WholeInv, RecordsInv, started, ctx.cancels.overflowed = 0,
         NEW to \in Int, LastScan <= to, now <= to, NEW pid, NEW side, Layer(pid, side) # {},
         LayeringConfig.opposite_window_ns > 0, LayeringConfig.placement_window_ns >= 0,
         to - ScanInterval < LastOf(pid, side) + LayerWindow, LastOf(pid, side) + LayerWindow <= to,
         LastOf(pid, side) - tape[Min(Layer(pid, side))].ts <= Span
  PROVE  LET v     == Expired(ctx, to).cancels
             group == LayeringGroup(Expired(ctx, to), pid, side, to - ScanInterval, to)
             L     == Layer(pid, side)
         IN  /\ group \in SUBSET Positions(v) /\ Legible(v, to)
             /\ \E ev : /\ Pairs(ev, group, L)
                        /\ \A p \in group : /\ TsAt(v, p) = tape[ev[p]].ts
                                            /\ ItemAt(v, p) = tape[ev[p]].rec
                        /\ \A p, q \in group : p <= q <=> ev[p] <= ev[q]
<1> DEFINE c == Expired(ctx, to)
           v == c.cancels
           from == to - ScanInterval
           group == LayeringGroup(c, pid, side, from, to)
           L == Layer(pid, side)
           first == tape[Min(L)].ts
           last == LastOf(pid, side)
<1>1. Legible(v, to)
  BY ScanFindsTape
<1>2. PICK ev : Shows(v, Withdrawn, ev, to - History)
  BY ScanShowsTape
<1>3. /\ LayerWindow \in Int /\ Span \in Int /\ History \in Int /\ ScanInterval \in Nat \ {0}
      /\ 2 * LayerWindow + Span + 2 * ScanInterval <= History /\ LayerWindow > 0
      /\ from \in Int
  <2>1. /\ LayeringConfig.opposite_window_ns \in Int /\ LayeringConfig.cancel_span_ns \in Int
        /\ LayeringConfig.placement_window_ns \in Int /\ ScanInterval \in Nat \ {0}
    BY DurationsAssumption, ScanIntervalAssumption
  <2>2. QED
    BY <2>1, HistoryCovers DEF LayerWindow, Span
<1>4. /\ \A i \in L : tape[i].ts \in Int /\ first <= tape[i].ts /\ tape[i].ts <= last
      /\ first \in Int /\ last \in Int /\ L \subseteq OfKind("withdrawal")
  BY LayerEnds DEF LastOf
<1>5. /\ DOMAIN Withdrawn = OfKind("withdrawal")
      /\ \A i \in OfKind("withdrawal") : /\ Withdrawn[i].ts = tape[i].ts
                                         /\ Withdrawn[i].item = tape[i].rec
  BY DEF Withdrawn
<1>6. from - LayerWindow - Span < first /\ last <= to - LayerWindow /\ to - History <= first
  <2>1. from < last + LayerWindow /\ last + LayerWindow <= to /\ last - first <= Span
    OBVIOUS
  <2>2. from = to - ScanInterval
    OBVIOUS
  <2> HIDE DEF from, last, first
  <2>3. QED
    BY <1>3, <1>4, <2>1, <2>2
<1> DEFINE Near(t) == t \in 0 .. LayeringConfig.near_touch_ticks
<1>7. \A i \in OfKind("withdrawal") :
        LET t == tape[i].rec.ticks_from_touch IN
        Near(t) <=> 0 <= t /\ t <= LayeringConfig.near_touch_ticks
  BY TicksAssumption DEF RecordsInv, RecordOK, OfKind
<1>8. \A p : p \in group <=>
        /\ p \in Positions(v)
        /\ from - LayerWindow - Span <= TsAt(v, p) /\ TsAt(v, p) <= to - LayerWindow
        /\ 0 <= ItemAt(v, p).ticks_from_touch
        /\ ItemAt(v, p).ticks_from_touch <= LayeringConfig.near_touch_ticks
        /\ ItemAt(v, p).participant = pid /\ ItemAt(v, p).side = side
  <2>1. from - LayerWindow - Span \in Int /\ to - LayerWindow \in Int
    BY <1>3
  <2>2. Slice(v, from - LayerWindow - Span, to - LayerWindow)
          = {p \in Positions(v) : /\ from - LayerWindow - Span <= TsAt(v, p)
                                  /\ TsAt(v, p) <= to - LayerWindow}
    BY <1>1, <2>1 DEF Legible
  <2> HIDE DEF c, from
  <2>3. QED
    BY <2>2 DEF LayeringGroup, Gathered, LayerWindow, Span
<1> HIDE DEF c, v, from, group
<1>9. \A p \in Positions(v) : /\ ev[p] \in OfKind("withdrawal")
                              /\ TsAt(v, p) = tape[ev[p]].ts
                              /\ ItemAt(v, p) = tape[ev[p]].rec
  BY <1>2, <1>5 DEF Shows
<1>10. \A i : i \in L <=> /\ i \in OfKind("withdrawal")
                          /\ tape[i].rec.participant = pid /\ tape[i].rec.side = side
                          /\ Near(tape[i].rec.ticks_from_touch)
  BY DEF Layer
<1> HIDE DEF L, Near, first, last
<1>11. \A p \in group : p \in Positions(v) /\ ev[p] \in L
  BY <1>7, <1>8, <1>9, <1>10
<1>12. \A p \in Positions(v) : ev[p] \in L => p \in group
  <2> SUFFICES ASSUME NEW p \in Positions(v), ev[p] \in L PROVE p \in group
    OBVIOUS
  <2>1. first <= TsAt(v, p) /\ TsAt(v, p) <= last /\ TsAt(v, p) \in Int
    BY <1>4, <1>9
  <2>2. from - LayerWindow - Span <= TsAt(v, p) /\ TsAt(v, p) <= to - LayerWindow
    BY <1>3, <1>4, <1>6, <2>1
  <2>3. QED
    BY <1>7, <1>8, <1>9, <1>10, <2>2
<1>13. \A i \in L : \E p \in Positions(v) : ev[p] = i
  <2> SUFFICES ASSUME NEW i \in L PROVE \E p \in Positions(v) : ev[p] = i
    OBVIOUS
  <2>1. i \in DOMAIN Withdrawn /\ Withdrawn[i].ts >= to - History
    BY <1>3, <1>4, <1>5, <1>6
  <2>2. QED
    BY <1>2, <2>1 DEF Shows
<1>14. Pairs(ev, group, L)
  <2>1. \A p, q \in group : ev[p] = ev[q] => p = q
    BY <1>2, <1>11 DEF Shows
  <2>2. QED
    BY <1>11, <1>12, <1>13, <2>1 DEF Pairs
<1>15. \A p, q \in group : p <= q <=> ev[p] <= ev[q]
  BY <1>2, <1>11 DEF Shows
<1>16. group \in SUBSET Positions(v)
  BY <1>11
<1>17. QED
  BY <1>1, <1>9, <1>11, <1>14, <1>15, <1>16 DEF c, v, from, group, L

\* The greatest and the least position of a group.
LEMMA GroupEnds ==
  ASSUME NEW w, NEW to \in Int, Legible(w, to), NEW G \in SUBSET Positions(w), G # {}
  PROVE  /\ Min(G) \in G /\ \A p \in G : Min(G) <= p
         /\ Max(G) \in G /\ \A p \in G : p <= Max(G)
         /\ G \in SUBSET Nat /\ IsFiniteSet(G)
<1>1. G \in SUBSET Nat /\ IsFiniteSet(G) /\ \A p \in G : p <= w.size
  BY StampsOf
<1>2. w.size \in Nat
  BY DEF Legible
<1>3. QED
  BY <1>1, <1>2, BoundedExtremes

\* The run the sweep settles on is all of a group that lies within one span
\* and ends in the slice.
LEMMA WidestIsAll ==
  ASSUME NEW c, NEW to \in Int, Legible(c.cancels, to), NEW from \in Int,
         NEW G \in SUBSET Positions(c.cancels), G # {},
         \A p \in G : TsAt(c.cancels, Max(G)) - TsAt(c.cancels, p) <= Span,
         from - LayerWindow < TsAt(c.cancels, Max(G)),
         TsAt(c.cancels, Max(G)) <= to - LayerWindow
  PROVE  WidestRun(c, G, from, to) = G
<1> DEFINE v == c.cancels
           ends == {i \in G : /\ from - LayerWindow < TsAt(v, i)
                              /\ TsAt(v, i) <= to - LayerWindow}
           width(hi) == Cardinality(RunEndingAt(c, G, hi))
           widest == {hi \in ends : \A other \in ends : width(other) <= width(hi)}
           top == Max(G)
<1>1. /\ top \in G /\ \A p \in G : p <= top
      /\ G \in SUBSET Nat /\ IsFiniteSet(G)
  BY GroupEnds
<1>2. RunEndingAt(c, G, top) = G
  BY <1>1 DEF RunEndingAt, Span
<1>3. \A hi : width(hi) <= Cardinality(G)
  <2> TAKE hi
  <2>1. RunEndingAt(c, G, hi) \subseteq G
    BY DEF RunEndingAt
  <2>2. QED
    BY <1>1, <2>1, FS_Subset
<1>4. top \in ends
  BY <1>1
<1>5. top \in widest
  <2>1. width(top) = Cardinality(G)
    BY <1>2
  <2> HIDE DEF width, ends, top
  <2>2. QED
    BY <1>3, <1>4, <2>1
<1>6. widest \subseteq G
  OBVIOUS
<1> HIDE DEF widest, top
<1>7. Max(widest) = top
  <2>1. widest \in SUBSET Nat /\ top \in Nat /\ \A p \in widest : p <= top
    BY <1>1, <1>6
  <2>2. Max(widest) \in widest /\ \A p \in widest : p <= Max(widest)
    BY <1>5, <2>1, BoundedExtremes
  <2>3. Max(widest) <= top /\ top <= Max(widest) /\ Max(widest) \in Nat
    BY <1>5, <2>1, <2>2
  <2>4. QED
    BY <2>1, <2>3
<1>8. ends # {}
  BY <1>4
<1>9. WidestRun(c, G, from, to) = RunEndingAt(c, G, Max(widest))
  BY <1>8 DEF WidestRun, LayerWindow, widest
<1>10. QED
  BY <1>2, <1>7, <1>9

\* A layer is reported by the scan that closes the window after its end.
LEMMA LayerIsRaised ==
  ASSUME ClockInv, WindowsInv, WholeInv, RecordsInv, NumbersInv, started,
         ctx.trades.overflowed = 0, ctx.cancels.overflowed = 0,
         LayeringConfig.opposite_window_ns > 0, LayeringConfig.placement_window_ns >= 0,
         NEW to \in Int, LastScan <= to, now <= to, NEW pid, NEW side \in Direction,
         Layered(pid, side), ClosingScan(LastOf(pid, side) + LayerWindow) = to,
         to - ScanInterval < LastOf(pid, side) + LayerWindow, LastOf(pid, side) + LayerWindow <= to
  PROVE  \E a \in LayeringScan(Expired(ctx, to), to - ScanInterval, to) :
           a.orders = Layer(pid, side)
<1> DEFINE c == Expired(ctx, to)
           v == c.cancels
           from == to - ScanInterval
           group == LayeringGroup(c, pid, side, from, to)
           L == Layer(pid, side)
           first == tape[Min(L)].ts
           last == LastOf(pid, side)
<1>1. /\ L # {} /\ last - first <= Span
      /\ Cardinality(L) >= LayeringConfig.min_orders
      /\ Cardinality({tape[i].rec.price : i \in L}) >= LayeringConfig.min_levels
      /\ TookOnTape(pid, Opposite(side), first - LayerWindow, last + LayerWindow, to)
  BY DEF Layered, LastOf
<1>2. /\ L \in SUBSET Nat /\ L \subseteq OfKind("withdrawal")
      /\ Min(L) \in L /\ Max(L) \in L /\ last = tape[Max(L)].ts
      /\ \A i \in L : /\ Min(L) <= i /\ i <= Max(L) /\ tape[i].ts \in Int
                      /\ first <= tape[i].ts /\ tape[i].ts <= last
  BY <1>1, LayerEnds DEF LastOf
<1>3. /\ LayerWindow \in Int /\ Span \in Int /\ History \in Int /\ ScanInterval \in Nat \ {0}
      /\ 2 * LayerWindow + Span + 2 * ScanInterval <= History /\ LayerWindow > 0
      /\ from \in Int
  <2>1. /\ LayeringConfig.opposite_window_ns \in Int /\ LayeringConfig.cancel_span_ns \in Int
        /\ LayeringConfig.placement_window_ns \in Int /\ ScanInterval \in Nat \ {0}
    BY DurationsAssumption, ScanIntervalAssumption
  <2>2. QED
    BY <2>1, HistoryCovers DEF LayerWindow, Span
<1>4. /\ group \in SUBSET Positions(v) /\ Legible(v, to)
      /\ \E ev : /\ Pairs(ev, group, L)
                 /\ \A p \in group : /\ TsAt(v, p) = tape[ev[p]].ts
                                     /\ ItemAt(v, p) = tape[ev[p]].rec
                 /\ \A p, q \in group : p <= q <=> ev[p] <= ev[q]
  BY <1>1, GatheredIsLayer
<1>5. PICK ev : /\ Pairs(ev, group, L)
                /\ \A p \in group : /\ TsAt(v, p) = tape[ev[p]].ts
                                    /\ ItemAt(v, p) = tape[ev[p]].rec
                /\ \A p, q \in group : p <= q <=> ev[p] <= ev[q]
  BY <1>4
<1>6. first \in Int /\ last \in Int
  BY <1>2
<1>7. Legible(c.trades, to) /\ Paid(c.trades)
      /\ \A k \in OfKind("trade") : tape[k].ts >= to - History
                                      => Has(c.trades, tape[k].ts, tape[k].rec)
  BY ScanFindsTape
<1>8. from < last + LayerWindow /\ last + LayerWindow <= to /\ from = to - ScanInterval
  OBVIOUS
<1>9. v = c.cancels /\ group = LayeringGroup(c, pid, side, from, to)
  OBVIOUS
<1> HIDE DEF c, v, from, group, L, first, last
<1>10. group # {}
  BY <1>1, <1>5 DEF Pairs
<1>11. /\ Min(group) \in group /\ Max(group) \in group
       /\ \A p \in group : Min(group) <= p /\ p <= Max(group) /\ p \in Nat
       /\ IsFiniteSet(group)
  BY <1>4, <1>10, GroupEnds
<1>12. ev[Min(group)] = Min(L) /\ ev[Max(group)] = Max(L)
  <2>1. PICK lo \in group : ev[lo] = Min(L)
    BY <1>2, <1>5 DEF Pairs
  <2>2. PICK hi \in group : ev[hi] = Max(L)
    BY <1>2, <1>5 DEF Pairs
  <2>3. ev[Min(group)] \in L /\ ev[Max(group)] \in L
    BY <1>5, <1>11 DEF Pairs
  <2>4. ev[Min(group)] <= Min(L) /\ Max(L) <= ev[Max(group)]
    BY <1>5, <1>11, <2>1, <2>2
  <2>5. /\ Min(L) \in Nat /\ Max(L) \in Nat
        /\ ev[Min(group)] \in Nat /\ ev[Max(group)] \in Nat
        /\ Min(L) <= ev[Min(group)] /\ ev[Max(group)] <= Max(L)
    BY <1>2, <2>3
  <2>6. QED
    BY <2>4, <2>5
<1>13. TsAt(v, Min(group)) = first /\ TsAt(v, Max(group)) = last
  BY <1>2, <1>5, <1>11, <1>12 DEF first
<1>14. WidestRun(c, group, from, to) = group
  <2>1. \A p \in group : TsAt(v, Max(group)) - TsAt(v, p) <= Span
    <3> TAKE p \in group
    <3>1. ev[p] \in L /\ TsAt(v, p) = tape[ev[p]].ts
      BY <1>5 DEF Pairs
    <3>2. first <= TsAt(v, p) /\ TsAt(v, p) \in Int
      BY <1>2, <3>1
    <3>3. last - TsAt(v, p) <= Span
      BY <1>1, <1>3, <1>6, <3>2
    <3>4. QED
      BY <1>13, <3>3
  <2>2. from - LayerWindow < TsAt(v, Max(group)) /\ TsAt(v, Max(group)) <= to - LayerWindow
    BY <1>3, <1>6, <1>8, <1>13
  <2>3. QED
    BY <1>3, <1>4, <1>9, <1>10, <2>1, <2>2, WidestIsAll
<1>15. LayeringBenefit(c, pid, side, group).qty > 0
  <2> DEFINE lo == first - LayerWindow
             hi == last + LayerWindow
             hits == Hits(c.trades, pid, Opposite(side), lo, hi, "Aggressor")
  <2>1. lo \in Int /\ hi \in Int
    BY <1>3, <1>6
  <2>2. PICK k \in OfKind("trade") :
          /\ tape[k].rec.taker = pid /\ tape[k].rec.aggressor = Opposite(side)
          /\ lo <= tape[k].ts /\ tape[k].ts <= hi
    BY <1>1 DEF TookOnTape
  <2>3. tape[k].ts >= to - History
    <3>1. tape[k].ts \in Int
      BY TimesOnTape
    <3>2. lo >= to - History
      BY <1>1, <1>3, <1>6, <1>8
    <3> HIDE DEF lo, hi
    <3>3. QED
      BY <1>3, <2>1, <2>2, <3>1, <3>2
  <2>4. PICK p \in Positions(c.trades) :
          TsAt(c.trades, p) = tape[k].ts /\ ItemAt(c.trades, p) = tape[k].rec
    BY <1>7, <2>3 DEF Has
  <2> HIDE DEF lo, hi
  <2>5. p \in hits
    <3>1. /\ SideOf(ItemAt(c.trades, p), pid) = Opposite(side)
          /\ RoleMatches(ItemAt(c.trades, p), pid, "Aggressor")
      <4>1. ItemAt(c.trades, p).taker = pid /\ ItemAt(c.trades, p).aggressor = Opposite(side)
        BY <2>2, <2>4
      <4>2. QED
        BY ONLY <4>1, TakerIsAggressor
    <3>2. lo <= TsAt(c.trades, p) /\ TsAt(c.trades, p) <= hi
      BY <2>2, <2>4
    <3>3. QED
      BY <3>1, <3>2 DEF Hits
  <2>6. DirectionalQty(c.trades, pid, Opposite(side), lo, hi, "Aggressor").qty > 0
    <3>1. hits # {}
      BY <2>5
    <3> HIDE DEF hits
    <3>2. DirectionalQty(c.trades, pid, Opposite(side), lo, hi, "Aggressor").qty > 0 <=> hits # {}
      BY <1>7, <2>1, DirectionalQtyIs DEF hits
    <3>3. QED
      BY <3>1, <3>2
  <2>7. LayeringBenefit(c, pid, side, group)
          = DirectionalQty(c.trades, pid, Opposite(side), lo, hi, "Aggressor")
    BY <1>9, <1>13 DEF LayeringBenefit, LayerWindow, lo, hi
  <2>8. QED
    BY <2>6, <2>7
<1>16. LayeringGates(c, pid, side, group)
  <2>1. Cardinality(group) = Cardinality(L)
    BY <1>5, <1>11, SameCount
  <2>2. {ItemAt(c.cancels, p).price : p \in group} = {tape[i].rec.price : i \in L}
    BY <1>5, <1>9 DEF Pairs
  <2>3. QED
    BY <1>1, <1>10, <1>15, <2>1, <2>2 DEF LayeringGates
<1> DEFINE a == LayeringAlert(c, pid, side, group, to)
<1>17. a.orders = L
  <2>1. a.orders = {ItemAt(v, p).order_id : p \in group}
    BY <1>9 DEF LayeringAlert
  <2>2. \A p \in group : ev[p] \in L /\ ItemAt(v, p).order_id = ev[p]
    <3> TAKE p \in group
    <3>1. ev[p] \in L /\ ItemAt(v, p) = tape[ev[p]].rec
      BY <1>5 DEF Pairs
    <3>2. tape[ev[p]].rec.order_id = ev[p]
      BY <1>2, <3>1 DEF NumbersInv
    <3>3. QED
      BY <3>1, <3>2
  <2>3. \A i \in L : \E p \in group : ItemAt(v, p).order_id = i
    BY <1>5, <2>2 DEF Pairs
  <2>4. QED
    BY <2>1, <2>2, <2>3
<1>18. a \in LayeringScan(c, from, to)
  <2> DEFINE who == {ItemAt(c.cancels, i).participant : i \in Positions(c.cancels)}
             run(p, s) == WidestRun(c, LayeringGroup(c, p, s, from, to), from, to)
  <2>1. pid \in who
    <3>1. PICK p \in group : TRUE
      BY <1>10
    <3>2. ItemAt(v, p).participant = pid /\ p \in Positions(v)
      BY <1>4, <1>9 DEF LayeringGroup
    <3>3. QED
      BY <1>9, <3>2
  <2>2. run(pid, side) = group
    BY <1>9, <1>14
  <2>3. <<pid, side>> \in who \X Direction
    BY <2>1
  <2>4. LayeringScan(c, from, to)
          = {LayeringAlert(c, g[1], g[2], run(g[1], g[2]), to) :
               g \in {h \in who \X Direction : LayeringGates(c, h[1], h[2], run(h[1], h[2]))}}
    BY DEF LayeringScan
  <2> HIDE DEF who, run
  <2>5. <<pid, side>>[1] = pid /\ <<pid, side>>[2] = side
    OBVIOUS
  <2>6. QED
    BY <1>16, <2>2, <2>3, <2>4, <2>5
<1> HIDE DEF a
<1>19. QED
  BY <1>17, <1>18 DEF c, from, L

\* A layer whose scan has run has an alert, if nothing was given up.
LayersInv ==
  enabled = "layering" /\ ctx.trades.overflowed = 0 /\ ctx.cancels.overflowed = 0 =>
    \A pid : \A side \in Direction :
      Layered(pid, side) /\ LastOf(pid, side) + LayerWindow <= LastScan =>
        \E a \in alerts : a.orders = Layer(pid, side)

\* A step that leaves a layer closed has added nothing to it.
LEMMA ClosedLayerIsOld ==
  ASSUME ClockInv, ClockInv', [Next]_vars, NEW pid, NEW side, Layer(pid, side)' # {},
         LayerWindow \in Int, LayerWindow > 0, LastOf(pid, side)' + LayerWindow <= LastScan'
  PROVE  /\ Layer(pid, side)' = Layer(pid, side) /\ Layer(pid, side) # {} /\ started
         /\ \A i \in Layer(pid, side) : tape'[i] = tape[i]
<1> DEFINE n == Len(tape) + 1
           M == Layer(pid, side)'
           L == Layer(pid, side)
           last == LastOf(pid, side)'
<1>1. /\ n \in Nat
      /\ \A i \in OfKind("withdrawal") : i \in OfKind("withdrawal")' /\ i \in 1 .. n - 1
      /\ \A i \in 1 .. n - 1 : tape'[i] = tape[i]
      /\ \A i \in OfKind("withdrawal")' : /\ tape'[i].ts \in Int
                                          /\ \/ i \in OfKind("withdrawal")
                                             \/ i = n /\ LastScan' <= tape'[i].ts
      /\ ~started => OfKind("withdrawal") = {}
  BY TapeOfStep
<1>2. /\ \A i \in M : i \in OfKind("withdrawal")' /\ tape'[i].ts <= last
      /\ last \in Int
  <2>1. Len(tape') \in Nat /\ DOMAIN tape' = 1 .. Len(tape')
    BY DEF ClockInv
  <2>2. \A i \in M : i \in OfKind("withdrawal")' /\ i \in DOMAIN tape'
    BY DEF Layer, OfKind
  <2>3. M \in SUBSET Nat /\ M # {} /\ \A i \in M : i <= Len(tape')
    BY <2>1, <2>2
  <2> HIDE DEF M
  <2>4. Max(M) \in M /\ \A i \in M : i <= Max(M)
    BY <2>1, <2>3, BoundedExtremes
  <2>5. \A i \in M : tape'[i].ts <= tape'[Max(M)].ts /\ tape'[i].ts \in Int
    BY <2>2, <2>4 DEF ClockInv
  <2>6. last = tape'[Max(M)].ts
    BY DEF LastOf, M
  <2>7. QED
    BY <2>2, <2>4, <2>5, <2>6
<1>3. LastScan' \in Int
  BY ScanIntervalAssumption DEF ClockInv, LastScan
<1> HIDE DEF n
<1>4. \A i \in M : i \in OfKind("withdrawal") /\ tape'[i] = tape[i]
  <2> HIDE DEF M, last
  <2> SUFFICES ASSUME NEW i \in M PROVE i \in OfKind("withdrawal") /\ tape'[i] = tape[i]
    OBVIOUS
  <2>1. tape'[i].ts \in Int /\ tape'[i].ts <= last
    BY <1>1, <1>2
  <2>2. last + LayerWindow <= LastScan'
    BY DEF last
  <2>3. ~(LastScan' <= tape'[i].ts)
    BY <1>2, <1>3, <2>1, <2>2
  <2>4. i \in OfKind("withdrawal")
    BY <1>1, <1>2, <2>3
  <2>5. QED
    BY <1>1, <2>4
<1>5. M \subseteq L
  BY <1>4 DEF Layer
<1>6. L \subseteq M
  BY <1>1 DEF Layer
<1>7. OfKind("withdrawal") # {}
  BY <1>4
<1>8. QED
  BY <1>1, <1>4, <1>5, <1>6, <1>7

LEMMA LayersKept ==
  ASSUME LayeringConfig.opposite_window_ns > 0, LayeringConfig.placement_window_ns >= 0,
         ClockInv, ClockInv', WindowsInv, WholeInv, RecordsInv, NumbersInv, GridInv,
         LayersInv, [Next]_vars
  PROVE  LayersInv'
<1>0. StillDisplaced /\ enabled' = enabled
  <2>1. enabled' = enabled
    BY StepsApply DEF Apply, Finish, vars
  <2>2. QED
    BY <2>1, WholeKept
<1> SUFFICES ASSUME enabled = "layering", ctx.trades.overflowed = 0, ctx.cancels.overflowed = 0,
                    NEW pid, NEW side \in Direction, Layered(pid, side)',
                    LastOf(pid, side)' + LayerWindow <= LastScan'
             PROVE  \E a \in alerts' : a.orders = Layer(pid, side)'
  BY <1>0 DEF LayersInv, StillDisplaced
<1> DEFINE L == Layer(pid, side)
           last == LastOf(pid, side)
           p == ClosingScan(last + LayerWindow)
<1>1. LayerWindow \in Int /\ LayerWindow > 0 /\ ScanInterval \in Nat \ {0}
  BY DurationsAssumption, ScanIntervalAssumption DEF LayerWindow
<1>2. Layer(pid, side)' # {}
  BY DEF Layered
<1>3. /\ Layer(pid, side)' = L /\ L # {} /\ started
      /\ \A i \in L : tape'[i] = tape[i]
  BY <1>1, <1>2, ClosedLayerIsOld
<1>4. /\ Min(L) \in L /\ Max(L) \in L
      /\ \A i \in L : tape[i].ts \in Int
      /\ L \subseteq OfKind("withdrawal")
  BY <1>3, LayerEnds
<1>5. LastOf(pid, side)' = last /\ tape'[Min(L)].ts = tape[Min(L)].ts /\ last \in Int
  <2>1. LastOf(pid, side)' = tape'[Max(L)].ts
    BY <1>3 DEF LastOf
  <2>2. last = tape[Max(L)].ts
    BY DEF LastOf
  <2>3. QED
    BY <1>3, <1>4, <2>1, <2>2
<1>6. LastScan' \in Int /\ last + LayerWindow <= LastScan' /\ last + LayerWindow \in Int
  BY <1>1, <1>5, ScanIntervalAssumption DEF ClockInv, LastScan
<1>7. /\ OnGrid(p) /\ last + LayerWindow <= p /\ p < last + LayerWindow + ScanInterval
      /\ p <= LastScan' /\ p \in Int
  <2>1. OnGrid(LastScan')
    <3>1. started' /\ GridInv'
      BY <1>3, GridKept, ScansOfStep
    <3>2. OnGrid(next_scan')
      BY <3>1 DEF GridInv
    <3>3. OnGrid(next_scan' - ScanInterval)
      BY <3>2, ScansOnGrid
    <3>4. QED
      BY <3>3 DEF LastScan
  <2> DEFINE t == last + LayerWindow
  <2>2. t \in Int /\ t <= LastScan'
    BY <1>6
  <2> HIDE DEF t
  <2>3. /\ OnGrid(ClosingScan(t)) /\ t <= ClosingScan(t) /\ ClosingScan(t) < t + ScanInterval
        /\ ClosingScan(t) <= LastScan' /\ ClosingScan(t) \in Int
    BY <2>1, <2>2, ClosedBy, ClosingScanIs
  <2>4. QED
    BY <2>3 DEF t
\* The opposite trade was there before, for it precedes a scan that has run.
<1>8. Layered(pid, side)
  <2> DEFINE first == tape[Min(L)].ts
             lo == first - LayerWindow
             hi == last + LayerWindow
             want == Opposite(side)
  <2>1. /\ last - first <= Span
        /\ Cardinality(L) >= LayeringConfig.min_orders
        /\ Cardinality({tape'[i].rec.price : i \in L}) >= LayeringConfig.min_levels
        /\ TookOnTape(pid, want, lo, hi, p)'
    <3>1. /\ tape'[Max(L)].ts - tape'[Min(L)].ts <= Span
          /\ Cardinality(L) >= LayeringConfig.min_orders
          /\ Cardinality({tape'[i].rec.price : i \in L}) >= LayeringConfig.min_levels
          /\ TookOnTape(pid, want, lo, hi, p)'
      BY <1>3 DEF Layered, LastOf
    <3>2. tape'[Max(L)].ts = last /\ tape'[Min(L)].ts = first
      BY <1>3, <1>5 DEF LastOf
    <3>3. QED
      BY <3>1, <3>2
  <2>2. {tape'[i].rec.price : i \in L} = {tape[i].rec.price : i \in L}
    BY <1>3
  <2>3. TookOnTape(pid, want, lo, hi, p)
    <3>1. PICK k \in OfKind("trade")' :
            /\ tape'[k].rec.taker = pid /\ tape'[k].rec.aggressor = want
            /\ lo' <= tape'[k].ts /\ tape'[k].ts <= hi' /\ tape'[k].ts < p'
      BY <2>1 DEF TookOnTape
    <3>2. k \in OfKind("trade") /\ tape'[k] = tape[k]
      <4>1. /\ Len(tape) \in Nat
            /\ \A i \in OfKind("trade") : i \in 1 .. Len(tape)
            /\ \A i \in 1 .. Len(tape) : tape'[i] = tape[i]
            /\ \A i \in OfKind("trade")' : /\ tape'[i].ts \in Int
                                           /\ \/ i \in OfKind("trade")
                                              \/ (i = Len(tape) + 1 /\ LastScan' <= tape'[i].ts)
        BY TapeOfStep
      <4>2. tape'[k].ts < p /\ tape'[k].ts \in Int
        BY <1>5, <3>1, <4>1 DEF ClosingScan
      <4> HIDE DEF p
      <4>3. ~(LastScan' <= tape'[k].ts)
        BY <1>6, <1>7, <4>2
      <4>4. QED
        BY <4>1, <4>3
    <3>3. lo' = lo /\ hi' = hi /\ p' = p
      BY <1>3, <1>5 DEF ClosingScan
    <3>4. /\ tape[k].rec.taker = pid /\ tape[k].rec.aggressor = want
          /\ lo <= tape[k].ts /\ tape[k].ts <= hi /\ tape[k].ts < p
      BY <3>1, <3>2, <3>3
    <3> HIDE DEF lo, hi, p, want
    <3>5. QED
      BY <3>2, <3>4 DEF TookOnTape
  <2>4. QED
    BY <1>3, <2>1, <2>2, <2>3 DEF Layered, LastOf
<1>9. /\ LastScan \in Int /\ alerts \subseteq alerts'
      /\ LastScan < p => now < p /\ ScanAt(p) \subseteq alerts'
  BY <1>3, <1>7, ScansOfStep
<1>10. CASE last + LayerWindow <= LastScan
  <2>1. PICK a \in alerts : a.orders = L
    BY <1>8, <1>10 DEF LayersInv
  <2>2. QED
    BY <1>3, <1>9, <2>1
<1>11. CASE ~(last + LayerWindow <= LastScan)
  <2>1. /\ LastScan < p /\ LastScan <= p /\ now <= p
        /\ p - ScanInterval < last + LayerWindow
    <3> HIDE DEF last, p
    <3>1. LastScan < p /\ p - ScanInterval < last + LayerWindow /\ LastScan <= p
      BY <1>1, <1>6, <1>7, <1>9, <1>11
    <3>2. now < p /\ now \in Int
      BY <1>3, <1>9, <3>1 DEF ClockInv
    <3>3. QED
      BY <1>7, <3>1, <3>2
  <2>2. PICK a \in LayeringScan(Expired(ctx, p), p - ScanInterval, p) : a.orders = L
    BY <1>3, <1>7, <1>8, <2>1, LayerIsRaised
  <2>3. ScanAt(p) = LayeringScan(Expired(ctx, p), p - ScanInterval, p)
    BY DEF ScanAt, Scan
  <2>4. QED
    BY <1>3, <1>9, <2>1, <2>2, <2>3
<1>12. QED
  BY <1>10, <1>11

(***************************************************************************)
(* A layer with somebody behind it is reported whole by the scan that      *)
(* closes the window after its last withdrawal, for every tape and every   *)
(* configuration that looks past the withdrawals at all, as long as no     *)
(* window had to give up an entry for room. With an opposite window of     *)
(* nothing, a withdrawal at a scan point would come after the scan that    *)
(* closes its own layer.                                                   *)
(***************************************************************************)
THEOREM LayersReportedWholeCorrect ==
  ASSUME LayeringConfig.opposite_window_ns > 0, LayeringConfig.placement_window_ns >= 0
  PROVE  Spec => []LayersReportedWhole
<1>1. Init => RecordsInv /\ NumbersInv /\ GridInv /\ LayersInv
  <2> SUFFICES ASSUME Init PROVE RecordsInv /\ NumbersInv /\ GridInv /\ LayersInv
    OBVIOUS
  <2>1. DOMAIN tape = {} /\ ~started
    BY DEF Init
  <2>2. OfKind("withdrawal") = {}
    BY <2>1 DEF OfKind
  <2>3. \A pid, side : Layer(pid, side) = {}
    BY <2>2 DEF Layer
  <2>4. \A pid, side : ~Layered(pid, side)
    BY <2>3 DEF Layered
  <2>5. QED
    BY <2>1, <2>2, <2>4 DEF RecordsInv, NumbersInv, GridInv, LayersInv
<1>2. /\ ClockInv /\ ClockInv' /\ WindowsInv /\ WholeInv
      /\ RecordsInv /\ NumbersInv /\ GridInv /\ LayersInv /\ [Next]_vars
      => RecordsInv' /\ NumbersInv' /\ GridInv' /\ LayersInv'
  BY RecordsKept, NumbersKept, GridKept, LayersKept
<1>3. LayersInv => LayersReportedWhole
  <2> SUFFICES ASSUME LayersInv, enabled = "layering", NothingDisplaced
               PROVE  \A pid \in {tape[i].rec.participant : i \in OfKind("withdrawal")},
                         side \in Direction :
                        /\ Layered(pid, side)
                        /\ LastOf(pid, side) + LayerWindow <= LastScan
                        => \E a \in alerts : a.orders = Layer(pid, side)
    BY DEF LayersReportedWhole, Layered, Layer, LastOf, LayerWindow, Span
  <2>1. ctx.trades.overflowed = 0 /\ ctx.cancels.overflowed = 0
    BY DEF NothingDisplaced
  <2>2. QED
    BY <2>1 DEF LayersInv
<1>4. QED
  BY <1>1, <1>2, <1>3, WindowsInvariant, WholeInvariant, PTL DEF Spec

-----------------------------------------------------------------------------
(***************************************************************************)
(* Momentum ignition: what is on the tape, summed and looked up.           *)
(***************************************************************************)
TapeTotal(t, S) == SumOf(S, LAMBDA i : t[i].rec.qty)

LEMMA TapeTotalIsUnits ==
  ASSUME NEW t, NEW S, IsFiniteSet(S), \A i \in S : t[i].rec.qty \in Nat
  PROVE  TapeTotal(t, S) = Cardinality(Units([i \in S |-> t[i].rec.qty], S))
<1> DEFINE q == [i \in S |-> t[i].rec.qty]
           Solves(f) == f = [s \in SUBSET S |->
                               IF s = {} THEN 0 ELSE t[One(s)].rec.qty + f[s \ {One(s)}]]
           iter == CHOOSE f : Solves(f)
<1>1. TapeTotal(t, S) = iter[S]
  BY DEF TapeTotal, SumOf, MapThenSumSet, MapThenFoldSet, One
<1>2. \A i \in S : q[i] = t[i].rec.qty /\ q[i] \in Nat
  OBVIOUS
<1>3. \A s \in SUBSET S : s # {} => One(s) \in S
  BY DEF One
<1> HIDE DEF q
<1>4. \A f : Solves(f) <=> Adds(f, q, S)
  BY <1>2, <1>3 DEF Adds
<1>5. \E f : Solves(f)
  BY <1>2, <1>4, CountAdds
<1>6. Solves(iter)
  <2> HIDE DEF Solves
  <2>1. QED
    BY <1>5
<1>7. QED
  <2> HIDE DEF Solves, iter
  <2>1. Adds(iter, q, S)
    BY <1>4, <1>6
  <2>2. QED
    BY <1>1, <1>2, <2>1, OnlyCountAdds DEF q

\* Some events, and the prints of the window among them, in a stretch of time.
Within(E, lo, hi) == {i \in E : lo <= tape[i].ts /\ tape[i].ts <= hi}

Printing(v, ev, E, lo, hi) ==
  {p \in Positions(v) : /\ lo <= TsAt(v, p) /\ TsAt(v, p) <= hi /\ ev[p] \in E}

ShowsPrints(v, ev, since) ==
  v.size \in Nat /\ since \in Int /\ Shows(v, Printed, ev, since)

\* They are as many orders, and as much.
AsMuch(v, A, B) ==
  /\ Total(v, A) = TapeTotal(tape, B) /\ Total(v, A) \in Nat
  /\ Total(v, A) > 0 <=> B # {}
  /\ {ItemAt(v, p).taker_order : p \in A} = {tape[i].rec.taker_order : i \in B}

LEMMA TotalsOnTape ==
  ASSUME ClockInv, RecordsInv, NEW v, NEW ev, NEW since, ShowsPrints(v, ev, since),
         NEW E \in SUBSET OfKind("trade"), NEW lo \in Int, NEW hi, since <= lo
  PROVE  AsMuch(v, Printing(v, ev, E, lo, hi), Within(E, lo, hi))
<1> DEFINE A == {p \in Positions(v) : lo <= TsAt(v, p) /\ TsAt(v, p) <= hi /\ ev[p] \in E}
           B == {i \in E : lo <= tape[i].ts /\ tape[i].ts <= hi}
           q == [p \in A |-> ItemAt(v, p).qty]
           r == [i \in B |-> tape[i].rec.qty]
<1> USE DEF ShowsPrints
<1>0. /\ \A i \in OfKind("trade") : tape[i].ts \in Int
      /\ v.size \in Nat /\ since \in Int /\ Shows(v, Printed, ev, since)
  BY TimesOnTape
<1>1. /\ DOMAIN Printed = OfKind("trade")
      /\ \A i \in OfKind("trade") : /\ Printed[i].ts = tape[i].ts
                                     /\ Printed[i].item = tape[i].rec
  BY DEF Printed
<1>2. \A p \in Positions(v) : /\ ev[p] \in OfKind("trade")
                              /\ TsAt(v, p) = tape[ev[p]].ts
                              /\ ItemAt(v, p) = tape[ev[p]].rec
  BY <1>1 DEF Shows
<1>3. \A i \in OfKind("trade") : tape[i].rec.qty \in Nat \ {0}
  BY DEF RecordsInv, RecordOK, OfKind
<1>4. Pairs(ev, A, B)
  <2>1. \A p \in A : ev[p] \in B
    BY <1>2
  <2>2. \A p, s \in A : ev[p] = ev[s] => p = s
    BY DEF Shows
  <2>3. \A i \in B : \E p \in A : ev[p] = i
    <3> TAKE i \in B
    <3>1. i \in OfKind("trade") /\ tape[i].ts >= since
      BY <1>0
    <3>2. PICK p \in Positions(v) : ev[p] = i
      BY <1>1, <3>1 DEF Shows
    <3>3. p \in A
      BY <1>2, <3>2
    <3>4. QED
      BY <3>2, <3>3
  <2> HIDE DEF A, B
  <2>4. QED
    BY <2>1, <2>2, <2>3 DEF Pairs
<1>5. IsFiniteSet(A)
  <2>1. 0 \in Int /\ v.size - 1 \in Int
    OBVIOUS
  <2>2. IsFiniteSet(0 .. v.size - 1)
    BY ONLY <2>1, FS_Interval
  <2>3. A \subseteq 0 .. v.size - 1
    BY DEF Positions
  <2>4. QED
    BY <2>2, <2>3, FS_Subset
<1>6. \A p \in A : /\ p \in Positions(v) /\ q[p] = ItemAt(v, p).qty
                   /\ q[p] \in Nat \ {0} /\ ev[p] \in B
  BY <1>2, <1>3, <1>4 DEF Pairs
<1>7. \A i \in B : r[i] = tape[i].rec.qty /\ r[i] \in Nat
  BY <1>3
<1> HIDE DEF A, B
<1>8. \A p \in A : r[ev[p]] = q[p]
  BY <1>2, <1>6, <1>7
<1>9. IsFiniteSet(B)
  BY <1>4, <1>5, SameCount
<1>10. Total(v, A) = Cardinality(Units(q, A))
  BY <1>5, <1>6, SumIsUnits DEF Total
<1>11. TapeTotal(tape, B) = Cardinality(Units(r, B))
  BY <1>7, <1>9, TapeTotalIsUnits
<1>12. Cardinality(Units(r, B)) = Cardinality(Units(q, A))
  <2> HIDE DEF q, r
  <2>1. QED
    BY <1>4, <1>5, <1>6, <1>8, SameUnits
<1>13. Total(v, A) \in Nat /\ (Total(v, A) > 0 <=> A # {})
  <2>1. \A p \in A : ItemAt(v, p).qty \in Nat \ {0}
    BY <1>6
  <2>2. QED
    BY <1>5, <2>1, QuantityOfPrints
<1>14. A # {} <=> B # {}
  BY <1>4 DEF Pairs
<1>15. {ItemAt(v, p).taker_order : p \in A} = {tape[i].rec.taker_order : i \in B}
  <2>1. \A p \in A : ItemAt(v, p).taker_order = tape[ev[p]].rec.taker_order /\ ev[p] \in B
    BY <1>2, <1>6
  <2>2. \A i \in B : \E p \in A : ev[p] = i
    BY <1>4 DEF Pairs
  <2>3. QED
    BY <2>1, <2>2
<1>16. AsMuch(v, A, B)
  BY <1>10, <1>11, <1>12, <1>13, <1>14, <1>15 DEF AsMuch
<1>17. QED
  BY <1>16 DEF A, B, Printing, Within

\* The mid a scan looks up is the one on the tape, if the window reaches back
\* to an event before the time asked for.
LEMMA MidIsFound ==
  ASSUME ClockInv, NEW c, NEW to \in Int, Legible(c.mids, to), NEW since \in Int, NEW ev,
         Shows(c.mids, Quoted, ev, since), NEW t \in Int, NEW i \in DOMAIN tape,
         since <= tape[i].ts, tape[i].ts <= t
  PROVE  Mid2At(c, t) = MidOnTape(t)
<1> DEFINE w == c.mids
           n == w.size
           ts == [p \in 0 .. n - 1 |-> TsAt(w, p)]
           k == LowerBound(w, t + 1)
           past == {j \in DOMAIN tape : tape[j].ts <= t}
<1>1. /\ n \in Nat /\ Positions(w) = 0 .. n - 1
      /\ \A p \in Positions(w) : TsAt(w, p) \in Int /\ ts[p] = TsAt(w, p)
      /\ \A p, q \in Positions(w) : p <= q => TsAt(w, p) <= TsAt(w, q)
  BY DEF Legible, Positions
<1>2. \A p \in Positions(w) : /\ ev[p] \in DOMAIN tape
                              /\ TsAt(w, p) = tape[ev[p]].ts
                              /\ ItemAt(w, p) = tape[ev[p]].mid2
  <2>1. DOMAIN Quoted = DOMAIN tape
    BY DEF Quoted
  <2>2. \A j \in DOMAIN tape : Quoted[j].ts = tape[j].ts /\ Quoted[j].item = tape[j].mid2
    BY DEF Quoted
  <2>3. QED
    BY <2>1, <2>2 DEF Shows
<1>3. \A j \in DOMAIN tape : tape[j].ts >= since => \E p \in Positions(w) : ev[p] = j
  BY DEF Shows, Quoted
<1>4. \A p, q \in Positions(w) : p <= q <=> ev[p] <= ev[q]
  BY DEF Shows
<1>5. /\ Len(tape) \in Nat /\ DOMAIN tape = 1 .. Len(tape)
      /\ \A j \in DOMAIN tape : tape[j].ts \in Int
      /\ \A j, l \in DOMAIN tape : j <= l => tape[j].ts <= tape[l].ts
  BY DEF ClockInv
<1> HIDE DEF w, n, ts
<1>6. Found(ts, t + 1, 0, n, k)
  <2>1. \A p \in 0 .. n - 1 : TsAt(w, p) = ts[p]
    BY <1>1
  <2>2. Sorted(ts, n)
    BY <1>1 DEF Sorted
  <2>3. t + 1 \in Int /\ w.size = n /\ w.size \in Nat
    BY <1>1 DEF n
  <2>4. QED
    BY <1>1, <2>1, <2>2, <2>3, LowerBoundFinds
<1> HIDE DEF k
<1>7. /\ k \in 0 .. n
      /\ \A p \in Positions(w) : TsAt(w, p) <= t <=> p <= k - 1
  <2>1. k \in 0 .. n
    BY <1>6 DEF Found
  <2>2. \A p \in Positions(w) : p <= k - 1 => ts[p] < t + 1
    BY <1>1, <1>6, <2>1 DEF Found
  <2>3. \A p \in Positions(w) : ~(p <= k - 1) => ts[p] >= t + 1
    BY <1>1, <1>6, <2>1 DEF Found
  <2>4. QED
    BY <1>1, <2>1, <2>2, <2>3
<1>8. PICK p0 \in Positions(w) : ev[p0] = i
  BY <1>3
<1>9. p0 <= k - 1 /\ k # 0 /\ k - 1 \in Positions(w)
  BY <1>1, <1>2, <1>7, <1>8
<1> DEFINE m == ev[k - 1]
<1>10. m \in DOMAIN tape /\ tape[m].ts <= t /\ i <= m
  BY <1>1, <1>2, <1>4, <1>7, <1>8, <1>9
<1>11. \A j \in past : j <= m
  <2> TAKE j \in past
  <2>1. CASE tape[j].ts >= since
    <3>1. PICK p \in Positions(w) : ev[p] = j
      BY <1>3, <2>1
    <3>2. p <= k - 1
      BY <1>2, <1>7, <3>1
    <3>3. QED
      BY <1>4, <1>9, <3>1, <3>2
  <2>2. CASE ~(tape[j].ts >= since)
    <3>1. tape[i].ts <= tape[m].ts
      BY <1>5, <1>10
    <3>2. ~(tape[m].ts <= tape[j].ts)
      BY <1>5, <1>10, <2>2, <3>1
    <3>3. ~(m <= j)
      BY <1>5, <1>10, <3>2
    <3>4. QED
      BY <1>5, <1>10, <3>3
  <2>3. QED
    BY <2>1, <2>2
<1>12. MidOnTape(t) = tape[m].mid2
  <2> HIDE DEF m
  <2>1. past \in SUBSET Nat /\ past # {} /\ (\A j \in past : j <= Len(tape)) /\ m \in past
    BY <1>5, <1>10
  <2>2. MidOnTape(t) = tape[Max(past)].mid2
    BY <2>1 DEF MidOnTape
  <2> HIDE DEF past
  <2>3. Max(past) \in past /\ \A j \in past : j <= Max(past)
    BY <1>5, <2>1, BoundedExtremes
  <2>4. Max(past) = m
    <3>1. Max(past) <= m /\ m <= Max(past) /\ m \in Nat /\ Max(past) \in Nat
      BY <1>11, <2>1, <2>3
    <3>2. QED
      BY <3>1
  <2>5. QED
    BY <2>2, <2>4
<1>13. Mid2At(c, t) = ItemAt(w, k - 1)
  BY <1>9 DEF Mid2At, w, k
<1>14. QED
  BY <1>2, <1>9, <1>12, <1>13

\* The parts of IgnitedOnTape.
TapeReach(to) ==
  /\ BurstStart(to) > 0
  /\ \E i \in OfKind("trade") : to - History <= tape[i].ts /\ tape[i].ts <= BurstStart(to)

TapeDirection(to) ==
  IF MidOnTape(BurstEnd(to)) > MidOnTape(BurstStart(to)) THEN "Buy" ELSE "Sell"

TapeMoved(to) ==
  LET before == MidOnTape(BurstStart(to))
      after  == MidOnTape(BurstEnd(to))
  IN  /\ NoPrice \notin {before, after}
      /\ MaxOf(after - before, before - after) >= 2 * TickSize * MomentumConfig.min_move_ticks

Took(pid, dir) ==
  {i \in OfKind("trade") : tape[i].rec.taker = pid /\ tape[i].rec.aggressor = dir}

Dealt(pid, dir) == {i \in OfKind("trade") : SideOf(tape[i].rec, pid) = dir}

TapeJudged(pid, to) ==
  LET lo      == BurstStart(to)
      hi      == BurstEnd(to)
      dir     == TapeDirection(to)
      with    == Within(Took(pid, dir), lo, hi)
      against == Within(Took(pid, Opposite(dir)), lo, hi)
      burst   == Within(OfKind("trade"), lo, hi)
      back    == {i \in Within(Dealt(pid, Opposite(dir)), hi, hi + MomentumConfig.reversal_ns) :
                    tape[i].ts < to}
  IN  /\ Cardinality({tape[i].rec.taker_order : i \in with}) >= MomentumConfig.min_orders
      /\ TapeTotal(tape, with) > TapeTotal(tape, against)
      /\ AtLeast(TapeTotal(tape, with), TapeTotal(tape, burst), MomentumConfig.min_share)
      /\ AtLeast(TapeTotal(tape, back), TapeTotal(tape, with), MomentumConfig.min_reverse_fraction)

LEMMA IgnitedIs ==
  ASSUME RecordsInv, NEW pid, NEW to
  PROVE  IgnitedOnTape(pid, to) <=> TapeMoved(to) /\ TapeJudged(pid, to)
<1> DEFINE lo == BurstStart(to)
           hi == BurstEnd(to)
           dir == IF MidOnTape(hi) > MidOnTape(lo) THEN "Buy" ELSE "Sell"
           burst == {i \in OfKind("trade") : lo <= tape[i].ts /\ tape[i].ts <= hi}
           with == {i \in burst : tape[i].rec.taker = pid /\ tape[i].rec.aggressor = dir}
           against == {i \in burst : tape[i].rec.taker = pid /\ tape[i].rec.aggressor # dir}
           back == {i \in OfKind("trade") :
                      /\ hi <= tape[i].ts /\ tape[i].ts <= hi + MomentumConfig.reversal_ns
                      /\ tape[i].ts < to
                      /\ SideOf(tape[i].rec, pid) = Opposite(dir)}
<1>1. dir = TapeDirection(to) /\ dir \in Direction /\ Opposite(dir) \in Direction
  BY DEF TapeDirection, Direction, Opposite
<1>2. burst = Within(OfKind("trade"), lo, hi)
  BY DEF Within
<1>3. with = Within(Took(pid, dir), lo, hi)
  BY DEF Within, Took
<1>4. against = Within(Took(pid, Opposite(dir)), lo, hi)
  <2>1. \A i \in OfKind("trade") : tape[i].rec.aggressor \in Direction
    BY DEF RecordsInv, RecordOK, OfKind
  <2>2. \A d \in Direction : d # dir <=> d = Opposite(dir)
    BY <1>1 DEF Direction, Opposite
  <2> HIDE DEF lo, hi, dir
  <2>3. QED
    BY <2>1, <2>2 DEF Within, Took
<1>5. back = {i \in Within(Dealt(pid, Opposite(dir)), hi, hi + MomentumConfig.reversal_ns) :
                tape[i].ts < to}
  BY DEF Within, Dealt
<1>6. IgnitedOnTape(pid, to) <=>
        /\ TapeMoved(to)
        /\ Cardinality({tape[i].rec.taker_order : i \in with}) >= MomentumConfig.min_orders
        /\ TapeTotal(tape, with) > TapeTotal(tape, against)
        /\ AtLeast(TapeTotal(tape, with), TapeTotal(tape, burst), MomentumConfig.min_share)
        /\ AtLeast(TapeTotal(tape, back), TapeTotal(tape, with), MomentumConfig.min_reverse_fraction)
  BY DEF IgnitedOnTape, TapeMoved, TapeTotal
<1> HIDE DEF lo, hi, dir, burst, with, against, back
<1>7. TapeJudged(pid, to) <=>
        /\ Cardinality({tape[i].rec.taker_order : i \in with}) >= MomentumConfig.min_orders
        /\ TapeTotal(tape, with) > TapeTotal(tape, against)
        /\ AtLeast(TapeTotal(tape, with), TapeTotal(tape, burst), MomentumConfig.min_share)
        /\ AtLeast(TapeTotal(tape, back), TapeTotal(tape, with), MomentumConfig.min_reverse_fraction)
  BY <1>1, <1>2, <1>3, <1>4, <1>5 DEF TapeJudged, lo, hi
<1>8. QED
  BY <1>6, <1>7

\* Without a burst there is nothing to judge.
LEMMA NoBurstNoJudgement ==
  ASSUME ClockInv, NEW pid, NEW to, BurstStart(to) \in Int, BurstEnd(to) \in Int,
         ~(BurstStart(to) <= BurstEnd(to))
  PROVE  ~TapeJudged(pid, to)
<1> DEFINE lo == BurstStart(to)
           hi == BurstEnd(to)
           dir == TapeDirection(to)
<1>1. \A S \in SUBSET OfKind("trade") : Within(S, lo, hi) = {}
  <2>1. \A i \in OfKind("trade") : tape[i].ts \in Int
    BY TimesOnTape
  <2>2. \A t \in Int : ~(lo <= t /\ t <= hi)
    OBVIOUS
  <2>3. QED
    BY <2>1, <2>2 DEF Within
<1>2. Within(Took(pid, dir), lo, hi) = {} /\ Within(Took(pid, Opposite(dir)), lo, hi) = {}
  BY <1>1 DEF Took
<1>3. ~(TapeTotal(tape, {}) > TapeTotal(tape, {}))
  <2>1. TapeTotal(tape, {}) \in Nat
    <3>1. IsFiniteSet({}) /\ \A i \in {} : tape[i].rec.qty \in Nat
      BY FS_EmptySet
    <3> DEFINE q == [i \in {} |-> tape[i].rec.qty]
    <3>2. TapeTotal(tape, {}) = Cardinality(Units(q, {}))
      BY <3>1, TapeTotalIsUnits
    <3> HIDE DEF q
    <3>3. \A i \in {} : q[i] \in Nat
      OBVIOUS
    <3>4. QED
      BY <3>1, <3>2, <3>3, UnitsFinite
  <2>2. QED
    BY <2>1
<1>4. QED
  BY <1>2, <1>3 DEF TapeJudged

LEMMA BurstTimes ==
  ASSUME MomentumConfig.revert_ns > 0, MomentumConfig.reversal_ns >= 0, NEW to \in Int
  PROVE  /\ BurstStart(to) \in Int /\ BurstEnd(to) \in Int /\ MomentumConfig.reversal_ns \in Int
         /\ to - History \in Int /\ to - History <= BurstStart(to)
         /\ BurstEnd(to) < to
<1>1. /\ MomentumConfig.revert_ns \in Int /\ MomentumConfig.burst_ns \in Int
      /\ MomentumConfig.reversal_ns \in Int /\ ScanInterval \in Nat \ {0} /\ History \in Int
      /\ MomentumConfig.revert_ns + MomentumConfig.burst_ns + MomentumConfig.reversal_ns
           + 2 * ScanInterval <= History
  BY DurationsAssumption, ScanIntervalAssumption, HistoryCovers
<1>2. /\ BurstEnd(to) = to - MomentumConfig.revert_ns
      /\ BurstStart(to) = (to - MomentumConfig.revert_ns) - MomentumConfig.burst_ns
  BY DEF BurstEnd, BurstStart
<1>3. QED
  BY <1>1, <1>2

\* Whether a scan judges a burst is whether a recent print came before it.
LEMMA ReachIsSeen ==
  ASSUME NEW to \in Int, NEW v, Legible(v, to), NEW ev,
         Shows(v, Printed, ev, to - History), BurstStart(to) \in Int
  PROVE  BurstInReach(v, to) <=> TapeReach(to)
<1>1. /\ DOMAIN Printed = OfKind("trade")
      /\ \A i \in OfKind("trade") : Printed[i].ts = tape[i].ts
  BY DEF Printed
<1>2. \A p \in Positions(v) : /\ ev[p] \in OfKind("trade") /\ TsAt(v, p) = tape[ev[p]].ts
                              /\ to - History <= TsAt(v, p)
  <2>1. History \in Int /\ \A p \in Positions(v) : TsAt(v, p) \in Int
    BY HistoryIsInt DEF Legible
  <2>2. QED
    BY <1>1, <2>1 DEF Shows
<1>3. v.size \in Nat /\ Positions(v) = 0 .. v.size - 1 /\ FrontTs(v) = TsAt(v, 0)
  BY DEF Legible, Positions, FrontTs
<1>4. BurstInReach(v, to) => TapeReach(to)
  <2> SUFFICES ASSUME BurstInReach(v, to) PROVE TapeReach(to)
    OBVIOUS
  <2>1. v.size > 0 /\ TsAt(v, 0) <= BurstStart(to) /\ BurstStart(to) > 0
    BY <1>3 DEF BurstInReach
  <2>2. 0 \in Positions(v)
    BY <1>3, <2>1
  <2>3. QED
    BY <1>2, <2>1, <2>2 DEF TapeReach
<1>5. TapeReach(to) => BurstInReach(v, to)
  <2> SUFFICES ASSUME TapeReach(to) PROVE BurstInReach(v, to)
    OBVIOUS
  <2>1. PICK i \in OfKind("trade") : to - History <= tape[i].ts /\ tape[i].ts <= BurstStart(to)
    BY DEF TapeReach
  <2>2. PICK p \in Positions(v) : ev[p] = i
    <3>1. \A x, y : x <= y => y >= x
      OBVIOUS
    <3>2. QED
      BY <1>1, <2>1, <3>1 DEF Shows
  <2>3. 0 \in Positions(v) /\ 0 <= p /\ v.size > 0
    BY <1>3, <2>2
  <2>4. TsAt(v, 0) <= TsAt(v, p) /\ TsAt(v, 0) \in Int /\ TsAt(v, p) \in Int
    BY <2>2, <2>3 DEF Legible
  <2>5. TsAt(v, p) <= BurstStart(to)
    BY <1>2, <2>1, <2>2
  <2>6. TsAt(v, 0) <= BurstStart(to)
    BY <2>4, <2>5
  <2>7. QED
    BY <1>3, <2>3, <2>6 DEF BurstInReach, TapeReach
<1>6. QED
  BY <1>4, <1>5

LEMMA MidsOnTapeAreInts ==
  ASSUME ClockInv, RecordsInv, NEW t \in Int
  PROVE  MidOnTape(t) \in Int
<1> DEFINE past == {j \in DOMAIN tape : tape[j].ts <= t}
<1>1. Len(tape) \in Nat /\ DOMAIN tape = 1 .. Len(tape)
  BY DEF ClockInv
<1>2. past = {} => MidOnTape(t) = -1
  BY DEF MidOnTape, NoPrice
<1>3. past # {} => MidOnTape(t) = tape[Max(past)].mid2
  BY DEF MidOnTape
<1>4. past \in SUBSET Nat /\ past \subseteq DOMAIN tape /\ \A j \in past : j <= Len(tape)
  BY <1>1
<1> HIDE DEF past
<1>5. past # {} => Max(past) \in past
  BY <1>1, <1>4, BoundedExtremes
<1>6. \A j \in DOMAIN tape : tape[j].mid2 \in Int
  BY DEF RecordsInv, RecordOK
<1>7. CASE past = {}
  BY <1>2, <1>7
<1>8. CASE past # {}
  <2>1. Max(past) \in DOMAIN tape
    BY <1>4, <1>5, <1>8
  <2>2. QED
    BY <1>3, <1>6, <1>8, <2>1
<1>9. QED
  BY <1>7, <1>8

\* So many whole ticks.
LEMMA TicksMoved ==
  ASSUME NEW a \in Nat, NEW u \in Nat \ {0}, NEW m \in Int
  PROVE  a \div u >= m <=> a >= u * m
<1> DEFINE d == a \div u
           r == a % u
<1>1. d \in Int /\ r \in 0 .. u - 1 /\ a = u * d + r
  OBVIOUS
<1> HIDE DEF d, r
<1>2. d >= m => a >= u * m
  <2> SUFFICES ASSUME d >= m PROVE a >= u * m
    OBVIOUS
  <2>1. u * d >= u * m
    BY <1>1
  <2>2. u * d \in Int /\ u * m \in Int
    BY <1>1
  <2>3. QED
    BY <1>1, <2>1, <2>2
<1>3. ~(d >= m) => ~(a >= u * m)
  <2> SUFFICES ASSUME ~(d >= m) PROVE ~(a >= u * m)
    OBVIOUS
  <2>1. d + 1 <= m
    BY <1>1
  <2>2. u * (d + 1) <= u * m
    BY <1>1, <2>1
  <2>3. u * (d + 1) = u * d + u
    BY <1>1
  <2>4. u * d \in Int /\ u * m \in Int
    BY <1>1
  <2>5. QED
    BY <1>1, <2>2, <2>3, <2>4
<1>4. QED
  BY <1>2, <1>3 DEF d

\* The scan and the tape agree on how far the price went, and which way.
LEMMA MoveIsSeen ==
  ASSUME ClockInv, RecordsInv, NEW c, NEW to, BurstStart(to) \in Int, BurstEnd(to) \in Int,
         Mid2At(c, BurstStart(to)) = MidOnTape(BurstStart(to)),
         Mid2At(c, BurstEnd(to)) = MidOnTape(BurstEnd(to))
  PROVE  /\ Moved(c, to) <=> TapeMoved(to)
         /\ MoveDirection(c, to) = TapeDirection(to)
<1> DEFINE before == MidOnTape(BurstStart(to))
           after == MidOnTape(BurstEnd(to))
           far == MaxOf(after - before, before - after)
<1>1. before \in Int /\ after \in Int
  BY MidsOnTapeAreInts
<1>2. Move2(c, to) = after - before /\ -Move2(c, to) = before - after
  <2>1. Move2(c, to) = after - before
    BY DEF Move2
  <2> HIDE DEF before, after
  <2>2. QED
    BY <1>1, <2>1
<1>3. MoveDirection(c, to) = TapeDirection(to)
  <2>1. MoveDirection(c, to) = IF after - before > 0 THEN "Buy" ELSE "Sell"
    BY <1>2 DEF MoveDirection
  <2>2. TapeDirection(to) = IF after > before THEN "Buy" ELSE "Sell"
    BY DEF TapeDirection
  <2> HIDE DEF before, after
  <2>3. after - before > 0 <=> after > before
    BY <1>1
  <2>4. QED
    BY <2>1, <2>2, <2>3
<1>4. far \in Nat
  <2> HIDE DEF before, after
  <2>1. after - before \in Int /\ before - after \in Int
    BY <1>1
  <2>2. far = IF after - before >= before - after THEN after - before ELSE before - after
    BY <2>1, TwoExtremes
  <2>3. QED
    BY <1>1, <2>2
<1>5. /\ 2 * TickSize \in Nat \ {0} /\ MomentumConfig.min_move_ticks \in Int
  BY PriceAssumption
<1>6. far \div (2 * TickSize) >= MomentumConfig.min_move_ticks
        <=> far >= 2 * TickSize * MomentumConfig.min_move_ticks
  <2> HIDE DEF far
  <2> DEFINE u == 2 * TickSize
  <2> HIDE DEF u
  <2>1. far \div u >= MomentumConfig.min_move_ticks <=> far >= u * MomentumConfig.min_move_ticks
    BY <1>4, <1>5, TicksMoved DEF u
  <2>2. QED
    BY <2>1 DEF u
<1>7. Moved(c, to) <=> /\ before # NoPrice /\ after # NoPrice
                       /\ far \div (2 * TickSize) >= MomentumConfig.min_move_ticks
  BY <1>2 DEF Moved
<1>8. TapeMoved(to) <=> /\ before # NoPrice /\ after # NoPrice
                        /\ far >= 2 * TickSize * MomentumConfig.min_move_ticks
  BY DEF TapeMoved
<1>9. QED
  BY <1>3, <1>6, <1>7, <1>8

\* The scan and the tape agree on who drove the price and traded back.
LEMMA JudgementIsSeen ==
  ASSUME MomentumConfig.revert_ns > 0, MomentumConfig.reversal_ns >= 0,
         ClockInv, RecordsInv, NEW c, NEW to \in Int, now < to, Legible(c.trades, to), NEW ev,
         Shows(c.trades, Printed, ev, to - History),
         BurstStart(to) <= BurstEnd(to),
         MoveDirection(c, to) = TapeDirection(to), NEW pid
  PROVE  /\ Ignites(c, to, pid) /\ Reverses(c, to, pid) <=> TapeJudged(pid, to)
         /\ TapeJudged(pid, to) =>
              pid \in {ItemAt(c.trades, i).taker : i \in BurstPrints(c.trades, to)}
<1> DEFINE v == c.trades
           lo == BurstStart(to)
           hi == BurstEnd(to)
           late == hi + MomentumConfig.reversal_ns
           since == to - History
           dir == TapeDirection(to)
           back == Opposite(dir)
           prints == BurstPrints(v, to)
<1>1. lo \in Int /\ hi \in Int /\ late \in Int /\ since \in Int /\ since <= lo /\ lo <= hi
      /\ since <= hi
  BY BurstTimes
<1>2. v.size \in Nat
  BY DEF Legible
<1>0. ClockInv /\ RecordsInv /\ ShowsPrints(v, ev, since)
  BY <1>1, <1>2 DEF ShowsPrints
<1>3. \A p \in Positions(v) : /\ ev[p] \in OfKind("trade")
                              /\ ItemAt(v, p) = tape[ev[p]].rec
                              /\ TsAt(v, p) = tape[ev[p]].ts
  BY DEF Shows, Printed
<1>4. dir \in Direction /\ back \in Direction
  BY DEF TapeDirection, Direction, Opposite
<1>5. prints = Printing(v, ev, OfKind("trade"), lo, hi)
  <2>1. prints = {p \in Positions(v) : lo <= TsAt(v, p) /\ TsAt(v, p) <= hi}
    BY <1>1 DEF BurstPrints, Legible
  <2> HIDE DEF prints, lo, hi, v
  <2>2. QED
    BY <1>3, <2>1 DEF Printing
<1>6. \A d : Aggressive(v, prints, pid, d) = Printing(v, ev, Took(pid, d), lo, hi)
  <2> HIDE DEF prints, lo, hi, v
  <2>1. QED
    BY <1>3, <1>5 DEF Aggressive, Printing, Took
<1> DEFINE hits == {i \in Slice(v, hi, late) :
                      /\ SideOf(ItemAt(v, i), pid) = back
                      /\ RoleMatches(ItemAt(v, i), pid, "Any")}
<1>7. hits = Printing(v, ev, Dealt(pid, back), hi, late)
  <2>1. Slice(v, hi, late) = {p \in Positions(v) : hi <= TsAt(v, p) /\ TsAt(v, p) <= late}
    BY <1>1 DEF Legible
  <2>2. \A t : SideOf(t, pid) = back => RoleMatches(t, pid, "Any")
    BY <1>4 DEF SideOf, RoleMatches, Direction
  <2> HIDE DEF lo, hi, late, v, back
  <2>3. QED
    BY <1>3, <2>1, <2>2 DEF Printing, Dealt
<1> DEFINE with == Within(Took(pid, dir), lo, hi)
           against == Within(Took(pid, back), lo, hi)
           burst == Within(OfKind("trade"), lo, hi)
           later == Within(Dealt(pid, back), hi, late)
<1>8. later = {i \in later : tape[i].ts < to}
  <2>1. \A i \in OfKind("trade") : tape[i].ts < to
    <3>1. now \in Int /\ \A i \in OfKind("trade") : tape[i].ts \in Int /\ tape[i].ts <= now
      BY DEF ClockInv, OfKind
    <3>2. QED
      BY <3>1
  <2>2. \A i \in later : i \in OfKind("trade")
    BY DEF Within, Dealt
  <2>3. QED
    BY <2>1, <2>2
<1>9. /\ Quantity(v, prints) = TapeTotal(tape, burst)
  <2>1. Quantity(v, prints) = Total(v, prints)
    BY DEF Quantity, Total
  <2>2. OfKind("trade") \in SUBSET OfKind("trade")
    OBVIOUS
  <2> HIDE DEF lo, hi, late, v, back, since, prints
  <2>3. AsMuch(v, Printing(v, ev, OfKind("trade"), lo, hi), Within(OfKind("trade"), lo, hi))
    BY ONLY <1>0, <1>1, <2>2, TotalsOnTape
  <2>4. QED
    BY <1>5, <2>1, <2>3 DEF AsMuch
<1>10. ASSUME NEW d
       PROVE  LET A == Aggressive(v, prints, pid, d)
                  B == Within(Took(pid, d), lo, hi)
              IN  /\ Quantity(v, A) = TapeTotal(tape, B) /\ Quantity(v, A) \in Nat
                  /\ Quantity(v, A) > 0 <=> B # {}
                  /\ {ItemAt(v, p).taker_order : p \in A} = {tape[i].rec.taker_order : i \in B}
  <2> DEFINE E == Took(pid, d)
             A == Printing(v, ev, E, lo, hi)
             B == Within(E, lo, hi)
  <2>1. E \in SUBSET OfKind("trade")
    BY DEF Took
  <2>2. Quantity(v, A) = Total(v, A)
    BY DEF Quantity, Total
  <2>3. Aggressive(v, prints, pid, d) = A
    BY <1>6
  <2> HIDE DEF lo, hi, v, since, prints, E
  <2>4. AsMuch(v, Printing(v, ev, E, lo, hi), Within(E, lo, hi))
    BY ONLY <1>0, <1>1, <2>1, TotalsOnTape
  <2> HIDE DEF A, B
  <2>5. AsMuch(v, A, B)
    BY <2>4 DEF A, B
  <2>6. QED
    BY <2>2, <2>3, <2>5 DEF B, E, AsMuch
<1>11. Reversal(c, to, pid).qty = TapeTotal(tape, later)
  <2>1. Reversal(c, to, pid) = DirectionalQty(v, pid, back, hi, late, "Any")
    BY DEF Reversal
  <2>2. DirectionalQty(v, pid, back, hi, late, "Any").qty = Total(v, hits)
    BY DEF DirectionalQty, Total
  <2>3. Dealt(pid, back) \in SUBSET OfKind("trade")
    BY DEF Dealt
  <2> HIDE DEF hi, late, v, since, hits, back
  <2>4. AsMuch(v, Printing(v, ev, Dealt(pid, back), hi, late), Within(Dealt(pid, back), hi, late))
    BY ONLY <1>0, <1>1, <2>3, TotalsOnTape
  <2>5. QED
    BY <1>7, <2>1, <2>2, <2>4 DEF AsMuch
<1> DEFINE W == Aggressive(v, prints, pid, dir)
           G == Aggressive(v, prints, pid, back)
<1>12. Ignites(c, to, pid) <=>
         /\ Cardinality({ItemAt(v, i).taker_order : i \in W}) >= MomentumConfig.min_orders
         /\ Quantity(v, W) > Quantity(v, G)
         /\ AtLeast(Quantity(v, W), Quantity(v, prints), MomentumConfig.min_share)
  BY DEF Ignites
<1>13. Reverses(c, to, pid) <=>
         AtLeast(Reversal(c, to, pid).qty, Quantity(v, W), MomentumConfig.min_reverse_fraction)
  BY DEF Reverses
<1>14. TapeJudged(pid, to) <=>
         /\ Cardinality({tape[i].rec.taker_order : i \in with}) >= MomentumConfig.min_orders
         /\ TapeTotal(tape, with) > TapeTotal(tape, against)
         /\ AtLeast(TapeTotal(tape, with), TapeTotal(tape, burst), MomentumConfig.min_share)
         /\ AtLeast(TapeTotal(tape, later), TapeTotal(tape, with),
                    MomentumConfig.min_reverse_fraction)
  BY <1>8 DEF TapeJudged
<1>15. /\ Quantity(v, W) = TapeTotal(tape, with) /\ Quantity(v, W) \in Nat
       /\ Quantity(v, W) > 0 <=> with # {}
       /\ {ItemAt(v, p).taker_order : p \in W} = {tape[i].rec.taker_order : i \in with}
       /\ Quantity(v, G) = TapeTotal(tape, against) /\ Quantity(v, G) \in Nat
  BY <1>10
<1>16. TapeJudged(pid, to) => pid \in {ItemAt(v, i).taker : i \in prints}
  <2> SUFFICES ASSUME TapeJudged(pid, to)
               PROVE  pid \in {ItemAt(v, i).taker : i \in prints}
    OBVIOUS
  <2> HIDE DEF prints, W, G, with, against
  <2>1. Quantity(v, W) > Quantity(v, G)
    BY <1>14, <1>15
  <2>2. Quantity(v, W) > 0
    BY <1>15, <2>1
  <2>3. W # {}
    <3>1. {tape[i].rec.taker_order : i \in with} # {}
      BY <1>15, <2>2
    <3>2. QED
      BY <1>15, <3>1
  <2>4. PICK p \in W : TRUE
    BY <2>3
  <2>5. p \in prints /\ ItemAt(v, p).taker = pid
    BY <2>4 DEF W, Aggressive
  <2>6. QED
    BY <2>5
<1> HIDE DEF W, G, with, against, burst, later, prints, hits
<1>17. Ignites(c, to, pid) /\ Reverses(c, to, pid) <=> TapeJudged(pid, to)
  BY <1>9, <1>11, <1>12, <1>13, <1>14, <1>15
<1>18. QED
  BY <1>16, <1>17 DEF prints, v

\* What is on the tape about a burst before the scan at `to`.
Igniting(pid, to) == TapeReach(to) /\ IgnitedOnTape(pid, to)

\* A scan reports whoever moved the price and traded back, and nobody else.
LEMMA IgnitionIsSeen ==
  ASSUME MomentumConfig.revert_ns > 0, MomentumConfig.reversal_ns >= 0,
         ClockInv, WindowsInv, WholeInv, RecordsInv, started,
         ctx.trades.overflowed = 0, ctx.mids.overflowed = 0,
         NEW to \in Int, LastScan <= to, now < to, NEW from, NEW pid
  PROVE  (\E a \in MomentumScan(Expired(ctx, to), from, to) : a.participant = pid)
           <=> Igniting(pid, to)
<1> DEFINE c == Expired(ctx, to)
           v == c.trades
           lo == BurstStart(to)
           hi == BurstEnd(to)
           since == to - History
           takers == {ItemAt(v, i).taker : i \in BurstPrints(v, to)}
<1>1. /\ lo \in Int /\ hi \in Int /\ since \in Int /\ since <= lo
  BY BurstTimes
<1>2. now <= to /\ now \in Int
  BY DEF ClockInv
<1>3. Legible(v, to)
  BY <1>2, ScanFindsTape
<1>4. /\ \E ev : Shows(v, Printed, ev, since)
      /\ Legible(c.mids, to)
      /\ \E em : Shows(c.mids, Quoted, em, since)
  BY <1>2, ScanShowsTape
<1>5. PICK ev : Shows(v, Printed, ev, since)
  BY <1>4
<1>6. PICK em : Shows(c.mids, Quoted, em, since)
  BY <1>4
<1>7. BurstInReach(v, to) <=> TapeReach(to)
  BY <1>1, <1>3, <1>5, ReachIsSeen
<1>8. (\E a \in MomentumScan(c, from, to) : a.participant = pid)
        <=> /\ BurstInReach(v, to) /\ Moved(c, to)
            /\ pid \in takers /\ Ignites(c, to, pid) /\ Reverses(c, to, pid)
  <2>1. \A p : MomentumAlert(c, to, p).participant = p
    BY DEF MomentumAlert
  <2>2. MomentumScan(c, from, to) =
          IF BurstInReach(v, to) /\ Moved(c, to)
            THEN {MomentumAlert(c, to, p) :
                    p \in {q \in takers : Ignites(c, to, q) /\ Reverses(c, to, q)}}
            ELSE {}
    BY DEF MomentumScan
  <2> HIDE DEF c, v, takers
  <2>3. QED
    BY <2>1, <2>2
<1>9. IgnitedOnTape(pid, to) <=> TapeMoved(to) /\ TapeJudged(pid, to)
  BY IgnitedIs
<1> DEFINE Reported == \E a \in MomentumScan(c, from, to) : a.participant = pid
<1> HIDE DEF c
<1> SUFFICES Reported <=> Igniting(pid, to)
  BY DEF c
<1>10. CASE ~(lo <= hi)
  <2>1. ~TapeJudged(pid, to)
    BY <1>1, <1>10, NoBurstNoJudgement
  <2>2. BurstPrints(v, to) = {}
    <3>1. BurstPrints(v, to) = {p \in Positions(v) : lo <= TsAt(v, p) /\ TsAt(v, p) <= hi}
      BY <1>1, <1>3 DEF BurstPrints, Legible
    <3>2. \A p \in Positions(v) : TsAt(v, p) \in Int
      BY <1>3 DEF Legible
    <3> HIDE DEF lo, hi, v
    <3>3. QED
      BY <1>1, <1>10, <3>1, <3>2
  <2>3. pid \notin takers
    BY <2>2
  <2> HIDE DEF takers
  <2>4. QED
    BY <1>8, <1>9, <2>1, <2>3 DEF Igniting
<1>11. CASE lo <= hi
  <2> SUFFICES ASSUME TapeReach(to)
               PROVE  /\ Moved(c, to) /\ pid \in takers
                      /\ Ignites(c, to, pid) /\ Reverses(c, to, pid)
                      <=> IgnitedOnTape(pid, to)
    BY <1>7, <1>8 DEF Igniting
  <2>1. PICK i \in OfKind("trade") : since <= tape[i].ts /\ tape[i].ts <= lo
    BY DEF TapeReach
  <2>2. i \in DOMAIN tape /\ tape[i].ts \in Int /\ tape[i].ts <= hi
    <3>1. i \in DOMAIN tape /\ tape[i].ts \in Int
      BY DEF OfKind, ClockInv
    <3> HIDE DEF lo, hi, since
    <3>2. QED
      BY <1>1, <1>11, <2>1, <3>1
  <2>3. Mid2At(c, lo) = MidOnTape(lo)
    BY <1>1, <1>4, <1>6, <2>1, <2>2, MidIsFound
  <2>4. Mid2At(c, hi) = MidOnTape(hi)
    BY <1>1, <1>4, <1>6, <2>1, <2>2, MidIsFound
  <2>5. /\ Moved(c, to) <=> TapeMoved(to)
        /\ MoveDirection(c, to) = TapeDirection(to)
    BY <1>1, <2>3, <2>4, MoveIsSeen
  <2>6. /\ Ignites(c, to, pid) /\ Reverses(c, to, pid) <=> TapeJudged(pid, to)
        /\ TapeJudged(pid, to) => pid \in takers
    BY <1>3, <1>5, <1>11, <2>5, JudgementIsSeen
  <2>7. QED
    BY <1>9, <2>5, <2>6
<1>12. QED
  BY <1>10, <1>11

-----------------------------------------------------------------------------
\* What the tape says of a time before the last scan does not change.
LEMMA TapeStays ==
  ASSUME ClockInv, ClockInv', [Next]_vars, NEW t \in Int, t < LastScan'
  PROVE  /\ \A i \in DOMAIN tape : tape'[i] = tape[i]
         /\ \A kind : \A i : i \in OfKind(kind) /\ tape[i].ts <= t
                               <=> i \in OfKind(kind)' /\ tape'[i].ts <= t
         /\ MidOnTape(t)' = MidOnTape(t)
<1>1. LastScan' \in Int /\ Len(tape) \in Nat /\ DOMAIN tape = 1 .. Len(tape)
  BY ScanIntervalAssumption DEF ClockInv, LastScan
<1>2. \A i \in DOMAIN tape : tape'[i] = tape[i]
  BY <1>1, TapeOfStep
<1>3. ASSUME NEW kind, NEW i
      PROVE  i \in OfKind(kind) /\ tape[i].ts <= t <=> i \in OfKind(kind)' /\ tape'[i].ts <= t
  <2>1. /\ \A j \in OfKind(kind) : j \in OfKind(kind)' /\ j \in 1 .. Len(tape)
        /\ \A j \in 1 .. Len(tape) : tape'[j] = tape[j]
        /\ \A j \in OfKind(kind)' : /\ tape'[j].ts \in Int
                                    /\ j \in OfKind(kind) \/ LastScan' <= tape'[j].ts
    BY TapeOfStep
  <2>2. ASSUME i \in OfKind(kind)', tape'[i].ts <= t PROVE i \in OfKind(kind)
    <3>1. ~(LastScan' <= tape'[i].ts)
      BY <1>1, <2>1, <2>2
    <3>2. QED
      BY <2>1, <2>2, <3>1
  <2>3. QED
    BY <2>1, <2>2
<1>4. MidOnTape(t)' = MidOnTape(t)
  <2> DEFINE past == {j \in DOMAIN tape : tape[j].ts <= t}
             past1 == {j \in DOMAIN tape' : tape'[j].ts <= t}
  <2>1. \A j \in DOMAIN tape : j \in OfKind(tape[j].kind)
    BY DEF OfKind
  <2>2. ASSUME NEW j \in past PROVE j \in past1
    <3>1. PICK k : k = tape[j].kind
      OBVIOUS
    <3>2. j \in OfKind(k)' /\ tape'[j].ts <= t
      BY <1>3, <2>1, <2>2, <3>1
    <3>3. QED
      BY <3>2 DEF OfKind
  <2>3. ASSUME NEW j \in past1 PROVE j \in past
    <3>1. PICK k : k = tape'[j].kind
      OBVIOUS
    <3>2. j \in OfKind(k)' /\ tape'[j].ts <= t
      BY <2>3, <3>1 DEF OfKind
    <3>3. j \in OfKind(k) /\ tape[j].ts <= t
      BY <1>3, <3>2
    <3>4. QED
      BY <3>3 DEF OfKind
  <2>4. past = past1
    BY <2>2, <2>3
  <2>5. past # {} => Max(past) \in DOMAIN tape
    <3>1. past \in SUBSET Nat /\ \A j \in past : j <= Len(tape)
      BY <1>1
    <3>2. past # {} => Max(past) \in past
      <4> HIDE DEF past
      <4>1. QED
        BY <1>1, <3>1, BoundedExtremes
    <3>3. QED
      BY <3>2
  <2>6. MidOnTape(t) = IF past = {} THEN NoPrice ELSE tape[Max(past)].mid2
    BY DEF MidOnTape
  <2>7. MidOnTape(t)' = IF past1 = {} THEN NoPrice ELSE tape'[Max(past1)].mid2
    BY DEF MidOnTape
  <2> HIDE DEF past, past1
  <2>8. QED
    BY <1>2, <2>4, <2>5, <2>6, <2>7
<1>5. QED
  BY <1>2, <1>3, <1>4

LEMMA SameTotal ==
  ASSUME NEW t, NEW u, NEW B, IsFiniteSet(B),
         \A i \in B : t[i] = u[i] /\ t[i].rec.qty \in Nat
  PROVE  TapeTotal(t, B) = TapeTotal(u, B)
<1> DEFINE q == [i \in B |-> t[i].rec.qty]
           r == [i \in B |-> u[i].rec.qty]
<1>1. TapeTotal(t, B) = Cardinality(Units(q, B))
  BY TapeTotalIsUnits
<1>2. TapeTotal(u, B) = Cardinality(Units(r, B))
  BY TapeTotalIsUnits
<1>3. q = r
  OBVIOUS
<1>4. QED
  BY <1>1, <1>2, <1>3

\* The same of the next state.
LEMMA JudgedNext ==
  ASSUME NEW pid, NEW to, BurstStart(to) \in Int, BurstEnd(to) \in Int
  PROVE  /\ (RecordsInv => (IgnitedOnTape(pid, to) <=> TapeMoved(to) /\ TapeJudged(pid, to)))'
         /\ (ClockInv /\ ~(BurstStart(to) <= BurstEnd(to)) => ~TapeJudged(pid, to))'
<1>1. RecordsInv => (IgnitedOnTape(pid, to) <=> TapeMoved(to) /\ TapeJudged(pid, to))
  BY IgnitedIs
<1>2. ClockInv /\ ~(BurstStart(to) <= BurstEnd(to)) => ~TapeJudged(pid, to)
  BY NoBurstNoJudgement
<1>3. QED
  BY <1>1, <1>2, PTL

\* Once the scan has run, what it went by stays as it was.
LEMMA IgnitingStays ==
  ASSUME MomentumConfig.revert_ns > 0, MomentumConfig.reversal_ns >= 0,
         ClockInv, ClockInv', RecordsInv, RecordsInv', [Next]_vars,
         NEW to \in Int, to <= LastScan', NEW pid
  PROVE  Igniting(pid, to)' <=> Igniting(pid, to)
<1> DEFINE lo == BurstStart(to)
           hi == BurstEnd(to)
           late == hi + MomentumConfig.reversal_ns
           dir == TapeDirection(to)
           back == Opposite(dir)
<1>1. lo \in Int /\ hi \in Int /\ hi < to /\ late \in Int
  BY BurstTimes
<1>2. LastScan' \in Int
  BY ScanIntervalAssumption DEF ClockInv, LastScan
<1>3. /\ IgnitedOnTape(pid, to) <=> TapeMoved(to) /\ TapeJudged(pid, to)
      /\ IgnitedOnTape(pid, to)' <=> TapeMoved(to)' /\ TapeJudged(pid, to)'
  <2>1. IgnitedOnTape(pid, to) <=> TapeMoved(to) /\ TapeJudged(pid, to)
    BY IgnitedIs
  <2>2. (RecordsInv => (IgnitedOnTape(pid, to) <=> TapeMoved(to) /\ TapeJudged(pid, to)))'
    BY <1>1, JudgedNext
  <2>3. QED
    BY <2>1, <2>2
<1>4. CASE ~(lo <= hi)
  <2>1. ~TapeJudged(pid, to)
    BY <1>1, <1>4, NoBurstNoJudgement
  <2>2. (ClockInv /\ ~(BurstStart(to) <= BurstEnd(to)) => ~TapeJudged(pid, to))'
    BY <1>1, JudgedNext
  <2>3. ~TapeJudged(pid, to)'
    BY <1>4, <2>2
  <2>4. QED
    BY <1>3, <2>1, <2>3 DEF Igniting
<1>5. CASE lo <= hi
  <2>1. lo < LastScan' /\ hi < LastScan' /\ to - 1 < LastScan' /\ to - 1 \in Int
    BY <1>1, <1>2, <1>5
  <2>2. MidOnTape(lo)' = MidOnTape(lo) /\ MidOnTape(hi)' = MidOnTape(hi)
    <3> HIDE DEF lo, hi
    <3>1. QED
      BY <1>1, <2>1, TapeStays
  <2>3. TapeDirection(to)' = TapeDirection(to) /\ (TapeMoved(to)' <=> TapeMoved(to))
    BY <2>2 DEF TapeDirection, TapeMoved
  <2> DEFINE Early(i) == i \in OfKind("trade") /\ tape[i].ts < to
  <2>4. /\ \A i : Early(i) <=> Early(i)'
        /\ \A i : Early(i) => tape'[i] = tape[i]
        /\ \A i \in OfKind("trade") : tape[i].ts \in Int /\ tape[i].rec.qty \in Nat
        /\ \A i \in OfKind("trade")' : tape'[i].ts \in Int
    <3>1. /\ \A i \in DOMAIN tape : tape'[i] = tape[i]
          /\ \A i : i \in OfKind("trade") /\ tape[i].ts <= to - 1
                      <=> i \in OfKind("trade")' /\ tape'[i].ts <= to - 1
      BY <2>1, TapeStays
    <3>2. /\ \A i \in OfKind("trade") : i \in DOMAIN tape /\ tape[i].ts \in Int
          /\ \A i \in OfKind("trade")' : tape'[i].ts \in Int
      BY DEF OfKind, ClockInv
    <3>3. \A i \in OfKind("trade") : tape[i].rec.qty \in Nat
      BY DEF OfKind, RecordsInv, RecordOK
    <3>4. \A x \in Int : x <= to - 1 <=> x < to
      OBVIOUS
    <3>5. QED
      BY <3>1, <3>2, <3>3, <3>4
  <2>5. \A x \in Int : /\ x <= lo => x < to
                       /\ x <= hi => x < to
    BY <1>1, <1>5
  <2> DEFINE with == Within(Took(pid, dir), lo, hi)
             against == Within(Took(pid, back), lo, hi)
             burst == Within(OfKind("trade"), lo, hi)
             later == {i \in Within(Dealt(pid, back), hi, late) : tape[i].ts < to}
  <2>6. \A i \in with \cup against \cup burst \cup later : Early(i)
    <3> HIDE DEF lo, hi, late, dir, back
    <3>1. QED
      BY <2>4, <2>5 DEF Within, Took, Dealt
  <2>7. dir' = dir /\ back' = back
    BY <2>3
  <2>8. with' = with
    <3>1. with' = {i \in OfKind("trade")' : /\ tape'[i].rec.taker = pid
                                            /\ tape'[i].rec.aggressor = dir
                                            /\ lo <= tape'[i].ts /\ tape'[i].ts <= hi}
      BY <2>7 DEF Within, Took
    <3>2. with = {i \in OfKind("trade") : /\ tape[i].rec.taker = pid
                                          /\ tape[i].rec.aggressor = dir
                                          /\ lo <= tape[i].ts /\ tape[i].ts <= hi}
      BY DEF Within, Took
    <3> HIDE DEF with, lo, hi, dir
    <3>3. QED
      BY <2>4, <2>5, <3>1, <3>2
  <2>9. against' = against
    <3>1. against' = {i \in OfKind("trade")' : /\ tape'[i].rec.taker = pid
                                               /\ tape'[i].rec.aggressor = back
                                               /\ lo <= tape'[i].ts /\ tape'[i].ts <= hi}
      BY <2>7 DEF Within, Took
    <3>2. against = {i \in OfKind("trade") : /\ tape[i].rec.taker = pid
                                             /\ tape[i].rec.aggressor = back
                                             /\ lo <= tape[i].ts /\ tape[i].ts <= hi}
      BY DEF Within, Took
    <3> HIDE DEF against, lo, hi, back
    <3>3. QED
      BY <2>4, <2>5, <3>1, <3>2
  <2>10. burst' = burst
    <3>1. burst' = {i \in OfKind("trade")' : lo <= tape'[i].ts /\ tape'[i].ts <= hi}
      BY DEF Within
    <3>2. burst = {i \in OfKind("trade") : lo <= tape[i].ts /\ tape[i].ts <= hi}
      BY DEF Within
    <3> HIDE DEF burst, lo, hi
    <3>3. QED
      BY <2>4, <2>5, <3>1, <3>2
  <2>11. later' = later
    <3>1. later' = {i \in OfKind("trade")' : /\ SideOf(tape'[i].rec, pid) = back
                                             /\ hi <= tape'[i].ts /\ tape'[i].ts <= late
                                             /\ tape'[i].ts < to}
      BY <2>7 DEF Within, Dealt
    <3>2. later = {i \in OfKind("trade") : /\ SideOf(tape[i].rec, pid) = back
                                           /\ hi <= tape[i].ts /\ tape[i].ts <= late
                                           /\ tape[i].ts < to}
      BY DEF Within, Dealt
    <3> HIDE DEF later, hi, late, back
    <3>3. QED
      BY <2>4, <3>1, <3>2
  <2>12. \A B : (\A i \in B : Early(i)) => TapeTotal(tape', B) = TapeTotal(tape, B)
    <3> SUFFICES ASSUME NEW B, \A i \in B : Early(i)
                 PROVE  TapeTotal(tape', B) = TapeTotal(tape, B)
      OBVIOUS
    <3>1. \A i \in B : tape'[i] = tape[i] /\ tape[i].rec.qty \in Nat /\ i \in DOMAIN tape
      BY <2>4 DEF OfKind
    <3>2. IsFiniteSet(B)
      <4>1. DOMAIN tape = 1 .. Len(tape) /\ 1 \in Int /\ Len(tape) \in Int
        BY DEF ClockInv
      <4>2. IsFiniteSet(1 .. Len(tape))
        BY ONLY <4>1, FS_Interval
      <4>3. QED
        BY <3>1, <4>1, <4>2, FS_Subset
    <3> DEFINE u == tape'
    <3>3. \A i \in B : tape[i] = u[i] /\ tape[i].rec.qty \in Nat
      BY <3>1
    <3> HIDE DEF u
    <3>4. TapeTotal(tape, B) = TapeTotal(u, B)
      BY <3>2, <3>3, SameTotal
    <3>5. QED
      BY <3>4 DEF u
  <2>13. /\ TapeTotal(tape', with) = TapeTotal(tape, with)
         /\ TapeTotal(tape', against) = TapeTotal(tape, against)
         /\ TapeTotal(tape', burst) = TapeTotal(tape, burst)
         /\ TapeTotal(tape', later) = TapeTotal(tape, later)
         /\ {tape'[i].rec.taker_order : i \in with} = {tape[i].rec.taker_order : i \in with}
    <3> HIDE DEF with, against, burst, later
    <3>1. \A i \in with : tape'[i] = tape[i]
      BY <2>4, <2>6
    <3>2. QED
      BY <2>6, <2>12, <3>1
  <2>14. TapeJudged(pid, to)' <=> TapeJudged(pid, to)
    <3>1. TapeJudged(pid, to) <=>
            /\ Cardinality({tape[i].rec.taker_order : i \in with}) >= MomentumConfig.min_orders
            /\ TapeTotal(tape, with) > TapeTotal(tape, against)
            /\ AtLeast(TapeTotal(tape, with), TapeTotal(tape, burst), MomentumConfig.min_share)
            /\ AtLeast(TapeTotal(tape, later), TapeTotal(tape, with),
                       MomentumConfig.min_reverse_fraction)
      BY DEF TapeJudged
    <3>2. TapeJudged(pid, to)' <=>
            /\ Cardinality({tape'[i].rec.taker_order : i \in with'}) >= MomentumConfig.min_orders
            /\ TapeTotal(tape', with') > TapeTotal(tape', against')
            /\ AtLeast(TapeTotal(tape', with'), TapeTotal(tape', burst'),
                       MomentumConfig.min_share)
            /\ AtLeast(TapeTotal(tape', later'), TapeTotal(tape', with'),
                       MomentumConfig.min_reverse_fraction)
      BY DEF TapeJudged
    <3> HIDE DEF with, against, burst, later
    <3>3. QED
      BY <2>8, <2>9, <2>10, <2>11, <2>13, <3>1, <3>2
  <2>15. TapeReach(to)' <=> TapeReach(to)
    <3>1. TapeReach(to)' <=>
            /\ lo > 0
            /\ \E i \in OfKind("trade")' : to - History <= tape'[i].ts /\ tape'[i].ts <= lo
      BY DEF TapeReach
    <3>2. TapeReach(to) <=>
            /\ lo > 0
            /\ \E i \in OfKind("trade") : to - History <= tape[i].ts /\ tape[i].ts <= lo
      BY DEF TapeReach
    <3> HIDE DEF lo
    <3>3. QED
      BY <2>4, <2>5, <3>1, <3>2
  <2>16. QED
    BY <1>3, <2>3, <2>14, <2>15 DEF Igniting
<1>6. QED
  BY <1>4, <1>5

ReportedAt(pid, to) == \E a \in alerts : a.participant = pid /\ a.detect_ts = to

\* Alerts are dated by scans that have run, and those of each scan are of
\* whoever moved the price and traded back, if nothing was given up.
IgnitionsInv ==
  enabled = "momentum_ignition" =>
    /\ ~started => alerts = {}
    /\ started => \A a \in alerts : a.detect_ts \in Int /\ a.detect_ts <= LastScan
    /\ started /\ ctx.trades.overflowed = 0 /\ ctx.mids.overflowed = 0 =>
         \A to : OnGrid(to) /\ StartTs < to /\ to <= LastScan =>
           \A pid : ReportedAt(pid, to) <=> Igniting(pid, to)

LEMMA FirstEventIgnites ==
  ASSUME ClockInv, IgnitionsInv, ~started, [Next]_vars, enabled = "momentum_ignition"
  PROVE  IgnitionsInv'
<1>1. alerts = {}
  BY DEF IgnitionsInv
<1>2. ASSUME NEW e, ArrivingOK(e), Apply(e) PROVE IgnitionsInv'
  <2> DEFINE first == e.ts + ScanInterval
  <2>1. /\ first \in Int /\ e.ts = StartTs /\ e.ts < first /\ StartTs \in Int /\ e.ts \in Int
        /\ first - ScanInterval = StartTs
    BY <1>2, ScanIntervalAssumption, StartTsAssumption DEF ArrivingOK
  <2>2. /\ alerts' = alerts \cup Raised(first, e.ts)
        /\ next_scan' = NextScan(first, e.ts) /\ started'
    BY <1>2 DEF Apply
  <2> HIDE DEF first
  <2>3. ScanPoints(first, e.ts) = {}
    BY <2>1, ScansDue
  <2>4. alerts' = {} /\ next_scan' = first
    BY <1>1, <2>2, <2>3 DEF Raised, NextScan
  <2>5. LastScan' = StartTs
    BY <2>1, <2>4 DEF LastScan
  <2>6. \A to \in Int : ~(StartTs < to /\ to <= StartTs)
    BY <2>1
  <2>7. QED
    BY <2>2, <2>4, <2>5, <2>6 DEF IgnitionsInv, OnGrid
<1>3. CASE Finish \/ UNCHANGED vars
  <2>1. alerts' = alerts /\ started' = started
    BY <1>3 DEF Finish, vars
  <2>2. QED
    BY <1>1, <2>1 DEF IgnitionsInv
<1>4. QED
  BY <1>2, <1>3, StepsApply

LEMMA IgnitionsKept ==
  ASSUME MomentumConfig.revert_ns > 0, MomentumConfig.reversal_ns >= 0,
         ClockInv, ClockInv', WindowsInv, WholeInv, RecordsInv, RecordsInv', GridInv,
         IgnitionsInv, [Next]_vars
  PROVE  IgnitionsInv'
<1>0. StillDisplaced /\ enabled' = enabled
  <2>1. enabled' = enabled
    BY StepsApply DEF Apply, Finish, vars
  <2>2. QED
    BY <2>1, WholeKept
<1> SUFFICES ASSUME enabled = "momentum_ignition" PROVE IgnitionsInv'
  BY <1>0 DEF IgnitionsInv
<1>1. CASE ~started
  BY <1>1, FirstEventIgnites
<1>2. CASE started
  <2>1. /\ LastScan \in Int /\ LastScan' \in Int /\ LastScan <= LastScan' /\ started'
        /\ alerts \subseteq alerts'
        /\ \A p : OnGrid(p) /\ LastScan < p /\ p <= LastScan'
                    => now < p /\ ScanAt(p) \subseteq alerts'
        /\ \A a \in alerts' \ alerts : \E p :
             OnGrid(p) /\ LastScan < p /\ p <= LastScan' /\ now < p /\ a \in ScanAt(p)
    BY <1>2, ScansOfStep
  <2>2. \A p : ScanAt(p) = MomentumScan(Expired(ctx, p), p - ScanInterval, p)
    BY DEF ScanAt, Scan
  <2>3. \A p : \A a \in ScanAt(p) : a.detect_ts = p
    <3>1. \A c, p, q : MomentumAlert(c, p, q).detect_ts = p
      BY DEF MomentumAlert
    <3>2. \A c, from, p : \A a \in MomentumScan(c, from, p) :
            \E q : a = MomentumAlert(c, p, q)
      BY DEF MomentumScan
    <3>3. \A c, from, p : \A a \in MomentumScan(c, from, p) : a.detect_ts = p
      BY <3>1, <3>2
    <3>4. QED
      BY <2>2, <3>3
  <2>4. \A a \in alerts : a.detect_ts \in Int /\ a.detect_ts <= LastScan
    BY <1>2 DEF IgnitionsInv
  <2>5. \A a \in alerts' : a.detect_ts \in Int /\ a.detect_ts <= LastScan'
    <3> TAKE a \in alerts'
    <3>1. CASE a \in alerts
      BY <2>1, <2>4, <3>1
    <3>2. CASE a \notin alerts
      BY <2>1, <2>3, <3>2 DEF OnGrid
    <3>3. QED
      BY <3>1, <3>2
  <2>6. ASSUME ctx.trades.overflowed = 0, ctx.mids.overflowed = 0, NEW to,
               OnGrid(to), StartTs < to, to <= LastScan', NEW pid
        PROVE  ReportedAt(pid, to)' <=> Igniting(pid, to)'
    <3>1. to \in Int
      BY <2>6 DEF OnGrid
    <3>2. Igniting(pid, to)' <=> Igniting(pid, to)
      BY <2>6, <3>1, IgnitingStays
    <3>3. CASE to <= LastScan
      <4>1. ReportedAt(pid, to) <=> Igniting(pid, to)
        BY <1>2, <2>6, <3>3 DEF IgnitionsInv
      <4>2. \A a \in alerts' \ alerts : a.detect_ts # to
        <5> TAKE a \in alerts' \ alerts
        <5>1. PICK p : OnGrid(p) /\ LastScan < p /\ a \in ScanAt(p)
          BY <2>1
        <5>2. a.detect_ts = p /\ p \in Int
          BY <2>3, <5>1 DEF OnGrid
        <5>3. p # to
          BY <2>1, <3>1, <3>3, <5>1, <5>2
        <5>4. QED
          BY <5>2, <5>3
      <4>3. ReportedAt(pid, to)' <=> ReportedAt(pid, to)
        BY <2>1, <4>2 DEF ReportedAt
      <4>4. QED
        BY <3>2, <4>1, <4>3
    <3>4. CASE LastScan < to
      <4>1. now < to /\ ScanAt(to) \subseteq alerts' /\ LastScan <= to
        BY <2>1, <2>6, <3>1, <3>4
      <4>2. \A a \in alerts' : a.detect_ts = to => a \in ScanAt(to)
        <5> SUFFICES ASSUME NEW a \in alerts', a.detect_ts = to PROVE a \in ScanAt(to)
          OBVIOUS
        <5>1. a \notin alerts
          BY <2>1, <2>4, <3>1, <3>4
        <5>2. PICK p : a \in ScanAt(p)
          BY <2>1, <5>1
        <5>3. p = to
          BY <2>3, <5>2
        <5>4. QED
          BY <5>2, <5>3
      <4>3. ReportedAt(pid, to)' <=> \E a \in ScanAt(to) : a.participant = pid
        BY <2>3, <4>1, <4>2 DEF ReportedAt
      <4> DEFINE from == to - ScanInterval
      <4> HIDE DEF from
      <4>4. (\E a \in MomentumScan(Expired(ctx, to), from, to) : a.participant = pid)
              <=> Igniting(pid, to)
        BY <1>2, <2>6, <3>1, <4>1, IgnitionIsSeen
      <4>5. ScanAt(to) = MomentumScan(Expired(ctx, to), from, to)
        BY <2>2 DEF from
      <4>6. QED
        BY <3>2, <4>3, <4>4, <4>5
    <3>5. QED
      BY <2>1, <3>1, <3>3, <3>4
  <2>7. QED
    BY <1>0, <2>1, <2>5, <2>6 DEF IgnitionsInv, StillDisplaced
<1>3. QED
  BY <1>1, <1>2

(***************************************************************************)
(* A burst is reported at a scan exactly if the whole tape says so, for    *)
(* every tape and every configuration, as long as no window had to give up *)
(* an entry for room.  It takes a scan that runs after the burst it judges *)
(* (revert_ns of nothing would have it miss the events of its own instant) *)
(* and a stretch to trade back in that is not negative, or the history     *)
(* would not be long enough.                                               *)
(***************************************************************************)
THEOREM IgnitionsReportedCorrect ==
  ASSUME MomentumConfig.revert_ns > 0, MomentumConfig.reversal_ns >= 0
  PROVE  Spec => []IgnitionsReported
<1>1. Init => RecordsInv /\ GridInv /\ IgnitionsInv
  <2> SUFFICES ASSUME Init PROVE RecordsInv /\ GridInv /\ IgnitionsInv
    OBVIOUS
  <2>1. DOMAIN tape = {} /\ ~started /\ alerts = {}
    BY DEF Init
  <2>2. QED
    BY <2>1 DEF RecordsInv, GridInv, IgnitionsInv
<1>2. /\ ClockInv /\ ClockInv' /\ WindowsInv /\ WholeInv
      /\ RecordsInv /\ GridInv /\ IgnitionsInv /\ [Next]_vars
      => RecordsInv' /\ GridInv' /\ IgnitionsInv'
  BY RecordsKept, GridKept, IgnitionsKept
<1>3. ClockInv /\ IgnitionsInv => IgnitionsReported
  <2> SUFFICES ASSUME ClockInv, IgnitionsInv, enabled = "momentum_ignition", NothingDisplaced,
                      NEW to \in ScanPoints(StartTs + ScanInterval, LastScan),
                      NEW i \in OfKind("trade"), NEW pid, pid = tape[i].rec.taker
               PROVE  ReportedAt(pid, to) <=> Igniting(pid, to)
    BY DEF IgnitionsReported, ReportedAt, Igniting, TapeReach
  <2>1. started
    <3>1. DOMAIN tape # {}
      BY DEF OfKind
    <3>2. QED
      BY <3>1 DEF ClockInv
  <2>2. ScanInterval \in Nat \ {0} /\ StartTs \in Int /\ LastScan \in Int
    BY ScanIntervalAssumption, StartTsAssumption DEF ClockInv, LastScan
  <2>3. OnGrid(to) /\ StartTs < to /\ to <= LastScan
    <3>1. OnGrid(StartTs)
      <4>1. StartTs - StartTs = 0 /\ 0 % ScanInterval = 0
        BY <2>2
      <4>2. QED
        BY <2>2, <4>1 DEF OnGrid
    <3>2. OnGrid(StartTs + ScanInterval)
      BY <2>2, <3>1, ScansOnGrid
    <3>3. OnGrid(to) /\ StartTs + ScanInterval <= to /\ to <= LastScan
      BY <2>2, <3>2, ScansOnGrid
    <3>4. to \in Int
      BY <3>3 DEF OnGrid
    <3>5. QED
      BY <2>2, <3>3, <3>4
  <2>4. QED
    BY <2>1, <2>3 DEF IgnitionsInv, NothingDisplaced
<1>4. QED
  BY <1>1, <1>2, <1>3, WindowsInvariant, WholeInvariant, PTL DEF Spec
=============================================================================
