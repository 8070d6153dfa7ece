---------------------------- MODULE ReplayProofs ----------------------------
(***************************************************************************)
(* TLAPS proofs about the console's replay, for every set of clean tapes   *)
(* and every request the API lets through: the tape is walked in the order *)
(* of time and a window is sampled evenly and to its end, whatever damage  *)
(* was done to the tape; and a frame shows the book the detectors had      *)
(* after its event.                                                        *)
(*                                                                         *)
(* The second has an argument in five parts.  The sort of load puts every  *)
(* line at its place, and the lines the buffer releases have the same      *)
(* order, so both passes read one sequence of events.  What a book makes   *)
(* of an event is a function of its orders and figures, and so is what a   *)
(* whole round of its repair leaves, though not the order within it.  The  *)
(* engine thus goes through a run, a sequence of snapshots of its book.    *)
(* The replay, which begins when the engine is done, stands at a snapshot  *)
(* of that run or inside the round after one.  And an event has a single   *)
(* snapshot behind it with nothing left to repair.                         *)
(***************************************************************************)
EXTENDS ConsoleReplay, FeedIntegrityProofs

(***************************************************************************)
(* The sort of load.  A line that comes before another has fewer lines     *)
(* before it, so the places of the lines are the positions of the tape,    *)
(* each taken once.                                                        *)
(***************************************************************************)
LEMMA EarlierIsAnOrder ==
  ASSUME NEW l, Len(l) \in Nat,
         \A i \in 1 .. Len(l) : l[i].ts \in Nat /\ l[i].seq \in Nat,
         NEW i \in 1 .. Len(l), NEW j \in 1 .. Len(l)
  PROVE  /\ ~Earlier(l, i, i)
         /\ i # j => Earlier(l, i, j) \/ Earlier(l, j, i)
         /\ Earlier(l, i, j) => l[i].ts <= l[j].ts
         /\ \A k \in 1 .. Len(l) : Earlier(l, k, i) /\ Earlier(l, i, j) => Earlier(l, k, j)
BY DEF Earlier

LEMMA PlaceIsMonotone ==
  ASSUME NEW l, Len(l) \in Nat,
         \A i \in 1 .. Len(l) : l[i].ts \in Nat /\ l[i].seq \in Nat,
         NEW i \in 1 .. Len(l), NEW j \in 1 .. Len(l)
  PROVE  /\ Place(l, i) \in 1 .. Len(l)
         /\ Earlier(l, i, j) => Place(l, i) < Place(l, j)
<1> DEFINE D == 1 .. Len(l)
           B(x) == {k \in D : Earlier(l, k, x)}
<1>1. IsFiniteSet(D) /\ Cardinality(D) = Len(l)
  <2>1. 1 \in Int /\ Len(l) \in Int
    OBVIOUS
  <2>2. IsFiniteSet(D) /\ Cardinality(D) = IF 1 > Len(l) THEN 0 ELSE Len(l) - 1 + 1
    BY ONLY <2>1, FS_Interval
  <2>3. QED
    BY <2>2
<1>2. ASSUME NEW x \in D
      PROVE  /\ IsFiniteSet(B(x)) /\ Cardinality(B(x)) \in Nat
             /\ Cardinality(B(x)) < Len(l)
  <2>1. B(x) \in SUBSET (D \ {x})
    BY EarlierIsAnOrder
  <2>2. IsFiniteSet(D \ {x}) /\ Cardinality(D \ {x}) = Len(l) - 1
    BY <1>1, FS_RemoveElement
  <2> HIDE DEF B, D
  <2>3. QED
    BY <2>1, <2>2, FS_Subset, FS_CardinalityType
<1>3. Place(l, i) = 1 + Cardinality(B(i)) /\ Place(l, j) = 1 + Cardinality(B(j))
  BY DEF Place
<1>4. ASSUME Earlier(l, i, j) PROVE Cardinality(B(i)) < Cardinality(B(j))
  <2>1. B(i) \cup {i} \in SUBSET B(j)
    <3>1. \A k \in D : Earlier(l, k, i) => Earlier(l, k, j)
      BY <1>4, EarlierIsAnOrder
    <3>2. QED
      BY <1>4, <3>1
  <2>2. i \notin B(i)
    BY EarlierIsAnOrder
  <2> HIDE DEF B, D
  <2>3. i \in D /\ j \in D
    BY DEF D
  <2>4. Cardinality(B(i) \cup {i}) = Cardinality(B(i)) + 1 /\ IsFiniteSet(B(i) \cup {i})
    BY <1>2, <2>2, <2>3, FS_AddElement
  <2>5. Cardinality(B(i) \cup {i}) <= Cardinality(B(j))
    BY <1>2, <2>1, <2>3, FS_Subset
  <2>6. QED
    BY <1>2, <2>3, <2>4, <2>5
<1>5. i \in D /\ j \in D
  OBVIOUS
<1> HIDE DEF B
<1>6. QED
  BY <1>2, <1>3, <1>4, <1>5

LEMMA EveryPlaceIsTaken ==
  ASSUME NEW l, Len(l) \in Nat,
         \A i \in 1 .. Len(l) : l[i].ts \in Nat /\ l[i].seq \in Nat,
         NEW k \in 1 .. Len(l)
  PROVE  \E j \in 1 .. Len(l) : Place(l, j) = k
<1> DEFINE D == 1 .. Len(l)
           f == [j \in D |-> Place(l, j)]
<1>1. IsFiniteSet(D)
  BY FS_Interval
<1>2. f \in [D -> D]
  BY PlaceIsMonotone
<1>3. ASSUME NEW i \in D, NEW j \in D, f[i] = f[j] PROVE i = j
  <2>1. SUFFICES ASSUME i # j PROVE FALSE
    OBVIOUS
  <2>2. Earlier(l, i, j) \/ Earlier(l, j, i)
    BY <2>1, EarlierIsAnOrder
  <2>3. f[i] < f[j] \/ f[j] < f[i]
    BY <2>2, PlaceIsMonotone
  <2>4. f[i] \in Int /\ f[j] \in Int
    BY PlaceIsMonotone
  <2>5. QED
    BY <1>3, <2>3, <2>4
<1> HIDE DEF f
<1>4. f \in Injection(D, D)
  BY <1>2, <1>3 DEF Injection, IsInjective
<1>5. f \in Surjection(D, D)
  <2> HIDE DEF D
  <2>1. QED
    BY <1>1, <1>4, FS_Injection
<1>6. \E j \in D : f[j] = k
  BY <1>5 DEF Surjection
<1>7. QED
  BY <1>6 DEF f

\* What load leaves behind is in the order of time.
InTimeOrder(t) ==
  /\ Len(t) \in Nat
  /\ \A i \in 1 .. Len(t) : t[i].ts \in Nat
  /\ \A i, j \in 1 .. Len(t) : i <= j => t[i].ts <= t[j].ts

LEMMA SortedTapeInOrder ==
  ASSUME NEW l, Len(l) \in Nat,
         \A i \in 1 .. Len(l) : l[i].ts \in Nat /\ l[i].seq \in Nat
  PROVE  InTimeOrder(SortedTape(l))
<1> DEFINE D == 1 .. Len(l)
           at == [k \in D |-> CHOOSE j \in D : Place(l, j) = k]
           t == SortedTape(l)
<1>1. t = [k \in D |-> l[at[k]]]
  BY DEF SortedTape
<1>2. ASSUME NEW k \in D PROVE at[k] \in D /\ Place(l, at[k]) = k
  BY EveryPlaceIsTaken
<1> HIDE DEF at, t
<1>3. Len(t) = Len(l)
  BY <1>1
<1>4. \A k \in D : t[k].ts \in Nat
  BY <1>1, <1>2
<1>5. ASSUME NEW i \in D, NEW j \in D, i <= j PROVE t[i].ts <= t[j].ts
  <2>1. CASE i = j
    BY <1>4, <2>1
  <2>2. CASE i # j
    <3>1. /\ at[i] \in D /\ at[j] \in D
          /\ Place(l, at[i]) = i /\ Place(l, at[j]) = j
      BY <1>2
    <3>2. ~Earlier(l, at[j], at[i]) /\ at[i] # at[j]
      BY <1>5, <2>2, <3>1, PlaceIsMonotone
    <3>3. Earlier(l, at[i], at[j])
      BY <3>1, <3>2, EarlierIsAnOrder
    <3>4. l[at[i]].ts <= l[at[j]].ts
      BY <3>1, <3>3, EarlierIsAnOrder
    <3>5. QED
      BY <1>1, <3>4
  <2>3. QED
    BY <2>1, <2>2
<1>6. QED
  BY <1>3, <1>4, <1>5 DEF InTimeOrder, t

-----------------------------------------------------------------------------
(***************************************************************************)
(* Strides.                                                                *)
(***************************************************************************)
\* A multiple of the step above n steps is at least n + 1 steps.
LEMMA NextStep ==
  ASSUME NEW step \in Nat \ {0}, NEW n \in Nat, NEW x \in Nat,
         step * n < x, x % step = 0
  PROVE  step * (n + 1) <= x
<1> DEFINE q == x \div step
<1>1. x = step * q /\ q \in Nat
  OBVIOUS
<1> HIDE DEF q
<1>2. q > n
  <2>1. SUFFICES ASSUME q <= n PROVE FALSE
    BY <1>1
  <2>2. step * q <= step * n
    BY <1>1, <2>1
  <2>3. QED
    BY <1>1, <2>2
<1>3. step * (n + 1) <= step * q
  <2>1. n + 1 <= q
    BY <1>1, <1>2
  <2>2. QED
    BY <1>1, <2>1
<1>4. QED
  BY <1>1, <1>3

\* Steps too wide for m of them to stay below x: n - 1 that do are fewer than m.
LEMMA FewSteps ==
  ASSUME NEW x \in Nat, NEW m \in Nat \ {0}, NEW n \in Nat \ {0},
         (x \div m + 1) * (n - 1) < x
  PROVE  n <= m
<1> DEFINE step == x \div m + 1
<1>1. step \in Nat /\ step * m > x
  <2> DEFINE q == x \div m
             r == x % m
  <2>1. x = m * q + r /\ q \in Nat /\ r \in Nat /\ r < m
    OBVIOUS
  <2> HIDE DEF q, r
  <2>2. step = q + 1
    BY DEF q
  <2>3. (q + 1) * m = m * q + m
    BY <2>1
  <2>4. QED
    BY <2>1, <2>2, <2>3
<1>2. step * (n - 1) < x
  OBVIOUS
<1> HIDE DEF step
<1>3. SUFFICES ASSUME n > m PROVE FALSE
  OBVIOUS
<1>4. m <= n - 1
  BY <1>3
<1>5. step * m <= step * (n - 1)
  BY <1>1, <1>4
<1>6. step * (n - 1) \in Int /\ step * m \in Int
  BY <1>1
<1>7. QED
  BY <1>1, <1>2, <1>5, <1>6

-----------------------------------------------------------------------------
(***************************************************************************)
(* The walk.                                                               *)
(***************************************************************************)
\* The event at position j falls into the window asked for.
Hit(j) ==
  /\ tape[j].sym = request.symbol
  /\ request.from_ts <= tape[j].ts
  /\ tape[j].ts <= request.to_ts

HitsUpTo(n) == Cardinality({j \in 1 .. n : Hit(j)})

\* Frames written, and the one that is due.
Owed == Len(frames) + (IF due THEN 1 ELSE 0)

WalkInv ==
  /\ request \in Requests
  /\ progress \in {"unloaded", "loaded", "walking", "answered"}
  /\ progress # "unloaded" => InTimeOrder(tape)
  /\ progress \in {"unloaded", "loaded"} =>
       walked = 0 /\ shown = 0 /\ ~due /\ frames = <<>>
  /\ progress # "unloaded" => walked \in 0 .. Len(tape) /\ shown = HitsUpTo(walked)
  /\ progress = "answered" => ~due /\ ~MoreToWalk
  /\ due \in BOOLEAN
  /\ \E S : frames \in Seq(S)

\* A frame for every Stride-th event of the window, and one more for the last.
SampleInv ==
  progress # "unloaded" =>
    \/ Stride * Owed <= shown
    \/ Owed > 0 /\ Stride * (Owed - 1) < shown /\ shown = InWindow

\* The last event of the window met so far: its frame is due, or, if it was the
\* last of the window, written.
LastInv ==
  progress # "unloaded" /\ shown > 0 =>
    \E j \in 1 .. walked :
      /\ Hit(j)
      /\ \A k \in j + 1 .. walked : ~Hit(k)
      /\ due => j = walked
      /\ ~due /\ shown = InWindow =>
           Len(frames) > 0 /\ frames[Len(frames)].eid = tape[j].eid

ReplayInv == WalkInv /\ SampleInv /\ LastInv

LEMMA RequestFields ==
  ASSUME NEW r \in Requests
  PROVE  /\ r.from_ts \in Nat /\ r.to_ts \in Nat /\ r.max_frames \in Nat \ {0}
         /\ r.from_ts < r.to_ts
BY RequestsAssumption

\* Counting the window.
LEMMA HitsCount ==
  ASSUME NEW n \in Nat
  PROVE  /\ HitsUpTo(n) \in Nat
         /\ HitsUpTo(n + 1) = HitsUpTo(n) + (IF Hit(n + 1) THEN 1 ELSE 0)
         /\ HitsUpTo(n) > 0 => \E j \in 1 .. n : Hit(j)
<1> DEFINE H(m) == {j \in 1 .. m : Hit(j)}
<1>1. IsFiniteSet(1 .. n)
  BY FS_Interval
<1>2. IsFiniteSet(H(n)) /\ Cardinality(H(n)) \in Nat
  <2>1. H(n) \in SUBSET (1 .. n)
    OBVIOUS
  <2> HIDE DEF H
  <2>2. QED
    BY <1>1, <2>1, FS_Subset, FS_CardinalityType
<1>3. H(n + 1) = IF Hit(n + 1) THEN H(n) \cup {n + 1} ELSE H(n)
  <2>1. 1 .. n + 1 = (1 .. n) \cup {n + 1}
    OBVIOUS
  <2>2. QED
    BY <2>1
<1>4. n + 1 \notin H(n)
  OBVIOUS
<1>5. HitsUpTo(n) = Cardinality(H(n)) /\ HitsUpTo(n + 1) = Cardinality(H(n + 1))
  BY DEF HitsUpTo
<1>6. Cardinality(H(n)) > 0 => \E j \in 1 .. n : Hit(j)
  <2>1. Cardinality(H(n)) > 0 => H(n) # {}
    BY FS_EmptySet
  <2>2. QED
    BY <2>1
<1> HIDE DEF H
<1>7. Cardinality(H(n) \cup {n + 1}) = Cardinality(H(n)) + 1
  BY <1>2, <1>4, FS_AddElement
<1>8. QED
  BY <1>2, <1>3, <1>5, <1>6, <1>7

LEMMA WindowIsAllHits ==
  /\ InWindow = HitsUpTo(Len(tape))
  /\ Len(tape) \in Nat => InWindow \in Nat
<1>1. InWindow = HitsUpTo(Len(tape))
  BY DEF InWindow, HitsUpTo, Hit
<1>2. QED
  BY <1>1, HitsCount

LEMMA StrideIsPositive ==
  ASSUME InWindow \in Nat, request.max_frames \in Nat \ {0}
  PROVE  Stride \in Nat \ {0}
BY DEF Stride

LEMMA WindowUnchanged ==
  ASSUME UNCHANGED <<tape, request>>
  PROVE  /\ \A j : Hit(j)' <=> Hit(j)
         /\ \A n : HitsUpTo(n)' = HitsUpTo(n)
         /\ InWindow' = InWindow /\ Stride' = Stride
<1>1. InWindow' = InWindow
  BY DEF InWindow
<1>2. QED
  BY <1>1 DEF Hit, HitsUpTo, Stride

\* What the walk relies on while it runs.
LEMMA Walking ==
  ASSUME WalkInv, progress # "unloaded"
  PROVE  /\ Len(tape) \in Nat /\ walked \in Nat /\ walked <= Len(tape)
         /\ request.max_frames \in Nat \ {0}
         /\ InWindow \in Nat /\ Stride \in Nat \ {0}
         /\ shown \in Nat /\ shown = HitsUpTo(walked)
         /\ Len(frames) \in Nat /\ Owed \in Nat
<1>1. /\ Len(tape) \in Nat /\ walked \in Nat /\ walked <= Len(tape)
      /\ shown = HitsUpTo(walked) /\ request \in Requests
  BY DEF WalkInv, InTimeOrder
<1>2. request.max_frames \in Nat \ {0}
  BY <1>1, RequestFields
<1>3. InWindow \in Nat
  BY <1>1, WindowIsAllHits
<1>4. Len(frames) \in Nat
  <2>1. PICK S : frames \in Seq(S)
    BY DEF WalkInv
  <2>2. QED
    BY <2>1
<1>5. QED
  BY <1>1, <1>2, <1>3, <1>4, StrideIsPositive, HitsCount DEF Owed

LEMMA LoadKeeps ==
  ASSUME WalkInv, Load(lines), Len(lines) \in Nat,
         \A i \in 1 .. Len(lines) : lines[i].ts \in Nat /\ lines[i].seq \in Nat
  PROVE  ReplayInv'
<1>1. /\ tape' = SortedTape(lines) /\ progress' = "loaded"
      /\ walked' = 0 /\ shown' = 0 /\ due' = FALSE /\ frames' = <<>> /\ request' = request
  BY DEF Load, WalkInv
<1>2. InTimeOrder(tape')
  BY <1>1, SortedTapeInOrder
<1>3. HitsUpTo(0)' = 0
  <2>1. {j \in 1 .. 0 : Hit(j)'} = {}
    OBVIOUS
  <2>2. QED
    BY <2>1, FS_EmptySet DEF HitsUpTo
<1>4. 0 \in 0 .. Len(tape') /\ frames' \in Seq({}) /\ Len(frames') = 0
  BY <1>1, <1>2 DEF InTimeOrder
<1>5. shown' = HitsUpTo(walked)'
  BY <1>1, <1>3 DEF HitsUpTo
<1>6. WalkInv'
  BY <1>1, <1>2, <1>4, <1>5 DEF WalkInv
<1>7. SampleInv'
  <2>1. Owed' = 0
    BY <1>1, <1>4 DEF Owed
  <2>2. Stride' \in Nat
    <3>1. Len(tape') \in Nat
      BY <1>2 DEF InTimeOrder
    <3>2. request'.max_frames \in Nat \ {0}
      BY <1>1, RequestFields DEF WalkInv
    <3>3. InWindow' \in Nat
      <4>1. IsFiniteSet(1 .. Len(tape'))
        BY <3>1, FS_Interval
      <4>2. InWindow' = Cardinality({j \in 1 .. Len(tape') :
                                       /\ tape'[j].sym = request'.symbol
                                       /\ request'.from_ts <= tape'[j].ts
                                       /\ tape'[j].ts <= request'.to_ts})
        BY DEF InWindow
      <4>3. QED
        BY <4>1, <4>2, FS_Subset, FS_CardinalityType
    <3>4. QED
      BY <3>2, <3>3 DEF Stride
  <2>3. Stride' * Owed' <= shown'
    <3>1. ASSUME NEW x \in Nat PROVE x * 0 <= 0
      OBVIOUS
    <3>2. Stride' * 0 <= 0
      BY <2>2, <3>1
    <3>3. QED
      BY <1>1, <2>1, <3>2
  <2>4. QED
    BY <2>3 DEF SampleInv
<1>8. LastInv'
  BY <1>1 DEF LastInv
<1>9. QED
  BY <1>6, <1>7, <1>8 DEF ReplayInv

\* Steps that leave the tape, the walk and the frames alone.
LEMMA StandingStillKeeps ==
  ASSUME ReplayInv, UNCHANGED <<tape, request, walked, shown, due, frames>>,
         \/ progress' = progress
         \/ progress = "loaded" /\ progress' = "walking"
         \/ progress = "walking" /\ progress' = "answered" /\ ~due /\ ~MoreToWalk
  PROVE  ReplayInv'
<1>1. /\ \A j : Hit(j)' <=> Hit(j)
      /\ HitsUpTo(walked)' = HitsUpTo(walked)
      /\ InWindow' = InWindow /\ Stride' = Stride
  <2>1. HitsUpTo(walked)' = HitsUpTo(walked)
    BY DEF HitsUpTo, Hit
  <2>2. QED
    BY <2>1, WindowUnchanged
<1>2. MoreToWalk' <=> MoreToWalk
  BY DEF MoreToWalk
<1>3. Owed' = Owed
  BY DEF Owed
<1>4. progress' # "unloaded" <=> progress # "unloaded"
  OBVIOUS
<1>5. WalkInv'
  BY <1>1, <1>2, <1>4 DEF ReplayInv, WalkInv
<1>6. SampleInv'
  BY <1>1, <1>3, <1>4 DEF ReplayInv, SampleInv
<1>7. LastInv'
  BY <1>1, <1>4 DEF ReplayInv, LastInv
<1>8. QED
  BY <1>5, <1>6, <1>7 DEF ReplayInv

\* An event that is not of the window is walked past.
LEMMA MissKeeps ==
  ASSUME ReplayInv, progress = "walking", ~due, MoreToWalk, ~Hit(walked + 1),
         UNCHANGED <<tape, request, shown, due, frames, progress>>,
         walked' = walked + 1
  PROVE  ReplayInv'
<1>1. /\ \A j : Hit(j)' <=> Hit(j)
      /\ \A n : HitsUpTo(n)' = HitsUpTo(n)
      /\ InWindow' = InWindow /\ Stride' = Stride
  BY WindowUnchanged
<1>2. /\ walked \in Nat /\ Len(tape) \in Nat /\ walked + 1 <= Len(tape)
      /\ shown = HitsUpTo(walked)
  BY Walking DEF ReplayInv, MoreToWalk
<1>3. shown = HitsUpTo(walked + 1)
  BY <1>2, HitsCount
<1>4. shown' = HitsUpTo(walked)'
  BY <1>1, <1>3 DEF HitsUpTo, Hit
<1>5. WalkInv'
  BY <1>2, <1>4 DEF ReplayInv, WalkInv
<1>6. SampleInv'
  BY <1>1 DEF ReplayInv, SampleInv, Owed
<1>7. LastInv'
  <2>1. SUFFICES ASSUME shown > 0
                 PROVE  \E j \in 1 .. walked' :
                          /\ Hit(j)
                          /\ \A k \in j + 1 .. walked' : ~Hit(k)
                          /\ due' => j = walked'
                          /\ ~due' /\ shown' = InWindow =>
                               Len(frames) > 0 /\ frames[Len(frames)].eid = tape[j].eid
    BY <1>1 DEF LastInv
  <2>2. PICK j \in 1 .. walked :
           /\ Hit(j)
           /\ \A k \in j + 1 .. walked : ~Hit(k)
           /\ due => j = walked
           /\ ~due /\ shown = InWindow =>
                Len(frames) > 0 /\ frames[Len(frames)].eid = tape[j].eid
    BY <2>1 DEF ReplayInv, LastInv
  <2>3. j \in 1 .. walked' /\ \A k \in j + 1 .. walked' : ~Hit(k)
    BY <1>2, <2>2
  <2>4. QED
    BY <2>2, <2>3
<1>8. QED
  BY <1>5, <1>6, <1>7 DEF ReplayInv

\* The count of the window grows along the tape.
LEMMA HitsBound ==
  ASSUME NEW n \in Nat, Len(tape) \in Nat, n <= Len(tape)
  PROVE  HitsUpTo(n) <= InWindow
<1> DEFINE H(m) == {j \in 1 .. m : Hit(j)}
<1>1. H(n) \in SUBSET H(Len(tape))
  OBVIOUS
<1>2. IsFiniteSet(H(Len(tape)))
  <2>1. IsFiniteSet(1 .. Len(tape)) /\ H(Len(tape)) \in SUBSET (1 .. Len(tape))
    BY FS_Interval
  <2> HIDE DEF H
  <2>2. QED
    BY <2>1, FS_Subset
<1>3. HitsUpTo(n) = Cardinality(H(n)) /\ InWindow = Cardinality(H(Len(tape)))
  BY WindowIsAllHits DEF HitsUpTo
<1> HIDE DEF H
<1>4. QED
  BY <1>1, <1>2, <1>3, FS_Subset

\* An event of the window that is still ahead is not counted yet.
LEMMA HitsGrow ==
  ASSUME NEW n \in Nat, Len(tape) \in Nat, n < Len(tape), Hit(n + 1)
  PROVE  HitsUpTo(n) < InWindow
<1>1. HitsUpTo(n + 1) <= InWindow
  BY HitsBound
<1>2. HitsUpTo(n + 1) = HitsUpTo(n) + 1 /\ HitsUpTo(n) \in Nat
  BY HitsCount
<1>3. InWindow \in Nat
  BY WindowIsAllHits
<1>4. QED
  BY <1>1, <1>2, <1>3

\* Where the walk ends nothing of the window is ahead.
LEMMA NothingAhead ==
  ASSUME WalkInv, progress = "answered"
  PROVE  /\ \A j \in walked + 1 .. Len(tape) : ~Hit(j)
         /\ shown = InWindow
<1>1. /\ Len(tape) \in Nat /\ walked \in Nat /\ walked <= Len(tape)
      /\ shown = HitsUpTo(walked) /\ InTimeOrder(tape) /\ ~MoreToWalk
      /\ request.to_ts \in Nat
  BY Walking, RequestFields DEF WalkInv
<1>2. ASSUME NEW j \in walked + 1 .. Len(tape) PROVE ~Hit(j)
  <2>1. walked + 1 \in 1 .. Len(tape) /\ j \in 1 .. Len(tape) /\ walked + 1 <= j
    BY <1>1
  <2>2. ~(tape[walked + 1].ts <= request.to_ts)
    BY <1>1, <2>1 DEF MoreToWalk
  <2>3. tape[walked + 1].ts <= tape[j].ts /\ tape[walked + 1].ts \in Nat /\ tape[j].ts \in Nat
    BY <1>1, <2>1 DEF InTimeOrder
  <2>4. QED
    BY <1>1, <2>2, <2>3 DEF Hit
<1>3. {j \in 1 .. walked : Hit(j)} = {j \in 1 .. Len(tape) : Hit(j)}
  BY <1>1, <1>2
<1>4. QED
  BY <1>1, <1>2, <1>3, WindowIsAllHits DEF HitsUpTo

\* An event of the window is applied.
LEMMA HitKeeps ==
  ASSUME ReplayInv, progress = "walking", ~due, MoreToWalk, Hit(walked + 1),
         UNCHANGED <<tape, request, frames, progress>>,
         walked' = walked + 1, shown' = shown + 1,
         due' = (shown' % Stride = 0 \/ shown' = InWindow)
  PROVE  ReplayInv'
<1>1. /\ \A j : Hit(j)' <=> Hit(j)
      /\ \A n : HitsUpTo(n)' = HitsUpTo(n)
      /\ InWindow' = InWindow /\ Stride' = Stride
  BY WindowUnchanged
<1>2. /\ walked \in Nat /\ Len(tape) \in Nat /\ walked < Len(tape)
      /\ shown \in Nat /\ shown = HitsUpTo(walked)
      /\ InWindow \in Nat /\ Stride \in Nat \ {0} /\ Len(frames) \in Nat
  BY Walking DEF ReplayInv, MoreToWalk
<1>3. shown + 1 = HitsUpTo(walked + 1) /\ shown < InWindow
  BY <1>2, HitsCount, HitsGrow
<1>4. shown' = HitsUpTo(walked)'
  BY <1>1, <1>3 DEF HitsUpTo, Hit
<1>5. WalkInv'
  BY <1>2, <1>4 DEF ReplayInv, WalkInv
<1>6. SampleInv'
  <2>1. Owed = Len(frames)
    BY <1>2 DEF Owed
  <2>2. Stride * Len(frames) <= shown
    BY <1>2, <1>3, <2>1 DEF ReplayInv, SampleInv
  <2>3. Stride * Len(frames) \in Int
    BY <1>2
  <2>4. CASE ~due'
    <3>1. Owed' = Len(frames)
      BY <1>2, <2>4 DEF Owed
    <3>2. Stride' * Owed' <= shown'
      BY <1>1, <1>2, <2>2, <2>3, <3>1
    <3>3. QED
      BY <3>2 DEF SampleInv
  <2>5. CASE due' /\ (shown + 1) % Stride = 0
    <3>1. Owed' = Len(frames) + 1
      BY <1>2, <2>5 DEF Owed
    <3>2. Stride * (Len(frames) + 1) <= shown + 1
      <4>1. Stride * Len(frames) < shown + 1 /\ shown + 1 \in Nat
        BY <1>2, <2>2, <2>3
      <4>2. QED
        BY <1>2, <2>5, <4>1, NextStep
    <3>3. Stride' * Owed' <= shown'
      BY <1>1, <3>1, <3>2
    <3>4. QED
      BY <3>3 DEF SampleInv
  <2>6. CASE due' /\ shown' = InWindow
    <3>1. Owed' = Len(frames) + 1
      BY <1>2, <2>6 DEF Owed
    <3>2. Owed' > 0 /\ Owed' - 1 = Len(frames)
      BY <1>2, <3>1
    <3>3. Stride' * (Owed' - 1) < shown'
      BY <1>1, <1>2, <2>2, <2>3, <3>2
    <3>4. shown' = InWindow'
      BY <1>1, <2>6
    <3>5. QED
      BY <3>2, <3>3, <3>4 DEF SampleInv
  <2>7. QED
    BY <2>4, <2>5, <2>6
<1>7. LastInv'
  <2>1. /\ walked + 1 \in 1 .. walked' /\ Hit(walked + 1)
        /\ \A k \in walked + 1 + 1 .. walked' : ~Hit(k)
        /\ due' => walked + 1 = walked'
        /\ ~due' => shown' # InWindow
    <3>1. ~due' => shown' # InWindow
      OBVIOUS
    <3>2. walked + 1 \in 1 .. walked' /\ Hit(walked + 1)
      BY <1>2
    <3>3. ASSUME NEW k \in walked + 1 + 1 .. walked' PROVE ~Hit(k)
      BY <1>2
    <3>4. QED
      BY <3>1, <3>2, <3>3
  <2>2. \E j \in 1 .. walked' :
          /\ Hit(j)
          /\ \A k \in j + 1 .. walked' : ~Hit(k)
          /\ due' => j = walked'
          /\ ~due' /\ shown' = InWindow =>
               Len(frames') > 0 /\ frames'[Len(frames')].eid = tape'[j].eid
    BY <2>1
  <2>3. QED
    BY <1>1, <2>2 DEF LastInv
<1>8. QED
  BY <1>5, <1>6, <1>7 DEF ReplayInv

\* The frame that is due is written.
LEMMA ShowKeeps ==
  ASSUME ReplayInv, Show
  PROVE  ReplayInv'
<1>1. /\ UNCHANGED <<tape, request, walked, shown, progress>>
      /\ progress = "walking" /\ due /\ due' = FALSE
  BY DEF Show
<1>2. /\ \A j : Hit(j)' <=> Hit(j)
      /\ \A n : HitsUpTo(n)' = HitsUpTo(n)
      /\ InWindow' = InWindow /\ Stride' = Stride
  BY <1>1, WindowUnchanged
<1>3. PICK S : frames \in Seq(S)
  BY DEF ReplayInv, WalkInv
<1> DEFINE frame == [eid |-> tape[walked].eid, ts |-> tape[walked].ts, orders |-> r_orders]
<1>4. frames' = Append(frames, frame) /\ frame.eid = tape[walked].eid
  BY DEF Show
<1> HIDE DEF frame
<1>5. /\ frames' \in Seq(S \cup {frame}) /\ Len(frames') = Len(frames) + 1
      /\ Len(frames) \in Nat /\ frames'[Len(frames')] = frame
  <2>1. frames \in Seq(S \cup {frame})
    BY <1>3
  <2>2. QED
    BY <1>3, <1>4, <2>1
<1>6. Owed' = Owed
  BY <1>1, <1>5 DEF Owed
<1>7. WalkInv'
  <2>1. HitsUpTo(walked)' = HitsUpTo(walked)
    BY <1>1 DEF HitsUpTo, Hit
  <2>2. \E T : frames' \in Seq(T)
    BY <1>5
  <2>3. QED
    BY <1>1, <2>1, <2>2 DEF ReplayInv, WalkInv
<1>8. SampleInv'
  BY <1>1, <1>2, <1>6 DEF ReplayInv, SampleInv
<1>9. LastInv'
  <2>1. SUFFICES ASSUME shown > 0
                 PROVE  \E j \in 1 .. walked :
                          /\ Hit(j)
                          /\ \A k \in j + 1 .. walked : ~Hit(k)
                          /\ Len(frames') > 0 /\ frames'[Len(frames')].eid = tape[j].eid
    BY <1>1, <1>2 DEF LastInv
  <2>2. PICK j \in 1 .. walked :
           /\ Hit(j)
           /\ \A k \in j + 1 .. walked : ~Hit(k)
           /\ j = walked
    BY <1>1, <2>1 DEF ReplayInv, LastInv
  <2>3. QED
    BY <1>4, <1>5, <2>2
<1>10. QED
  BY <1>7, <1>8, <1>9 DEF ReplayInv

LEMMA WalkKeeps ==
  ASSUME ReplayInv, Walk
  PROVE  ReplayInv'
<1>1. CASE Ask
  BY <1>1, StandingStillKeeps DEF Ask
<1>2. CASE PassOver
  <2>1. ~Hit(walked + 1)
    BY <1>2 DEF PassOver, Hit
  <2>2. QED
    BY <1>2, <2>1, MissKeeps DEF PassOver
<1>3. CASE ApplyBefore
  <2>1. /\ progress = "walking" /\ ~due /\ MoreToWalk
        /\ tape[walked + 1].ts < request.from_ts
        /\ UNCHANGED <<tape, request, shown, due, frames, progress>>
        /\ walked' = walked + 1
    BY <1>3 DEF ApplyBefore
  <2>2. InTimeOrder(tape) /\ request \in Requests /\ walked + 1 \in 1 .. Len(tape)
    BY <2>1, Walking DEF ReplayInv, WalkInv, MoreToWalk
  <2>3. tape[walked + 1].ts \in Nat /\ request.from_ts \in Nat
    BY <2>2, RequestFields DEF InTimeOrder
  <2>4. ~Hit(walked + 1)
    BY <2>1, <2>3 DEF Hit
  <2>5. QED
    BY <2>1, <2>4, MissKeeps
<1>4. CASE ApplyInside
  <2>1. /\ progress = "walking" /\ ~due /\ MoreToWalk
        /\ tape[walked + 1].sym = request.symbol
        /\ tape[walked + 1].ts >= request.from_ts
        /\ UNCHANGED <<tape, request, frames, progress>>
        /\ walked' = walked + 1 /\ shown' = shown + 1
        /\ due' = (shown' % Stride = 0 \/ shown' = InWindow)
    BY <1>4 DEF ApplyInside
  <2>2. Hit(walked + 1)
    <3>1. InTimeOrder(tape) /\ request \in Requests /\ walked + 1 \in 1 .. Len(tape)
      BY <2>1, Walking DEF ReplayInv, WalkInv, MoreToWalk
    <3>2. tape[walked + 1].ts \in Nat /\ request.from_ts \in Nat
      BY <3>1, RequestFields DEF InTimeOrder
    <3>3. QED
      BY <2>1, <3>2 DEF Hit, MoreToWalk
  <2>3. QED
    BY <2>1, <2>2, HitKeeps
<1>5. CASE RepairReplayed
  BY <1>5, StandingStillKeeps DEF RepairReplayed
<1>6. CASE Show
  BY <1>6, ShowKeeps
<1>7. CASE Answer
  BY <1>7, StandingStillKeeps DEF Answer
<1>8. QED
  BY <1>1, <1>2, <1>3, <1>4, <1>5, <1>6, <1>7 DEF Walk

-----------------------------------------------------------------------------
(***************************************************************************)
(* The replay behind the engine, on the tape the engine read.              *)
(***************************************************************************)
LEMMA ConsoleIsFeed ==
  /\ ConsoleInit => FeedInit
  /\ [ConsoleNext]_consoleVars => [FeedNext]_feedVars
<1>1. ConsoleInit => FeedInit
  BY DEF ConsoleInit
<1>2. FeedStep => FeedNext
  BY DEF FeedStep, FeedNext
<1>3. ApplyToBook => FeedNext
  BY DEF ApplyToBook, FeedNext
<1>4. RepairDetected \/ StartApi \/ Answering => UNCHANGED feedVars
  BY DEF RepairDetected, StartApi, Answering
<1>5. UNCHANGED consoleVars => UNCHANGED feedVars
  BY DEF consoleVars
<1>6. QED
  BY <1>1, <1>2, <1>3, <1>4, <1>5 DEF ConsoleNext

\* A step is one of the replay's, or leaves it alone.
LEMMA ConsoleSteps ==
  [ConsoleNext]_consoleVars => Load(lines) \/ Walk \/ UNCHANGED replayVars
<1>1. FeedStep \/ ApplyToBook \/ RepairDetected => UNCHANGED replayVars
  BY DEF FeedStep, ApplyToBook, RepairDetected
<1>2. StartApi => Load(lines)
  BY DEF StartApi
<1>3. Answering => Walk
  BY DEF Answering
<1>4. UNCHANGED consoleVars => UNCHANGED replayVars
  BY DEF consoleVars
<1>5. QED
  BY <1>1, <1>2, <1>3, <1>4 DEF ConsoleNext

LEMMA ReplayBegins == ConsoleInit => ReplayInv
<1> SUFFICES ASSUME ConsoleInit PROVE ReplayInv
  OBVIOUS
<1>1. /\ request \in Requests /\ walked = 0 /\ shown = 0 /\ due = FALSE
      /\ frames = <<>> /\ progress = "unloaded"
  BY DEF ConsoleInit, ReplayInit
<1>2. frames \in Seq({})
  BY <1>1
<1>3. WalkInv
  BY <1>1, <1>2 DEF WalkInv
<1>4. QED
  BY <1>1, <1>3 DEF ReplayInv, SampleInv, LastInv

\* What the inductive invariant says of the answer.
LEMMA SampledEnough ==
  ASSUME ReplayInv
  PROVE  Len(frames) <= request.max_frames
<1>1. CASE progress = "unloaded"
  <2>1. frames = <<>> /\ request.max_frames \in Nat
    BY <1>1, RequestFields DEF ReplayInv, WalkInv
  <2>2. QED
    BY <2>1
<1>2. CASE progress # "unloaded"
  <2>1. /\ Len(tape) \in Nat /\ walked \in Nat /\ walked <= Len(tape)
        /\ request.max_frames \in Nat \ {0}
        /\ InWindow \in Nat /\ Stride \in Nat \ {0}
        /\ shown \in Nat /\ shown = HitsUpTo(walked)
        /\ Len(frames) \in Nat /\ Owed \in Nat
    BY <1>2, Walking DEF ReplayInv
  <2>2. shown <= InWindow
    BY <2>1, HitsBound
  <2>3. Len(frames) <= Owed
    BY <2>1 DEF Owed
  <2>4. SUFFICES ASSUME Owed > 0 PROVE Owed <= request.max_frames
    BY <2>1, <2>3
  <2>5. Stride * (Owed - 1) < InWindow
    <3>1. CASE Stride * Owed <= shown
      <4>1. Stride * Owed = Stride * (Owed - 1) + Stride
        BY <2>1
      <4>2. Stride * (Owed - 1) \in Int
        BY <2>1
      <4>3. QED
        BY <2>1, <2>2, <3>1, <4>1, <4>2
    <3>2. CASE Stride * (Owed - 1) < shown
      <4>1. Stride * (Owed - 1) \in Int
        BY <2>1
      <4>2. QED
        BY <2>1, <2>2, <3>2, <4>1
    <3>3. QED
      BY <1>2, <3>1, <3>2 DEF ReplayInv, SampleInv
  <2>6. CASE InWindow > request.max_frames
    <3>1. Stride = InWindow \div request.max_frames + 1
      BY <2>1, <2>6 DEF Stride
    <3>2. (InWindow \div request.max_frames + 1) * (Owed - 1) < InWindow
      BY <2>5, <3>1
    <3>3. Owed \in Nat \ {0}
      BY <2>1, <2>4
    <3>4. QED
      BY <2>1, <3>2, <3>3, FewSteps
  <2>7. CASE InWindow <= request.max_frames
    <3>1. Stride = 1
      BY <2>1, <2>7 DEF Stride
    <3>2. QED
      BY <2>1, <2>5, <2>7, <3>1
  <2>8. QED
    BY <2>1, <2>6, <2>7
<1>3. QED
  BY <1>1, <1>2

LEMMA SampledToItsEnd ==
  ASSUME ReplayInv, progress = "answered", InWindow > 0
  PROVE  /\ frames # <<>>
         /\ \A j \in 1 .. Len(tape) :
              tape[j].sym = request.symbol /\ tape[j].ts \in request.from_ts .. request.to_ts
                /\ (\A l \in j + 1 .. Len(tape) : tape[l].sym = request.symbol =>
                                                    tape[l].ts > request.to_ts)
                => frames[Len(frames)].eid = tape[j].eid
<1>1. /\ Len(tape) \in Nat /\ walked \in Nat /\ walked <= Len(tape)
      /\ shown \in Nat /\ shown = InWindow /\ InTimeOrder(tape) /\ ~due
      /\ request.to_ts \in Nat /\ request.from_ts \in Nat
      /\ \A j \in walked + 1 .. Len(tape) : ~Hit(j)
  BY Walking, NothingAhead, RequestFields DEF ReplayInv, WalkInv
<1>2. PICK m \in 1 .. walked :
         /\ Hit(m)
         /\ \A k \in m + 1 .. walked : ~Hit(k)
         /\ Len(frames) > 0 /\ frames[Len(frames)].eid = tape[m].eid
  BY <1>1 DEF ReplayInv, LastInv
<1>3. frames # <<>>
  BY <1>2
<1>4. ASSUME NEW j \in 1 .. Len(tape),
             tape[j].sym = request.symbol, tape[j].ts \in request.from_ts .. request.to_ts,
             \A l \in j + 1 .. Len(tape) : tape[l].sym = request.symbol =>
                                             tape[l].ts > request.to_ts
      PROVE  frames[Len(frames)].eid = tape[j].eid
  <2>1. Hit(j)
    BY <1>1, <1>4 DEF Hit
  <2>2. j <= m
    BY <1>1, <1>2, <2>1
  <2>3. ~(j < m)
    <3>1. SUFFICES ASSUME j < m PROVE FALSE
      OBVIOUS
    <3>2. m \in j + 1 .. Len(tape) /\ tape[m].ts \in Nat
      BY <1>1, <1>2, <3>1 DEF InTimeOrder
    <3>3. tape[m].sym = request.symbol /\ tape[m].ts <= request.to_ts
      BY <1>2 DEF Hit
    <3>4. tape[m].ts > request.to_ts
      BY <1>4, <3>2, <3>3
    <3>5. QED
      BY <1>1, <3>2, <3>3, <3>4
  <2>4. j = m
    BY <2>2, <2>3
  <2>5. QED
    BY <1>2, <2>4
<1>5. QED
  BY <1>3, <1>4

\* The inductive invariant of the walk.
LEMMA ReplayCorrect == ConsoleSpec => []ReplayInv
<1>1. FeedTypeOK => /\ Len(lines) \in Nat
                    /\ \A i \in 1 .. Len(lines) : lines[i].ts \in Nat /\ lines[i].seq \in Nat
  BY LineFields DEF FeedTypeOK, TapeOK
<1>2. ReplayInv /\ FeedTypeOK /\ [ConsoleNext]_consoleVars => ReplayInv'
  <2> SUFFICES ASSUME ReplayInv, FeedTypeOK, [ConsoleNext]_consoleVars PROVE ReplayInv'
    OBVIOUS
  <2>1. CASE Load(lines)
    BY <1>1, <2>1, LoadKeeps DEF ReplayInv
  <2>2. CASE Walk
    BY <2>2, WalkKeeps
  <2>3. CASE UNCHANGED replayVars
    BY <2>3, StandingStillKeeps DEF replayVars
  <2>4. QED
    BY <2>1, <2>2, <2>3, ConsoleSteps
<1>3. ConsoleSpec => FeedSpec
  BY ConsoleIsFeed, PTL DEF ConsoleSpec, FeedSpec
<1>4. QED
  BY <1>2, <1>3, ReplayBegins, FeedTypeCorrect, PTL DEF ConsoleSpec

(***************************************************************************)
(* However the tape was damaged and whatever is asked for, the answer has  *)
(* no more frames than were asked for and ends with the last event of the  *)
(* window (frame_stride and frames_json of replay.cpp).                    *)
(***************************************************************************)
THEOREM WindowsAreSampledCorrect == ConsoleSpec => []WindowsAreSampled
<1>1. ReplayInv => WindowsAreSampled
  BY SampledEnough, SampledToItsEnd DEF WindowsAreSampled
<1>2. QED
  BY <1>1, ReplayCorrect, PTL

-----------------------------------------------------------------------------
(***************************************************************************)
(* The two books.  Both are books as BookStateProofs has them, so what is  *)
(* proved there of a book holds of each, and with the same cap they do the *)
(* same with the same event.                                               *)
(***************************************************************************)
Det == INSTANCE BookStateProofs WITH
  orders <- d_orders, agg <- d_agg, stats <- d_stats, now <- d_now,
  stage <- d_stage, round <- d_round, ids <- d_ids, departed <- d_departed,
  entrant <- d_entrant, fedEvents <- d_fed,
  Quantity <- Int, MaxEvents <- MaxLines

Rep == INSTANCE BookStateProofs WITH
  orders <- r_orders, agg <- r_agg, stats <- r_stats, now <- r_now,
  stage <- r_stage, round <- r_round, ids <- r_ids, departed <- r_departed,
  entrant <- r_entrant, fedEvents <- r_fed,
  MaxOrders <- ReplayOrders, Quantity <- Int, MaxEvents <- MaxLines

LEMMA BookAssumptions ==
  /\ Det!PriceAssumption /\ Det!QuantityAssumption
  /\ Det!MaxOrdersAssumption /\ Det!RepairRoundsAssumption
  /\ Rep!PriceAssumption /\ Rep!QuantityAssumption
  /\ Rep!MaxOrdersAssumption /\ Rep!RepairRoundsAssumption
BY BooksAssumption
   DEF Det!PriceAssumption, Det!QuantityAssumption,
       Det!MaxOrdersAssumption, Det!RepairRoundsAssumption,
       Rep!PriceAssumption, Rep!QuantityAssumption,
       Rep!MaxOrdersAssumption, Rep!RepairRoundsAssumption

\* What the lines of a damaged tape say is what the clean tape said.
LEMMA MarketFields ==
  ASSUME NEW e \in Line
  PROVE  /\ e.id \in OrderId /\ e.who \in Participant /\ e.side \in {"Buy", "Sell"}
         /\ e.px \in Price \cup {NoPrice} /\ e.q \in Int
<1>1. PICK s \in Tapes, ev \in TapeEvent, delta \in {0} \cup Skews :
        ev \in ToSet(s) /\ e = Skewed(ev, delta)
  <2>1. PICK ev \in TapeEvent, delta \in {0} \cup Skews : e = Skewed(ev, delta)
    BY DEF Line
  <2>2. PICK s \in Tapes : ev \in ToSet(s)
    BY DEF TapeEvent
  <2>3. QED
    BY <2>1, <2>2
<1>2. PICK k \in DOMAIN s : ev = s[k]
  BY <1>1 DEF ToSet
<1>3. /\ {"kind", "sym", "id", "who", "side", "px", "q"} \subseteq DOMAIN ev
      /\ ev.id \in OrderId /\ ev.who \in Participant
      /\ ev.side \in {"Buy", "Sell"}
      /\ ev.px \in Price \cup {NoPrice} /\ ev.q \in Int
  BY <1>2, MarketEventsAssumption
<1>4. e.id = ev.id /\ e.who = ev.who /\ e.side = ev.side /\ e.px = ev.px /\ e.q = ev.q
  BY <1>1, <1>3 DEF Skewed
<1>5. QED
  BY <1>3, <1>4

-----------------------------------------------------------------------------
LEMMA DetFigures ==
  /\ \A a, o, ts : DetectorsBook!Enter(a, o, ts) = Det!Enter(a, o, ts)
  /\ \A a, o : DetectorsBook!Leave(a, o) = Det!Leave(a, o)
<1>1. \A a, p, s, q, n : DetectorsBook!Footprint(a, p, s, q, n) = Det!Footprint(a, p, s, q, n)
  BY DEF DetectorsBook!Footprint, Det!Footprint, DetectorsBook!Max2, Det!Max2
<1>2. \A a, s, px, q, ts : DetectorsBook!AddLevel(a, s, px, q, ts) = Det!AddLevel(a, s, px, q, ts)
  BY DEF DetectorsBook!AddLevel, DetectorsBook!LevelAt, DetectorsBook!NoLevel, DetectorsBook!Bind, DetectorsBook!Max2,
         Det!AddLevel, Det!LevelAt, Det!NoLevel, Det!Bind, Det!Max2
<1>3. \A a, s, px, q : DetectorsBook!RemoveLevel(a, s, px, q) = Det!RemoveLevel(a, s, px, q)
  BY DEF DetectorsBook!RemoveLevel, DetectorsBook!Bind, DetectorsBook!Unbind, DetectorsBook!Max2,
         Det!RemoveLevel, Det!Bind, Det!Unbind, Det!Max2
<1>4. \A a, o, ts : DetectorsBook!Enter(a, o, ts) = Det!Enter(a, o, ts)
  BY <1>1, <1>2 DEF DetectorsBook!Enter, Det!Enter
<1>5. \A a, o : DetectorsBook!Leave(a, o) = Det!Leave(a, o)
  BY <1>1, <1>3 DEF DetectorsBook!Leave, Det!Leave
<1>6. QED
  BY <1>4, <1>5

LEMMA DetHandles ==
  ASSUME NEW e
  PROVE  DetectorsBook!Handle(e) => Det!Handle(e)
<1>1. \A f, k, v : DetectorsBook!Bind(f, k, v) = Det!Bind(f, k, v)
  BY DEF DetectorsBook!Bind, Det!Bind
<1>2. \A f, k : DetectorsBook!Unbind(f, k) = Det!Unbind(f, k)
  BY DEF DetectorsBook!Unbind, Det!Unbind
<1>3. \A a, o, ts : DetectorsBook!Enter(a, o, ts) = Det!Enter(a, o, ts)
  BY DetFigures
<1>4. \A a, o : DetectorsBook!Leave(a, o) = Det!Leave(a, o)
  BY DetFigures
<1>5. \A a, s, px, q : DetectorsBook!ReduceLevel(a, s, px, q) = Det!ReduceLevel(a, s, px, q)
  BY DEF DetectorsBook!ReduceLevel, DetectorsBook!Bind, DetectorsBook!Unbind,
         DetectorsBook!Min2, Det!ReduceLevel, Det!Bind, Det!Unbind, Det!Min2
<1>6. \A a, p, s, q, n : DetectorsBook!Footprint(a, p, s, q, n) = Det!Footprint(a, p, s, q, n)
  BY DEF DetectorsBook!Footprint, Det!Footprint, DetectorsBook!Max2, Det!Max2
<1>7. \A a, s : DetectorsBook!Best(a, s) = Det!Best(a, s)
  BY DEF DetectorsBook!Best, Det!Best, DetectorsBook!Max, Det!Max, DetectorsBook!Min, Det!Min
<1>8. \A a : DetectorsBook!CrossedBook(a) <=> Det!CrossedBook(a)
  BY <1>7 DEF DetectorsBook!CrossedBook, Det!CrossedBook
<1>9. /\ DetectorsBook!ThenRepair <=> Det!ThenRepair
      /\ \A c : DetectorsBook!NoteCrossed(c) = Det!NoteCrossed(c)
      /\ \A c : DetectorsBook!Count(c) = Det!Count(c)
      /\ DetectorsBook!Arrive <=> Det!Arrive
  BY <1>8 DEF DetectorsBook!ThenRepair, Det!ThenRepair, DetectorsBook!NoteCrossed,
              Det!NoteCrossed, DetectorsBook!Count, Det!Count, DetectorsBook!Arrive, Det!Arrive
<1>10. \A c : DetectorsBook!Refuse(c) <=> Det!Refuse(c)
  BY <1>9 DEF DetectorsBook!Refuse, Det!Refuse
<1>11. \A S : DetectorsBook!Cardinality(S) = Det!Cardinality(S)
  BY DEF DetectorsBook!Cardinality, Det!Cardinality
<1>12. \A id : DetectorsBook!Withdraw(id) <=> Det!Withdraw(id)
  BY <1>2, <1>4, <1>9 DEF DetectorsBook!Withdraw, Det!Withdraw
<1>13. /\ \A x, y : DetectorsBook!Max2(x, y) = Det!Max2(x, y)
       /\ \A x, y : DetectorsBook!Min2(x, y) = Det!Min2(x, y)
  BY DEF DetectorsBook!Max2, Det!Max2, DetectorsBook!Min2, Det!Min2
<1>14. \A id, px, q : DetectorsBook!Amend(id, px, q) <=> Det!Amend(id, px, q)
  <2> TAKE id, px, q
  <2> DEFINE old == d_orders[id]
             new_px == IF px = NoPrice THEN old.price ELSE px
             new == [old EXCEPT !.price = new_px,
                                !.remaining = q,
                                !.original_qty = Det!Max2(@, q + old.filled),
                                !.entry_ts = IF new_px # old.price THEN d_now' ELSE @]
  <2>1. DetectorsBook!Amend(id, px, q) <=>
          /\ d_orders' = [d_orders EXCEPT ![id] = new]
          /\ d_agg' = DetectorsBook!Enter(DetectorsBook!Leave(d_agg, old), new, d_now')
          /\ d_stats' = DetectorsBook!NoteCrossed(d_stats)
          /\ d_entrant' = id
          /\ DetectorsBook!ThenRepair
          /\ UNCHANGED d_departed
    BY DEF DetectorsBook!Amend, DetectorsBook!Max2, Det!Max2
  <2>2. Det!Amend(id, px, q) <=>
          /\ d_orders' = [d_orders EXCEPT ![id] = new]
          /\ d_agg' = Det!Enter(Det!Leave(d_agg, old), new, d_now')
          /\ d_stats' = Det!NoteCrossed(d_stats)
          /\ d_entrant' = id
          /\ Det!ThenRepair
          /\ UNCHANGED d_departed
    BY DEF Det!Amend
  <2> HIDE DEF new, old
  <2>3. QED
    BY <1>3, <1>4, <1>9, <2>1, <2>2
<1>15. \A id, q : DetectorsBook!Fill(id, q) <=> Det!Fill(id, q)
  BY <1>2, <1>4, <1>5, <1>6, <1>9, <1>13 DEF DetectorsBook!Fill, Det!Fill
<1>16. \A id, q, px : DetectorsBook!OnOrderRefused(id, q, px) <=> Det!OnOrderRefused(id, q, px)
  BY <1>9, <1>10, <1>11 DEF DetectorsBook!OnOrderRefused, Det!OnOrderRefused
<1>17. \A id, p, s, px, q : DetectorsBook!OnOrder(id, p, s, px, q) <=> Det!OnOrder(id, p, s, px, q)
  BY <1>1, <1>3, <1>9, <1>11 DEF DetectorsBook!OnOrder, Det!OnOrder
<1>18. /\ DetectorsBook!OnCancel(e.id) <=> Det!OnCancel(e.id)
       /\ DetectorsBook!OnModify(e.id, e.px, e.q) <=> Det!OnModify(e.id, e.px, e.q)
       /\ DetectorsBook!OnTrade(e.id, e.q) <=> Det!OnTrade(e.id, e.q)
  BY <1>9, <1>10, <1>12, <1>14, <1>15
     DEF DetectorsBook!OnCancel, Det!OnCancel, DetectorsBook!OnModify, Det!OnModify,
         DetectorsBook!OnTrade, Det!OnTrade
<1>19. QED
  BY <1>16, <1>17, <1>18 DEF DetectorsBook!Handle, Det!Handle

LEMMA DetRepairs == DetectorsBook!Repair => Det!Repair
<1>1. \A a, s : DetectorsBook!Best(a, s) = Det!Best(a, s)
  BY DEF DetectorsBook!Best, Det!Best, DetectorsBook!Max, Det!Max, DetectorsBook!Min, Det!Min
<1>2. DetectorsBook!Crossed <=> Det!Crossed
  BY <1>1 DEF DetectorsBook!Crossed, Det!Crossed, DetectorsBook!CrossedBook, Det!CrossedBook
<1>3. /\ DetectorsBook!StaleSide = Det!StaleSide
      /\ \A s, px : DetectorsBook!AtLevel(s, px) = Det!AtLevel(s, px)
      /\ \A f, k : DetectorsBook!Unbind(f, k) = Det!Unbind(f, k)
      /\ \A c : DetectorsBook!Count(c) = Det!Count(c)
  BY <1>1 DEF DetectorsBook!StaleSide, Det!StaleSide, DetectorsBook!AtLevel, Det!AtLevel,
              DetectorsBook!Unbind, Det!Unbind, DetectorsBook!Count, Det!Count
<1>4. \A a, o : DetectorsBook!Leave(a, o) = Det!Leave(a, o)
  BY DetFigures
<1>5. DetectorsBook!ChooseLevel => Det!ChooseLevel
  BY <1>1, <1>2, <1>3 DEF DetectorsBook!ChooseLevel, Det!ChooseLevel
<1>6. DetectorsBook!EraseOrder => Det!EraseOrder
  BY <1>3, <1>4 DEF DetectorsBook!EraseOrder, Det!EraseOrder
<1>7. DetectorsBook!RepairDone => Det!RepairDone
  BY <1>2 DEF DetectorsBook!RepairDone, Det!RepairDone
<1>8. QED
  BY <1>5, <1>6, <1>7 DEF DetectorsBook!Repair, Det!Repair

LEMMA DetStep ==
  ASSUME NEW e \in Line
  PROVE  DetectorsBook!Handle(e) => Det!Handle(e) /\ Det!BookNext
<1> SUFFICES ASSUME DetectorsBook!Handle(e) PROVE Det!Handle(e) /\ Det!BookNext
  OBVIOUS
<1>1. Det!Handle(e)
  BY DetHandles
<1>2. /\ e.id \in OrderId /\ e.who \in Participant /\ e.side \in Det!Side
      /\ e.px \in Price \cup {NoPrice} /\ e.q \in Int
  BY MarketFields DEF Det!Side
<1>3. Det!BookNext
  BY <1>1, <1>2 DEF Det!Handle, Det!BookNext
<1>4. QED
  BY <1>1, <1>3

LEMMA DetBegins == DetectorsBook!BookInit => Det!BookInit
BY DEF DetectorsBook!BookInit, Det!BookInit, DetectorsBook!Side, Det!Side,
       DetectorsBook!NoLevel, Det!NoLevel, DetectorsBook!Counter, Det!Counter

LEMMA RepFigures ==
  /\ \A a, o, ts : ReplayBook!Enter(a, o, ts) = Rep!Enter(a, o, ts)
  /\ \A a, o : ReplayBook!Leave(a, o) = Rep!Leave(a, o)
<1>1. \A a, p, s, q, n : ReplayBook!Footprint(a, p, s, q, n) = Rep!Footprint(a, p, s, q, n)
  BY DEF ReplayBook!Footprint, Rep!Footprint, ReplayBook!Max2, Rep!Max2
<1>2. \A a, s, px, q, ts : ReplayBook!AddLevel(a, s, px, q, ts) = Rep!AddLevel(a, s, px, q, ts)
  BY DEF ReplayBook!AddLevel, ReplayBook!LevelAt, ReplayBook!NoLevel, ReplayBook!Bind, ReplayBook!Max2,
         Rep!AddLevel, Rep!LevelAt, Rep!NoLevel, Rep!Bind, Rep!Max2
<1>3. \A a, s, px, q : ReplayBook!RemoveLevel(a, s, px, q) = Rep!RemoveLevel(a, s, px, q)
  BY DEF ReplayBook!RemoveLevel, ReplayBook!Bind, ReplayBook!Unbind, ReplayBook!Max2,
         Rep!RemoveLevel, Rep!Bind, Rep!Unbind, Rep!Max2
<1>4. \A a, o, ts : ReplayBook!Enter(a, o, ts) = Rep!Enter(a, o, ts)
  BY <1>1, <1>2 DEF ReplayBook!Enter, Rep!Enter
<1>5. \A a, o : ReplayBook!Leave(a, o) = Rep!Leave(a, o)
  BY <1>1, <1>3 DEF ReplayBook!Leave, Rep!Leave
<1>6. QED
  BY <1>4, <1>5

LEMMA RepHandles ==
  ASSUME NEW e
  PROVE  ReplayBook!Handle(e) => Rep!Handle(e)
<1>1. \A f, k, v : ReplayBook!Bind(f, k, v) = Rep!Bind(f, k, v)
  BY DEF ReplayBook!Bind, Rep!Bind
<1>2. \A f, k : ReplayBook!Unbind(f, k) = Rep!Unbind(f, k)
  BY DEF ReplayBook!Unbind, Rep!Unbind
<1>3. \A a, o, ts : ReplayBook!Enter(a, o, ts) = Rep!Enter(a, o, ts)
  BY RepFigures
<1>4. \A a, o : ReplayBook!Leave(a, o) = Rep!Leave(a, o)
  BY RepFigures
<1>5. \A a, s, px, q : ReplayBook!ReduceLevel(a, s, px, q) = Rep!ReduceLevel(a, s, px, q)
  BY DEF ReplayBook!ReduceLevel, ReplayBook!Bind, ReplayBook!Unbind,
         ReplayBook!Min2, Rep!ReduceLevel, Rep!Bind, Rep!Unbind, Rep!Min2
<1>6. \A a, p, s, q, n : ReplayBook!Footprint(a, p, s, q, n) = Rep!Footprint(a, p, s, q, n)
  BY DEF ReplayBook!Footprint, Rep!Footprint, ReplayBook!Max2, Rep!Max2
<1>7. \A a, s : ReplayBook!Best(a, s) = Rep!Best(a, s)
  BY DEF ReplayBook!Best, Rep!Best, ReplayBook!Max, Rep!Max, ReplayBook!Min, Rep!Min
<1>8. \A a : ReplayBook!CrossedBook(a) <=> Rep!CrossedBook(a)
  BY <1>7 DEF ReplayBook!CrossedBook, Rep!CrossedBook
<1>9. /\ ReplayBook!ThenRepair <=> Rep!ThenRepair
      /\ \A c : ReplayBook!NoteCrossed(c) = Rep!NoteCrossed(c)
      /\ \A c : ReplayBook!Count(c) = Rep!Count(c)
      /\ ReplayBook!Arrive <=> Rep!Arrive
  BY <1>8 DEF ReplayBook!ThenRepair, Rep!ThenRepair, ReplayBook!NoteCrossed,
              Rep!NoteCrossed, ReplayBook!Count, Rep!Count, ReplayBook!Arrive, Rep!Arrive
<1>10. \A c : ReplayBook!Refuse(c) <=> Rep!Refuse(c)
  BY <1>9 DEF ReplayBook!Refuse, Rep!Refuse
<1>11. \A S : ReplayBook!Cardinality(S) = Rep!Cardinality(S)
  BY DEF ReplayBook!Cardinality, Rep!Cardinality
<1>12. \A id : ReplayBook!Withdraw(id) <=> Rep!Withdraw(id)
  BY <1>2, <1>4, <1>9 DEF ReplayBook!Withdraw, Rep!Withdraw
<1>13. /\ \A x, y : ReplayBook!Max2(x, y) = Rep!Max2(x, y)
       /\ \A x, y : ReplayBook!Min2(x, y) = Rep!Min2(x, y)
  BY DEF ReplayBook!Max2, Rep!Max2, ReplayBook!Min2, Rep!Min2
<1>14. \A id, px, q : ReplayBook!Amend(id, px, q) <=> Rep!Amend(id, px, q)
  <2> TAKE id, px, q
  <2> DEFINE old == r_orders[id]
             new_px == IF px = NoPrice THEN old.price ELSE px
             new == [old EXCEPT !.price = new_px,
                                !.remaining = q,
                                !.original_qty = Rep!Max2(@, q + old.filled),
                                !.entry_ts = IF new_px # old.price THEN r_now' ELSE @]
  <2>1. ReplayBook!Amend(id, px, q) <=>
          /\ r_orders' = [r_orders EXCEPT ![id] = new]
          /\ r_agg' = ReplayBook!Enter(ReplayBook!Leave(r_agg, old), new, r_now')
          /\ r_stats' = ReplayBook!NoteCrossed(r_stats)
          /\ r_entrant' = id
          /\ ReplayBook!ThenRepair
          /\ UNCHANGED r_departed
    BY DEF ReplayBook!Amend, ReplayBook!Max2, Rep!Max2
  <2>2. Rep!Amend(id, px, q) <=>
          /\ r_orders' = [r_orders EXCEPT ![id] = new]
          /\ r_agg' = Rep!Enter(Rep!Leave(r_agg, old), new, r_now')
          /\ r_stats' = Rep!NoteCrossed(r_stats)
          /\ r_entrant' = id
          /\ Rep!ThenRepair
          /\ UNCHANGED r_departed
    BY DEF Rep!Amend
  <2> HIDE DEF new, old
  <2>3. QED
    BY <1>3, <1>4, <1>9, <2>1, <2>2
<1>15. \A id, q : ReplayBook!Fill(id, q) <=> Rep!Fill(id, q)
  BY <1>2, <1>4, <1>5, <1>6, <1>9, <1>13 DEF ReplayBook!Fill, Rep!Fill
<1>16. \A id, q, px : ReplayBook!OnOrderRefused(id, q, px) <=> Rep!OnOrderRefused(id, q, px)
  BY <1>9, <1>10, <1>11 DEF ReplayBook!OnOrderRefused, Rep!OnOrderRefused
<1>17. \A id, p, s, px, q : ReplayBook!OnOrder(id, p, s, px, q) <=> Rep!OnOrder(id, p, s, px, q)
  BY <1>1, <1>3, <1>9, <1>11 DEF ReplayBook!OnOrder, Rep!OnOrder
<1>18. /\ ReplayBook!OnCancel(e.id) <=> Rep!OnCancel(e.id)
       /\ ReplayBook!OnModify(e.id, e.px, e.q) <=> Rep!OnModify(e.id, e.px, e.q)
       /\ ReplayBook!OnTrade(e.id, e.q) <=> Rep!OnTrade(e.id, e.q)
  BY <1>9, <1>10, <1>12, <1>14, <1>15
     DEF ReplayBook!OnCancel, Rep!OnCancel, ReplayBook!OnModify, Rep!OnModify,
         ReplayBook!OnTrade, Rep!OnTrade
<1>19. QED
  BY <1>16, <1>17, <1>18 DEF ReplayBook!Handle, Rep!Handle

LEMMA RepRepairs == ReplayBook!Repair => Rep!Repair
<1>1. \A a, s : ReplayBook!Best(a, s) = Rep!Best(a, s)
  BY DEF ReplayBook!Best, Rep!Best, ReplayBook!Max, Rep!Max, ReplayBook!Min, Rep!Min
<1>2. ReplayBook!Crossed <=> Rep!Crossed
  BY <1>1 DEF ReplayBook!Crossed, Rep!Crossed, ReplayBook!CrossedBook, Rep!CrossedBook
<1>3. /\ ReplayBook!StaleSide = Rep!StaleSide
      /\ \A s, px : ReplayBook!AtLevel(s, px) = Rep!AtLevel(s, px)
      /\ \A f, k : ReplayBook!Unbind(f, k) = Rep!Unbind(f, k)
      /\ \A c : ReplayBook!Count(c) = Rep!Count(c)
  BY <1>1 DEF ReplayBook!StaleSide, Rep!StaleSide, ReplayBook!AtLevel, Rep!AtLevel,
              ReplayBook!Unbind, Rep!Unbind, ReplayBook!Count, Rep!Count
<1>4. \A a, o : ReplayBook!Leave(a, o) = Rep!Leave(a, o)
  BY RepFigures
<1>5. ReplayBook!ChooseLevel => Rep!ChooseLevel
  BY <1>1, <1>2, <1>3 DEF ReplayBook!ChooseLevel, Rep!ChooseLevel
<1>6. ReplayBook!EraseOrder => Rep!EraseOrder
  BY <1>3, <1>4 DEF ReplayBook!EraseOrder, Rep!EraseOrder
<1>7. ReplayBook!RepairDone => Rep!RepairDone
  BY <1>2 DEF ReplayBook!RepairDone, Rep!RepairDone
<1>8. QED
  BY <1>5, <1>6, <1>7 DEF ReplayBook!Repair, Rep!Repair

LEMMA RepStep ==
  ASSUME NEW e \in Line
  PROVE  ReplayBook!Handle(e) => Rep!Handle(e) /\ Rep!BookNext
<1> SUFFICES ASSUME ReplayBook!Handle(e) PROVE Rep!Handle(e) /\ Rep!BookNext
  OBVIOUS
<1>1. Rep!Handle(e)
  BY RepHandles
<1>2. /\ e.id \in OrderId /\ e.who \in Participant /\ e.side \in Rep!Side
      /\ e.px \in Price \cup {NoPrice} /\ e.q \in Int
  BY MarketFields DEF Rep!Side
<1>3. Rep!BookNext
  BY <1>1, <1>2 DEF Rep!Handle, Rep!BookNext
<1>4. QED
  BY <1>1, <1>3

LEMMA RepBegins == ReplayBook!BookInit => Rep!BookInit
BY DEF ReplayBook!BookInit, Rep!BookInit, ReplayBook!Side, Rep!Side,
       ReplayBook!NoLevel, Rep!NoLevel, ReplayBook!Counter, Rep!Counter

LEMMA SameFigures ==
  /\ \A a, o, ts : Rep!Enter(a, o, ts) = Det!Enter(a, o, ts)
  /\ \A a, o : Rep!Leave(a, o) = Det!Leave(a, o)
<1>1. \A a, p, s, q, n : Rep!Footprint(a, p, s, q, n) = Det!Footprint(a, p, s, q, n)
  BY DEF Rep!Footprint, Det!Footprint, Rep!Max2, Det!Max2
<1>2. \A a, s, px, q, ts : Rep!AddLevel(a, s, px, q, ts) = Det!AddLevel(a, s, px, q, ts)
  BY DEF Rep!AddLevel, Rep!LevelAt, Rep!NoLevel, Rep!Bind, Rep!Max2,
         Det!AddLevel, Det!LevelAt, Det!NoLevel, Det!Bind, Det!Max2
<1>3. \A a, s, px, q : Rep!RemoveLevel(a, s, px, q) = Det!RemoveLevel(a, s, px, q)
  BY DEF Rep!RemoveLevel, Rep!Bind, Rep!Unbind, Rep!Max2,
         Det!RemoveLevel, Det!Bind, Det!Unbind, Det!Max2
<1>4. \A a, o, ts : Rep!Enter(a, o, ts) = Det!Enter(a, o, ts)
  BY <1>1, <1>2 DEF Rep!Enter, Det!Enter
<1>5. \A a, o : Rep!Leave(a, o) = Det!Leave(a, o)
  BY <1>1, <1>3 DEF Rep!Leave, Det!Leave
<1>6. QED
  BY <1>4, <1>5

\* With the same cap, or with room under both, the two books read alike.
LEMMA SameReader ==
  /\ \A c, e, d :
       MaxOrders = ReplayOrders \/ (Det!HasRoom(c.orders, e) /\ Rep!HasRoom(c.orders, e))
         => (Rep!Reads(c, e, d) <=> Det!Reads(c, e, d))
  /\ \A c, d : Rep!Onward(c, d) <=> Det!Onward(c, d)
<1>1. /\ \A a, s : Rep!Best(a, s) = Det!Best(a, s)
      /\ \A S : Rep!Cardinality(S) = Det!Cardinality(S)
  BY DEF Rep!Best, Det!Best, Rep!Max, Det!Max, Rep!Min, Det!Min,
         Rep!Cardinality, Det!Cardinality
<1>2. \A a : Rep!CrossedBook(a) <=> Det!CrossedBook(a)
  BY <1>1 DEF Rep!CrossedBook, Det!CrossedBook
<1>3. \A a, o, ts : Rep!Enter(a, o, ts) = Det!Enter(a, o, ts)
  BY SameFigures
<1>4. \A a, o : Rep!Leave(a, o) = Det!Leave(a, o)
  BY SameFigures
<1>5. \A a, s, px, q : Rep!ReduceLevel(a, s, px, q) = Det!ReduceLevel(a, s, px, q)
  BY DEF Rep!ReduceLevel, Rep!Bind, Rep!Unbind, Rep!Min2,
         Det!ReduceLevel, Det!Bind, Det!Unbind, Det!Min2
<1>6. \A a, p, s, q, n : Rep!Footprint(a, p, s, q, n) = Det!Footprint(a, p, s, q, n)
  BY DEF Rep!Footprint, Det!Footprint, Rep!Max2, Det!Max2
<1>7. /\ \A f, k, v : Rep!Bind(f, k, v) = Det!Bind(f, k, v)
      /\ \A f, k : Rep!Unbind(f, k) = Det!Unbind(f, k)
      /\ \A e : Rep!Joining(e) = Det!Joining(e)
      /\ \A o, e : Rep!Filling(o, e) = Det!Filling(o, e)
      /\ \A o, e : Rep!Amended(o, e) = Det!Amended(o, e)
  BY DEF Rep!Bind, Det!Bind, Rep!Unbind, Det!Unbind, Rep!Joining, Det!Joining,
         Rep!Filling, Det!Filling, Rep!Min2, Det!Min2, Rep!Amended, Det!Amended,
         Rep!Max2, Det!Max2
<1>8. \A o, e : /\ Rep!Departs(o, e) <=> Det!Departs(o, e)
                /\ Rep!Amends(o, e) <=> Det!Amends(o, e)
                /\ Rep!Shrinks(o, e) <=> Det!Shrinks(o, e)
  BY <1>7 DEF Rep!Departs, Det!Departs, Rep!Amends, Det!Amends, Rep!Shrinks, Det!Shrinks
<1>9. ASSUME NEW o, NEW e, Rep!Joins(o, e) <=> Det!Joins(o, e)
      PROVE  Rep!AfterOrders(o, e) = Det!AfterOrders(o, e)
  <2> DEFINE shrunk == [o EXCEPT ![e.id].remaining = @ - Det!Filling(o, e),
                                 ![e.id].filled = @ + Det!Filling(o, e)]
             amended == [o EXCEPT ![e.id] = Det!Amended(o, e)]
  <2>1. Rep!AfterOrders(o, e) =
          IF Rep!Joins(o, e) THEN Rep!Bind(o, e.id, Rep!Joining(e))
          ELSE IF Rep!Departs(o, e) THEN Rep!Unbind(o, e.id)
          ELSE IF Rep!Amends(o, e) THEN amended
          ELSE IF Rep!Shrinks(o, e) THEN shrunk
          ELSE o
    BY DEF Rep!AfterOrders, Rep!Amended, Det!Amended, Rep!Max2, Det!Max2,
           Rep!Filling, Det!Filling, Rep!Min2, Det!Min2
  <2>2. Det!AfterOrders(o, e) =
          IF Det!Joins(o, e) THEN Det!Bind(o, e.id, Det!Joining(e))
          ELSE IF Det!Departs(o, e) THEN Det!Unbind(o, e.id)
          ELSE IF Det!Amends(o, e) THEN amended
          ELSE IF Det!Shrinks(o, e) THEN shrunk
          ELSE o
    BY DEF Det!AfterOrders
  <2> HIDE DEF shrunk, amended
  <2>3. QED
    BY <1>7, <1>8, <1>9, <2>1, <2>2
<1>10. ASSUME NEW o, NEW a, NEW e, Rep!Joins(o, e) <=> Det!Joins(o, e)
       PROVE  Rep!AfterAgg(o, a, e) = Det!AfterAgg(o, a, e)
  BY <1>10, <1>3, <1>4, <1>5, <1>6, <1>7, <1>8 DEF Rep!AfterAgg, Det!AfterAgg
<1>11. \A c : Rep!Starts(c) <=> Det!Starts(c)
  BY <1>2 DEF Rep!Starts, Det!Starts
<1>12. \A c : Rep!Discarded(c) = Det!Discarded(c)
  BY <1>1 DEF Rep!Discarded, Det!Discarded, Rep!StaleIn, Det!StaleIn
<1>13. /\ \A a : Rep!Formed(a) <=> Det!Formed(a)
       /\ \A f : Rep!IsMap(f) <=> Det!IsMap(f)
       /\ \A a, b : Rep!Within(a, b) <=> Det!Within(a, b)
  BY DEF Rep!Formed, Det!Formed, Rep!IsMap, Det!IsMap, Rep!Shape, Det!Shape,
         Rep!Side, Det!Side, Rep!Within, Det!Within
<1>14. \A a, m : Rep!Agree(a, m) <=> Det!Agree(a, m)
  <2>1. /\ \A s, px : Rep!LevelOrders(s, px) = Det!LevelOrders(s, px)
        /\ \A s : Rep!SideOrders(s) = Det!SideOrders(s)
        /\ \A p, s : Rep!OwnOrders(p, s) = Det!OwnOrders(p, s)
    BY DEF Rep!LevelOrders, Det!LevelOrders, Rep!SideOrders, Det!SideOrders,
           Rep!OwnOrders, Det!OwnOrders, Rep!Order, Det!Order, Rep!Side, Det!Side
  <2>2. /\ \A m, K : Rep!Number(m, K) = Det!Number(m, K)
        /\ \A m, K : Rep!Quantities(m, K) = Det!Quantities(m, K)
    <3>1. \A m, set : Rep!LotsOf(m, set) = Det!LotsOf(m, set)
      BY <1>1 DEF Rep!LotsOf, Det!LotsOf
    <3>2. \A m, K : Rep!Of(m, K) = Det!Of(m, K)
      BY DEF Rep!Of, Det!Of
    <3>3. QED
      BY <1>1, <3>1, <3>2 DEF Rep!Number, Det!Number, Rep!Quantities, Det!Quantities
  <2>3. \A a, m, s, px : Rep!LevelAgrees(a, m, s, px) <=> Det!LevelAgrees(a, m, s, px)
    BY <2>1, <2>2 DEF Rep!LevelAgrees, Det!LevelAgrees, Rep!LevelAt, Det!LevelAt,
                      Rep!NoLevel, Det!NoLevel, Rep!Level, Det!Level
  <2>4. \A a, m, s : Rep!SideAgrees(a, m, s) <=> Det!SideAgrees(a, m, s)
    <3>1. \A S : Rep!IsFiniteSet(S) <=> Det!IsFiniteSet(S)
      BY DEF Rep!IsFiniteSet, Det!IsFiniteSet
    <3>2. QED
      BY <2>1, <2>2, <3>1 DEF Rep!SideAgrees, Det!SideAgrees
  <2>5. \A a, m, p, s : Rep!OwnAgrees(a, m, p, s) <=> Det!OwnAgrees(a, m, p, s)
    BY <2>1, <2>2 DEF Rep!OwnAgrees, Det!OwnAgrees
  <2>6. QED
    BY <2>3, <2>4, <2>5 DEF Rep!Agree, Det!Agree, Rep!Shape, Det!Shape, Rep!Side, Det!Side
<1>15. ASSUME NEW c, NEW e, NEW d,
              MaxOrders = ReplayOrders \/ (Det!HasRoom(c.orders, e) /\ Rep!HasRoom(c.orders, e))
       PROVE  Rep!Reads(c, e, d) <=> Det!Reads(c, e, d)
  <2>1. Rep!Joins(c.orders, e) <=> Det!Joins(c.orders, e)
    BY <1>1, <1>15 DEF Rep!Joins, Det!Joins, Rep!HasRoom, Det!HasRoom
  <2>2. /\ Rep!AfterOrders(c.orders, e) = Det!AfterOrders(c.orders, e)
        /\ Rep!AfterAgg(c.orders, c.agg, e) = Det!AfterAgg(c.orders, c.agg, e)
    BY <1>9, <1>10, <2>1
  <2>3. QED
    BY <1>2, <2>2 DEF Rep!Reads, Det!Reads
<1>16. \A c, d : Rep!Onward(c, d) <=> Det!Onward(c, d)
  BY <1>11, <1>12, <1>13, <1>14 DEF Rep!Onward, Det!Onward
<1>17. QED
  BY <1>15, <1>16

\* Each line of the tape has its place among the sorted ones.
LEMMA SortedPicks ==
  ASSUME NEW l, Len(l) \in Nat,
         \A i \in 1 .. Len(l) : l[i].ts \in Nat /\ l[i].seq \in Nat
  PROVE  /\ DOMAIN SortedTape(l) = 1 .. Len(l) /\ Len(SortedTape(l)) = Len(l)
         /\ \A k \in 1 .. Len(l) : \E j \in 1 .. Len(l) : /\ Place(l, j) = k
                                                        /\ SortedTape(l)[k] = l[j]
<1> DEFINE D == 1 .. Len(l)
           at == [k \in D |-> CHOOSE j \in D : Place(l, j) = k]
<1>1. SortedTape(l) = [k \in D |-> l[at[k]]]
  BY DEF SortedTape
<1>2. \A k \in D : at[k] \in D /\ Place(l, at[k]) = k
  BY EveryPlaceIsTaken
<1> HIDE DEF at
<1>3. DOMAIN SortedTape(l) = D /\ Len(SortedTape(l)) = Len(l)
  BY <1>1
<1>4. \A k \in D : SortedTape(l)[k] = l[at[k]]
  BY <1>1
<1>5. QED
  BY <1>2, <1>3, <1>4

TapeLines == progress # "unloaded" => \A k \in 1 .. Len(tape) : tape[k] \in Line

LEMMA TapeLinesCorrect == ConsoleSpec => []TapeLines
<1>1. ConsoleInit => TapeLines
  BY DEF ConsoleInit, ReplayInit, TapeLines
<1>2. FeedTypeOK /\ TapeLines /\ [ConsoleNext]_consoleVars => TapeLines'
  <2> SUFFICES ASSUME FeedTypeOK, TapeLines, [ConsoleNext]_consoleVars PROVE TapeLines'
    OBVIOUS
  <2>1. CASE Load(lines)
    <3>1. lines \in Seq(Line) /\ Len(lines) \in Nat
      BY DEF FeedTypeOK, TapeOK
    <3>2. \A i \in 1 .. Len(lines) : lines[i] \in Line
      BY <3>1
    <3>3. \A i \in 1 .. Len(lines) : lines[i].ts \in Nat /\ lines[i].seq \in Nat
      BY <3>2, LineFields
    <3>4. tape' = SortedTape(lines)
      BY <2>1 DEF Load
    <3> DEFINE s == SortedTape(lines)
    <3>5. \A k \in 1 .. Len(s) : s[k] \in Line
      <4>1. /\ Len(s) = Len(lines)
            /\ \A k \in 1 .. Len(lines) : \E j \in 1 .. Len(lines) : /\ Place(lines, j) = k
                                                                   /\ s[k] = lines[j]
        BY <3>1, <3>3, SortedPicks
      <4> HIDE DEF s
      <4>2. QED
        BY <3>2, <4>1
    <3> HIDE DEF s
    <3>6. QED
      BY <3>4, <3>5 DEF TapeLines, s
  <2>2. CASE Walk
    BY <2>2 DEF Walk, Ask, PassOver, ApplyBefore, ApplyInside, RepairReplayed, Show, Answer,
                TapeLines
  <2>3. CASE UNCHANGED replayVars
    BY <2>3 DEF replayVars, TapeLines
  <2>4. QED
    BY <2>1, <2>2, <2>3, ConsoleSteps
<1>3. ConsoleSpec => FeedSpec
  BY ConsoleIsFeed, PTL DEF ConsoleSpec, FeedSpec
<1>4. QED
  BY <1>1, <1>2, <1>3, FeedTypeCorrect, PTL DEF ConsoleSpec

LEMMA DetIsBook == ConsoleSpec => Det!BookSpec
<1>1. ConsoleInit => Det!BookInit
  BY DetBegins DEF ConsoleInit
<1>2. FeedTypeOK /\ [ConsoleNext]_consoleVars => [Det!BookNext]_(Det!bookVars)
  <2> SUFFICES ASSUME FeedTypeOK, [ConsoleNext]_consoleVars
               PROVE  Det!BookNext \/ UNCHANGED Det!bookVars
    OBVIOUS
  <2>1. CASE FeedStep \/ StartApi \/ Answering \/ UNCHANGED consoleVars
    BY <2>1 DEF FeedStep, StartApi, Answering, consoleVars, detectorsBookVars, Det!bookVars
  <2>2. CASE ApplyToBook
    <3> DEFINE e == out[applied + 1].event
    <3>1. e \in Line
      BY <2>2, ApplyIsStep DEF ApplyToBook
    <3>2. UNCHANGED detectorsBookVars \/ DetectorsBook!Handle(e)
      BY <2>2 DEF ApplyToBook
    <3> HIDE DEF e
    <3>3. QED
      BY <3>1, <3>2, DetStep DEF detectorsBookVars, Det!bookVars
  <2>3. CASE RepairDetected
    BY <2>3, DetRepairs DEF RepairDetected, Det!BookNext
  <2>4. QED
    BY <2>1, <2>2, <2>3 DEF ConsoleNext
<1>3. ConsoleSpec => FeedSpec
  BY ConsoleIsFeed, PTL DEF ConsoleSpec, FeedSpec
<1>4. QED
  BY <1>1, <1>2, <1>3, FeedTypeCorrect, PTL DEF ConsoleSpec, Det!BookSpec

LEMMA RepIsBook == ConsoleSpec => Rep!BookSpec
<1>1. ConsoleInit => Rep!BookInit
  BY RepBegins DEF ConsoleInit, ReplayInit
<1>2. ReplayInv /\ TapeLines /\ [ConsoleNext]_consoleVars => [Rep!BookNext]_(Rep!bookVars)
  <2> SUFFICES ASSUME ReplayInv, TapeLines, [ConsoleNext]_consoleVars
               PROVE  Rep!BookNext \/ UNCHANGED Rep!bookVars
    OBVIOUS
  <2>1. CASE UNCHANGED replayVars \/ Load(lines)
    BY <2>1 DEF replayVars, Load, replayBookVars, Rep!bookVars
  <2>2. CASE Ask \/ PassOver \/ Show \/ Answer
    BY <2>2 DEF Ask, PassOver, Show, Answer, replayBookVars, Rep!bookVars
  <2>3. CASE ApplyBefore \/ ApplyInside
    <3> DEFINE e == tape[walked + 1]
    <3>1. progress = "walking" /\ MoreToWalk /\ ReplayBook!Handle(e)
      BY <2>3 DEF ApplyBefore, ApplyInside
    <3>2. walked + 1 \in 1 .. Len(tape)
      BY <3>1, Walking DEF ReplayInv, WalkInv, MoreToWalk
    <3>3. e \in Line
      BY <3>1, <3>2 DEF TapeLines
    <3> HIDE DEF e
    <3>4. QED
      BY <3>1, <3>3, RepStep
  <2>4. CASE RepairReplayed
    BY <2>4, RepRepairs DEF RepairReplayed, Rep!BookNext
  <2>5. QED
    BY <2>1, <2>2, <2>3, <2>4, ConsoleSteps DEF Walk
<1>3. QED
  BY <1>1, <1>2, ReplayCorrect, TapeLinesCorrect, PTL DEF ConsoleSpec, Rep!BookSpec

BooksInv ==
  /\ Det!BookInv /\ Det!AggInv /\ Det!FormInv
  /\ Rep!BookInv /\ Rep!AggInv /\ Rep!FormInv

LEMMA BooksCorrect == ConsoleSpec => []BooksInv
<1>1. Det!BookSpec => []Det!BookInv /\ []Det!AggInv /\ []Det!FormInv
  BY BookAssumptions, Det!BookInvCorrect, Det!AggCorrect, Det!FormCorrect
<1>2. Rep!BookSpec => []Rep!BookInv /\ []Rep!AggInv /\ []Rep!FormInv
  BY BookAssumptions, Rep!BookInvCorrect, Rep!AggCorrect, Rep!FormCorrect
<1>3. QED
  BY <1>1, <1>2, DetIsBook, RepIsBook, PTL DEF BooksInv

-----------------------------------------------------------------------------
(***************************************************************************)
(* Without duplicates the lines of the tape are told apart by their        *)
(* numbers, and the engine has applied all of them when it is finished, in *)
(* the order the replay sorts them into.                                   *)
(***************************************************************************)
DistinctLines ==
  \A i, j \in 1 .. Len(lines) : lines[i].eid = lines[j].eid => i = j

HeapIsFlushed == phase = "done" => heap = {}

NoDuplicates == "duplicate" \notin Rates

LEMMA DistinctKept ==
  ASSUME NoDuplicates, TapeOK, LineOrder, DistinctLines, Damage
  PROVE  DistinctLines'
<1>0. Len(lines) \in Nat /\ taken \in Nat
  <2>1. events \in Seq(ToSet(events))
    BY TapesAssumption DEF TapeOK
  <2>2. Len(events) \in Nat
    BY <2>1
  <2>3. QED
    BY <2>2 DEF TapeOK
<1>1. CASE WriteEvent
  <2>1. PICK e \in Line, copies \in {1, 2} :
           /\ Len(lines') = Len(lines) + copies
           /\ \A i \in 1 .. Len(lines) : lines'[i] = lines[i]
           /\ \A i \in Len(lines) + 1 .. Len(lines) + copies : lines'[i] = e
           /\ e.eid = taken + 1
           /\ copies = 1
    BY <1>1, WrittenLines DEF NoDuplicates
  <2>2. \A i \in 1 .. Len(lines') :
          \/ i \in 1 .. Len(lines) /\ lines'[i] = lines[i]
          \/ i = Len(lines) + 1 /\ lines'[i] = e
    BY <1>0, <2>1
  <2>3. \A i \in 1 .. Len(lines) : lines[i].eid \in 1 .. taken
    BY DEF LineOrder, NumberOrder
  <2>4. ASSUME NEW i \in 1 .. Len(lines'), NEW j \in 1 .. Len(lines'),
               lines'[i].eid = lines'[j].eid
        PROVE  i = j
    <3>1. CASE i \in 1 .. Len(lines) /\ lines'[i] = lines[i]
      <4>1. lines[i].eid # taken + 1
        BY <1>0, <2>3, <3>1
      <4>2. j \in 1 .. Len(lines) /\ lines'[j] = lines[j]
        BY <2>1, <2>2, <2>4, <3>1, <4>1
      <4>3. QED
        BY <2>4, <3>1, <4>2 DEF DistinctLines
    <3>2. CASE i = Len(lines) + 1 /\ lines'[i] = e
      <4>1. \A k \in 1 .. Len(lines) : lines[k].eid # taken + 1
        BY <1>0, <2>3
      <4>2. j = Len(lines) + 1
        BY <2>1, <2>2, <2>4, <3>2, <4>1
      <4>3. QED
        BY <3>2, <4>2
    <3>3. QED
      BY <2>2, <3>1, <3>2
  <2>5. QED
    BY <2>4 DEF DistinctLines
<1>2. CASE Transpose
  <2> DEFINE p == position
             from(k) == IF k = p THEN p + 1 ELSE IF k = p + 1 THEN p ELSE k
  <2>1. /\ Len(lines') = Len(lines) /\ p \in 1 .. Len(lines) /\ p + 1 \in 1 .. Len(lines)
        /\ lines'[p] = lines[p + 1] /\ lines'[p + 1] = lines[p]
        /\ \A i \in 1 .. Len(lines) \ {p, p + 1} : lines'[i] = lines[i]
    BY <1>2, SwappedLines
  <2> HIDE DEF p
  <2>2. \A k \in 1 .. Len(lines) : lines'[k] = lines[from(k)] /\ from(k) \in 1 .. Len(lines)
    BY <1>0, <2>1
  <2>3. \A i, j \in 1 .. Len(lines) : from(i) = from(j) => i = j
    BY <1>0, <2>1
  <2> HIDE DEF from
  <2>4. ASSUME NEW i \in 1 .. Len(lines), NEW j \in 1 .. Len(lines),
               lines'[i].eid = lines'[j].eid
        PROVE  i = j
    <3>1. /\ lines[from(i)].eid = lines[from(j)].eid
          /\ from(i) \in 1 .. Len(lines) /\ from(j) \in 1 .. Len(lines)
      BY <2>2, <2>4
    <3>2. from(i) = from(j)
      BY <3>1 DEF DistinctLines
    <3>3. QED
      BY <2>3, <3>2
  <2>5. QED
    BY <2>1, <2>4 DEF DistinctLines
<1>3. CASE DropEvent \/ StartSecondPass \/ LeaveInPlace
  BY <1>3 DEF DropEvent, StartSecondPass, LeaveInPlace, DistinctLines
<1>4. QED
  BY <1>1, <1>2, <1>3 DEF Damage, DefectsNext

LEMMA FlushedKept ==
  ASSUME FeedTypeOK, HeapIsFlushed, [FeedNext]_feedVars
  PROVE  HeapIsFlushed'
<1>1. UNCHANGED Buffer!vars \/ Buffer!Step
  BY StepsApart, PushIsStep, BufferIsStep DEF FeedNext
<1>2. QED
  BY <1>1
     DEF Buffer!Step, Buffer!PushLate, Buffer!PushHeld, Buffer!Drain, Buffer!PopReady,
         Buffer!PopOverflow, Buffer!DrainDone, Buffer!EndOfTape, Buffer!Flush,
         Buffer!PopFlush, Buffer!FlushDone, Buffer!Pop, Buffer!vars, HeapIsFlushed

LEMMA DistinctCorrect ==
  ASSUME ClocksAgree, NoDuplicates
  PROVE  FeedSpec => [](DistinctLines /\ HeapIsFlushed)
<1>1. FeedInit => DistinctLines /\ HeapIsFlushed
  <2> SUFFICES ASSUME FeedInit PROVE DistinctLines /\ HeapIsFlushed
    OBVIOUS
  <2>1. lines = <<>> /\ phase = "idle"
    BY StagesInitially DEF DefectsInit, Buffer!Init
  <2>2. QED
    BY <2>1 DEF DistinctLines, HeapIsFlushed
<1>2. /\ FeedTypeOK /\ LineOrder /\ DistinctLines /\ HeapIsFlushed /\ [FeedNext]_feedVars
      => DistinctLines' /\ HeapIsFlushed'
  <2> SUFFICES ASSUME FeedTypeOK, LineOrder, DistinctLines, HeapIsFlushed, [FeedNext]_feedVars
               PROVE  DistinctLines'
    BY FlushedKept
  <2>1. CASE Damage
    BY <2>1, DistinctKept DEF FeedTypeOK
  <2>2. CASE UNCHANGED defectVars
    BY <2>2 DEF defectVars, DistinctLines
  <2>3. QED
    BY <2>1, <2>2, StepsApart DEF FeedNext
<1>3. QED
  BY <1>1, <1>2, FeedTypeCorrect, FeedOrderCorrect, PTL DEF FeedSpec

\* What the engine has applied so far.
Read == [k \in 1 .. applied |-> out[k].event]

EngineOK == FeedTypeOK /\ LineOrder /\ BufferInv /\ JudgeInv /\ DistinctLines /\ HeapIsFlushed

LEMMA EngineCorrect == ASSUME ClocksAgree, NoDuplicates PROVE FeedSpec => []EngineOK
BY FeedTypeCorrect, FeedOrderCorrect, FeedJudgeCorrect, DistinctCorrect, PTL DEF EngineOK

\* What has been released, read through the lines it came from.
LEMMA OutStrict ==
  ASSUME EngineOK, NEW i \in 1 .. Len(out), NEW j \in 1 .. Len(out)
  PROVE  /\ out[i].line \in 1 .. Len(lines) /\ out[i].event = lines[out[i].line]
         /\ out[i].event \in Line /\ out[i].event.eid \in Nat
         /\ i < j => out[i].event.eid < out[j].event.eid
         /\ i < j => Earlier(lines, out[i].line, out[j].line)
<1>1. out \in Seq(Buffer!Node) /\ Len(out) \in Nat /\ DOMAIN out = 1 .. Len(out)
  BY DEF EngineOK, FeedTypeOK, Buffer!TypeOK
<1>2. out[i] \in Buffer!Released /\ out[j] \in Buffer!Released
  BY <1>1 DEF Buffer!Released
<1>3. /\ out[i].line \in 1 .. Len(lines) /\ out[i].event = lines[out[i].line]
      /\ out[i].event.eid \in Nat /\ out[i].event.ts \in Nat
      /\ out[i].event.seq = out[i].event.eid
      /\ out[j].line \in 1 .. Len(lines) /\ out[j].event = lines[out[j].line]
      /\ out[j].event.eid \in Nat /\ out[j].event.ts \in Nat
      /\ out[j].event.seq = out[j].event.eid
  BY <1>2, Nodes DEF EngineOK
<1>4. out[i].event \in Line
  <2>1. out[i] \in Buffer!Node
    BY <1>1
  <2>2. QED
    BY <2>1 DEF Buffer!Node
<1>5. ASSUME i < j PROVE out[i].event.eid < out[j].event.eid
  <2>1. out[i].event.eid <= out[j].event.eid
    BY <1>5 DEF EngineOK, BufferInv
  <2>2. out[i].event.eid # out[j].event.eid
    <3>1. SUFFICES ASSUME out[i].event.eid = out[j].event.eid PROVE FALSE
      OBVIOUS
    <3>2. out[i].line = out[j].line
      BY <1>3, <3>1 DEF EngineOK, DistinctLines
    <3>3. Buffer!EachLineOnce
      BY DEF EngineOK, BufferInv, Buffer!LineInv
    <3>4. out[i] = out[j]
      BY <1>2, <3>2, <3>3 DEF Buffer!EachLineOnce
    <3>5. i = j
      BY <1>1, <3>3, <3>4 DEF Buffer!EachLineOnce
    <3>6. QED
      BY <1>5, <3>5
  <2>3. QED
    BY <1>3, <2>1, <2>2
<1>6. ASSUME i < j PROVE Earlier(lines, out[i].line, out[j].line)
  <2> DEFINE a == out[i].line
             b == out[j].line
  <2>1. a \in 1 .. Len(lines) /\ b \in 1 .. Len(lines) /\ lines[a].eid < lines[b].eid
        /\ TapeOK /\ LineOrder
    BY <1>3, <1>5, <1>6 DEF EngineOK, FeedTypeOK
  <2> HIDE DEF a, b
  <2>2. /\ lines[a].eid \in Nat /\ lines[a].ts \in Nat /\ lines[a].seq = lines[a].eid
        /\ lines[a].eid <= lines[b].eid => lines[a].ts <= lines[b].ts
    BY <2>1, TimeFollowsNumber
  <2>3. lines[b].eid \in Nat /\ lines[b].ts \in Nat /\ lines[b].seq = lines[b].eid
    BY <2>1, TimeFollowsNumber
  <2>4. Earlier(lines, a, b)
    BY <2>1, <2>2, <2>3 DEF Earlier
  <2>5. QED
    BY <2>4 DEF a, b
<1>7. QED
  BY <1>3, <1>4, <1>5, <1>6

\* The guard finds nothing to drop.
LEMMA NothingRepeats ==
  ASSUME EngineOK, Apply
  PROVE  ~Guard!IsDuplicate(out[applied + 1].event)
<1>1. applied + 1 \in 1 .. Len(out) /\ applied \in Nat
  BY ApplyIsStep DEF EngineOK, FeedTypeOK
<1>2. SUFFICES ASSUME out[applied + 1].event.eid \in seen PROVE FALSE
  BY DEF Guard!IsDuplicate
<1>3. PICK k \in Admitted : admitted[k].eid = out[applied + 1].event.eid
  BY <1>2, SeenIsAdmitted DEF EngineOK, FeedTypeOK
<1>4. PICK i \in 1 .. applied : admitted[k] = out[i].event
  BY DEF EngineOK, JudgeInv
<1>5. i \in 1 .. Len(out) /\ i < applied + 1
  BY <1>1
<1>6. out[i].event.eid < out[applied + 1].event.eid /\ out[i].event.eid \in Nat
  BY <1>1, <1>5, OutStrict
<1>7. QED
  BY <1>3, <1>4, <1>6

\* When the engine is finished each line has been released, at its place.
LEMMA ReleasedAtItsPlace ==
  ASSUME EngineOK, Finished
  PROVE  /\ Len(out) = Len(lines) /\ applied = Len(lines) /\ Len(lines) \in Nat
         /\ \A k \in 1 .. Len(lines) : Place(lines, out[k].line) = k
<1> DEFINE M == Len(out)
           N == Len(lines)
           ln(k) == out[k].line
<1>1. M \in Nat /\ N \in Nat /\ applied = M /\ DOMAIN out = 1 .. M
  BY DEF EngineOK, FeedTypeOK, TapeOK, Buffer!TypeOK, Finished, AllApplied
<1>2. \A i \in 1 .. N : lines[i].ts \in Nat /\ lines[i].seq \in Nat
  <2>1. \A i \in 1 .. N : lines[i] \in Line
    BY <1>1 DEF EngineOK, FeedTypeOK, TapeOK
  <2>2. QED
    BY <2>1, LineFields
<1>3. ASSUME NEW l \in 1 .. N PROVE \E k \in 1 .. M : ln(k) = l
  <2>1. heap = {} /\ refused = {} /\ fed = N
    BY DEF EngineOK, BufferInv, HeapIsFlushed, Finished
  <2>2. PICK n \in heap \cup refused \cup Buffer!Released : n.line = l
    BY <2>1 DEF EngineOK, BufferInv, Buffer!LineInv, Buffer!EachLineOnce
  <2>3. n \in Buffer!Released
    BY <2>1
  <2>4. QED
    BY <1>1, <2>2, <2>3 DEF Buffer!Released
<1>4. ASSUME NEW k \in 1 .. M PROVE ln(k) \in 1 .. N
  BY OutStrict
<1>5. ASSUME NEW i \in 1 .. M, NEW j \in 1 .. M, i < j PROVE Earlier(lines, ln(i), ln(j))
  BY <1>5, OutStrict
<1> HIDE DEF ln, M, N
<1>6. ASSUME NEW i \in 1 .. M, NEW j \in 1 .. M, ~(i < j) PROVE ~Earlier(lines, ln(i), ln(j))
  <2>1. ln(i) \in 1 .. N /\ ln(j) \in 1 .. N
    BY <1>4
  <2> DEFINE x == ln(i)
             y == ln(j)
  <2>2. x \in 1 .. Len(lines) /\ y \in 1 .. Len(lines) /\ Len(lines) \in Nat
        /\ \A k \in 1 .. Len(lines) : lines[k].ts \in Nat /\ lines[k].seq \in Nat
    BY <1>1, <1>2, <2>1 DEF N
  <2> HIDE DEF x, y
  <2>3. ~Earlier(lines, x, x) /\ (Earlier(lines, y, x) /\ Earlier(lines, x, y) => Earlier(lines, y, y))
        /\ ~Earlier(lines, y, y)
    BY <2>2, EarlierIsAnOrder
  <2>4. CASE i = j
    BY <2>3, <2>4 DEF x, y
  <2>5. CASE j < i
    <3>1. Earlier(lines, y, x)
      BY <1>5, <2>5 DEF x, y
    <3>2. QED
      BY <2>3, <3>1 DEF x, y
  <2>6. QED
    BY <1>1, <1>6, <2>4, <2>5
<1>7. ASSUME NEW k \in 1 .. M PROVE Place(lines, ln(k)) = k
  <2> DEFINE B == {i \in 1 .. N : Earlier(lines, i, ln(k))}
             f == [j \in 1 .. k - 1 |-> ln(j)]
  <2>1. \A j \in 1 .. k - 1 : j \in 1 .. M /\ j < k
    BY <1>1
  <2>2. \A j \in 1 .. k - 1 : f[j] \in B
    BY <1>4, <1>5, <2>1
  <2>3. ASSUME NEW x \in B PROVE \E j \in 1 .. k - 1 : f[j] = x
    <3>1. PICK j \in 1 .. M : ln(j) = x
      BY <1>3
    <3>2. j < k
      BY <1>6, <3>1
    <3>3. j \in 1 .. k - 1
      BY <1>1, <3>2
    <3>4. QED
      BY <3>1, <3>3
  <2>4. ASSUME NEW i \in 1 .. k - 1, NEW j \in 1 .. k - 1, f[i] = f[j] PROVE i = j
    <3>1. i \in 1 .. M /\ j \in 1 .. M /\ ln(i) = ln(j)
      BY <2>1, <2>4
    <3>2. ~Earlier(lines, ln(i), ln(i))
      BY <1>6, <3>1
    <3>3. ~(i < j) /\ ~(j < i)
      BY <1>5, <3>1, <3>2
    <3>4. QED
      BY <1>1, <3>1, <3>3
  <2>5. f \in [1 .. k - 1 -> B]
    BY <2>2
  <2>6. DOMAIN f = 1 .. k - 1
    OBVIOUS
  <2>7. Place(lines, ln(k)) = 1 + Cardinality(B)
    BY DEF Place, N
  <2> HIDE DEF f, B
  <2>8. f \in Bijection(1 .. k - 1, B)
    <3>1. f \in Injection(1 .. k - 1, B)
      BY <2>4, <2>5 DEF Injection, IsInjective
    <3>2. f \in Surjection(1 .. k - 1, B)
      BY <2>3, <2>5 DEF Surjection
    <3>3. QED
      BY <3>1, <3>2 DEF Bijection
  <2>9. k - 1 \in Nat /\ ExistsBijection(1 .. k - 1, B)
    BY <1>1, <2>8 DEF ExistsBijection
  <2>10. Cardinality(B) = k - 1
    BY <2>9, FS_CountingElements
  <2>11. QED
    BY <1>1, <2>7, <2>10
<1>8. M = N
  <2>1. ~(M > N)
    <3>1. SUFFICES ASSUME M > N PROVE FALSE
      OBVIOUS
    <3>2. M \in 1 .. M /\ Place(lines, ln(M)) = M /\ ln(M) \in 1 .. N
      BY <1>1, <1>4, <1>7, <3>1
    <3> DEFINE x == ln(M)
    <3>3. x \in 1 .. Len(lines) /\ Len(lines) \in Nat
          /\ \A k \in 1 .. Len(lines) : lines[k].ts \in Nat /\ lines[k].seq \in Nat
      BY <1>1, <1>2, <3>2 DEF N
    <3> HIDE DEF x
    <3>4. Place(lines, x) \in 1 .. Len(lines)
      BY <3>3, PlaceIsMonotone
    <3>5. QED
      BY <1>1, <3>1, <3>2, <3>4 DEF x, N
  <2>2. ~(N > M)
    <3>1. SUFFICES ASSUME N > M PROVE FALSE
      OBVIOUS
    <3>2. N \in 1 .. Len(lines) /\ Len(lines) \in Nat
          /\ \A k \in 1 .. Len(lines) : lines[k].ts \in Nat /\ lines[k].seq \in Nat
      BY <1>1, <1>2, <3>1 DEF N
    <3>3. PICK j \in 1 .. Len(lines) : Place(lines, j) = N
      BY <3>2, EveryPlaceIsTaken
    <3>4. PICK k \in 1 .. M : ln(k) = j
      BY <1>3 DEF N
    <3>5. k = N
      BY <1>7, <3>3, <3>4
    <3>6. QED
      BY <1>1, <3>1, <3>5
  <2>3. QED
    BY <1>1, <2>1, <2>2
<1>9. QED
  BY <1>1, <1>7, <1>8 DEF M, N, ln

(***************************************************************************)
(* The engine applies the events in the order the replay walks them.       *)
(***************************************************************************)
LEMMA SortedIsRead ==
  ASSUME EngineOK, Finished
  PROVE  SortedTape(lines) = Read
<1>1. /\ Len(out) = Len(lines) /\ applied = Len(lines) /\ Len(lines) \in Nat
      /\ \A k \in 1 .. Len(lines) : Place(lines, out[k].line) = k
  BY ReleasedAtItsPlace
<1>2. \A i \in 1 .. Len(lines) : lines[i].ts \in Nat /\ lines[i].seq \in Nat
  <2>1. \A i \in 1 .. Len(lines) : lines[i] \in Line
    BY <1>1 DEF EngineOK, FeedTypeOK, TapeOK
  <2>2. QED
    BY <2>1, LineFields
<1>3. ASSUME NEW k \in 1 .. Len(lines) PROVE SortedTape(lines)[k] = out[k].event
  <2>1. PICK j \in 1 .. Len(lines) : Place(lines, j) = k /\ SortedTape(lines)[k] = lines[j]
    BY <1>1, <1>2, SortedPicks
  <2> DEFINE i == out[k].line
  <2>2. k \in 1 .. Len(out) /\ i \in 1 .. Len(lines) /\ Place(lines, i) = k
        /\ out[k].event = lines[i]
    BY <1>1, OutStrict
  <2> HIDE DEF i
  <2>3. i = j
    <3>1. SUFFICES ASSUME i # j PROVE FALSE
      OBVIOUS
    <3>2. Earlier(lines, i, j) \/ Earlier(lines, j, i)
      BY <1>1, <1>2, <2>2, <3>1, EarlierIsAnOrder
    <3>3. Place(lines, i) < Place(lines, j) \/ Place(lines, j) < Place(lines, i)
      BY <1>1, <1>2, <2>2, <3>2, PlaceIsMonotone
    <3>4. QED
      BY <2>1, <2>2, <3>3
  <2>4. QED
    BY <2>1, <2>2, <2>3
<1>4. QED
  <2>1. SortedTape(lines) = [k \in 1 .. Len(lines) |-> SortedTape(lines)[k]]
    BY DEF SortedTape
  <2>2. [k \in 1 .. Len(lines) |-> SortedTape(lines)[k]] = [k \in 1 .. Len(lines) |-> out[k].event]
    BY <1>3
  <2>3. QED
    BY <1>1, <2>1, <2>2 DEF Read

LEMMA ReadIs ==
  ASSUME EngineOK
  PROVE  /\ applied \in Nat /\ Len(Read) = applied
         /\ \A k \in 1 .. applied : Read[k] = out[k].event /\ Read[k] \in Line
         /\ \A i, j \in 1 .. applied : Read[i].eid = Read[j].eid => i = j
<1>1. applied \in 0 .. Len(out) /\ Len(out) \in Nat
  BY DEF EngineOK, FeedTypeOK, Buffer!TypeOK
<1>2. applied \in Nat /\ Len(Read) = applied /\ \A k \in 1 .. applied : Read[k] = out[k].event
  BY <1>1 DEF Read
<1>3. \A k \in 1 .. applied : k \in 1 .. Len(out)
  BY <1>1
<1>4. \A k \in 1 .. applied : Read[k] \in Line
  BY <1>2, <1>3, OutStrict
<1>5. ASSUME NEW i \in 1 .. applied, NEW j \in 1 .. applied, Read[i].eid = Read[j].eid
      PROVE  i = j
  <2>1. out[i].event.eid = out[j].event.eid /\ i \in 1 .. Len(out) /\ j \in 1 .. Len(out)
    BY <1>2, <1>3, <1>5
  <2>2. /\ out[i].event.eid \in Nat /\ out[j].event.eid \in Nat
        /\ i < j => out[i].event.eid < out[j].event.eid
        /\ j < i => out[j].event.eid < out[i].event.eid
    BY <2>1, OutStrict
  <2>3. QED
    BY <1>1, <2>1, <2>2
<1>6. QED
  BY <1>2, <1>4, <1>5

LEMMA ReadStays ==
  ASSUME EngineOK, Damage \/ Push \/ Drain \/ EndOfTape \/ Flush \/ UNCHANGED feedVars
  PROVE  Read' = Read /\ applied' = applied /\ (Finished => Finished')
<1>1. applied' = applied /\ \A i \in 1 .. applied : out'[i] = out[i]
  BY StepsApart, ReleasesStay DEF EngineOK
<1>2. Read' = Read
  <2>1. Read' = [k \in 1 .. applied |-> out'[k].event]
    BY <1>1 DEF Read
  <2>2. [k \in 1 .. applied |-> out'[k].event] = [k \in 1 .. applied |-> out[k].event]
    BY <1>1
  <2>3. QED
    BY <2>1, <2>2 DEF Read
<1>3. ASSUME Finished PROVE Finished'
  <2>1. UNCHANGED Buffer!vars \/ Buffer!Drain \/ Buffer!EndOfTape \/ Buffer!Flush
        \/ Buffer!PushLate(lines[fed + 1]) \/ Buffer!PushHeld(lines[fed + 1])
    BY StepsApart, PushIsStep, BufferIsStep DEF EngineOK
  <2>2. UNCHANGED Buffer!vars
    BY <1>3, <2>1
       DEF Finished, Buffer!PushLate, Buffer!PushHeld, Buffer!Drain, Buffer!PopReady,
           Buffer!PopOverflow, Buffer!DrainDone, Buffer!EndOfTape, Buffer!Flush,
           Buffer!PopFlush, Buffer!FlushDone
  <2>3. QED
    BY <1>1, <1>3, <2>2 DEF Finished, AllApplied, Buffer!vars
<1>4. QED
  BY <1>1, <1>2, <1>3

LEMMA ReadGrows ==
  ASSUME EngineOK, Apply
  PROVE  /\ applied' = applied + 1 /\ Len(Read') = applied + 1
         /\ \A k \in 1 .. applied : Read'[k] = Read[k]
         /\ Read'[applied + 1] = out[applied + 1].event
<1>1. out' = out /\ applied' = applied + 1
  BY ApplyIsStep, StepsApart DEF EngineOK, Buffer!vars
<1>2. Read' = [k \in 1 .. applied + 1 |-> out[k].event] /\ applied \in Nat
  BY <1>1, ReadIs DEF Read
<1>3. \A k \in 1 .. applied : Read[k] = out[k].event
  BY ReadIs
<1>4. QED
  BY <1>1, <1>2, <1>3

-----------------------------------------------------------------------------
(***************************************************************************)
(* Where the caps of the two books make no difference: they are the same,  *)
(* or neither book has turned an order away for its cap.                   *)
(***************************************************************************)
CapsAlike == MaxOrders = ReplayOrders \/ (Det!Dropped = 0 /\ Rep!Dropped = 0)

LEMMA CapsWereAlike ==
  ASSUME BooksInv, BooksInv', [ConsoleNext]_consoleVars, CapsAlike'
  PROVE  CapsAlike
<1>0. /\ Det!Dropped \in Nat /\ Rep!Dropped \in Nat
  BY BookAssumptions, Det!DroppedIsNat, Rep!DroppedIsNat DEF BooksInv
<1>1. Det!Dropped <= Det!Dropped'
  <2>1. CASE UNCHANGED detectorsBookVars
    BY <1>0, <2>1 DEF detectorsBookVars, Det!Dropped
  <2>2. ASSUME NEW e, DetectorsBook!Handle(e) PROVE Det!Dropped <= Det!Dropped'
    BY <2>2, DetHandles, BookAssumptions, Det!DropsAreCounted DEF BooksInv
  <2>3. CASE DetectorsBook!Repair
    <3>1. Det!Dropped' = Det!Dropped
      BY <2>3, DetRepairs, BookAssumptions, Det!RepairDropsNothing DEF BooksInv
    <3>2. QED
      BY <1>0, <3>1
  <2>4. QED
    BY <2>1, <2>2, <2>3
       DEF ConsoleNext, FeedStep, ApplyToBook, RepairDetected, StartApi, Answering, consoleVars
<1>2. Rep!Dropped <= Rep!Dropped'
  <2>1. CASE UNCHANGED replayBookVars
    BY <1>0, <2>1 DEF replayBookVars, Rep!Dropped
  <2>2. ASSUME NEW e, ReplayBook!Handle(e) PROVE Rep!Dropped <= Rep!Dropped'
    BY <2>2, RepHandles, BookAssumptions, Rep!DropsAreCounted DEF BooksInv
  <2>3. CASE ReplayBook!Repair
    <3>1. Rep!Dropped' = Rep!Dropped
      BY <2>3, RepRepairs, BookAssumptions, Rep!RepairDropsNothing DEF BooksInv
    <3>2. QED
      BY <1>0, <3>1
  <2>4. Walk => UNCHANGED replayBookVars \/ ReplayBook!Repair
                \/ \E e : ReplayBook!Handle(e)
    BY DEF Walk, Ask, PassOver, ApplyBefore, ApplyInside, RepairReplayed, Show, Answer
  <2>5. UNCHANGED replayVars \/ Load(lines) => UNCHANGED replayBookVars
    BY DEF replayVars, Load
  <2>6. QED
    BY <2>1, <2>2, <2>3, <2>4, <2>5, ConsoleSteps
<1>3. QED
  BY <1>0, <1>1, <1>2 DEF CapsAlike

(***************************************************************************)
(* A run over a tape: the snapshots a book goes through, one more for each *)
(* event and for each round of a repair.  The engine writes it and the     *)
(* replay goes through it again.                                           *)
(***************************************************************************)
Moves(c, d, t) ==
  \/ /\ c.stage = "idle" /\ d.at = c.at + 1 /\ d.at \in 1 .. Len(t)
     /\ t[d.at].sym = Watched /\ Det!Reads(c, t[d.at], d)
     /\ MaxOrders = ReplayOrders \/ Det!HasRoom(c.orders, t[d.at])
  \/ /\ c.stage = "idle" /\ d.at = c.at + 1 /\ d.at \in 1 .. Len(t)
     /\ t[d.at].sym # Watched
     /\ d.orders = c.orders /\ d.agg = c.agg /\ d.stage = c.stage /\ d.round = c.round
  \/ c.stage = "repair" /\ d.at = c.at /\ Det!Onward(c, d)

RunOK(run, n, t) ==
  /\ run[0].at = 0
  /\ \A i \in 0 .. n : run[i].at \in 0 .. Len(t)
  /\ \A i \in 0 .. n : i + 1 \in 0 .. n => Moves(run[i], run[i + 1], t)
  /\ \A i, j \in 0 .. n : i < j =>
       run[i].at <= run[j].at /\ (run[i].stage = "idle" => run[i].at < run[j].at)

Reaches(run, n, more, k) == k \in Nat /\ n <= k /\ \A i \in 0 .. n : more[i] = run[i]

LEMMA RunGrows ==
  ASSUME NEW n \in Nat, NEW run, NEW t, Len(t) \in Nat, RunOK(run, n, t),
         NEW u, Len(u) \in Nat, Len(t) <= Len(u), \A k \in 1 .. Len(t) : u[k] = t[k],
         NEW d, Moves(run[n], d, u)
  PROVE  \E more : /\ Reaches(run, n, more, n + 1) /\ more[n + 1] = d
                   /\ RunOK(more, n + 1, u)
<1> DEFINE more == [i \in 0 .. n + 1 |-> IF i = n + 1 THEN d ELSE run[i]]
<1>1. more[n + 1] = d /\ \A i \in 0 .. n : more[i] = run[i]
  OBVIOUS
<1> HIDE DEF more
<1>2. \A i \in 0 .. n + 1 : i \in 0 .. n \/ i = n + 1
  OBVIOUS
<1>3. /\ \A i \in 0 .. n : run[i].at \in 0 .. Len(u)
      /\ \A i \in 0 .. n : i + 1 \in 0 .. n => Moves(run[i], run[i + 1], u)
  <2>1. \A i \in 0 .. n : run[i].at \in 0 .. Len(t)
    BY DEF RunOK
  <2>2. ASSUME NEW i \in 0 .. n, i + 1 \in 0 .. n PROVE Moves(run[i], run[i + 1], u)
    <3>1. Moves(run[i], run[i + 1], t)
      BY <2>2 DEF RunOK
    <3>2. /\ run[i + 1].at \in 1 .. Len(t) => u[run[i + 1].at] = t[run[i + 1].at]
          /\ run[i + 1].at \in 1 .. Len(t) => run[i + 1].at \in 1 .. Len(u)
      OBVIOUS
    <3>3. QED
      BY <3>1, <3>2 DEF Moves
  <2>3. QED
    BY <2>1, <2>2
<1>4. /\ d.at \in 0 .. Len(u) /\ run[n].at <= d.at
      /\ run[n].stage = "idle" => run[n].at < d.at
  <2>1. run[n].at \in 0 .. Len(u) /\ n \in 0 .. n
    BY <1>3
  <2>2. \/ d.at = run[n].at + 1 /\ d.at \in 1 .. Len(u)
        \/ d.at = run[n].at /\ run[n].stage = "repair"
    BY DEF Moves
  <2>3. QED
    BY <2>1, <2>2
<1>5. \A i \in 0 .. n + 1 : more[i].at \in 0 .. Len(u)
  BY <1>1, <1>2, <1>3, <1>4
<1>6. ASSUME NEW i \in 0 .. n + 1, i + 1 \in 0 .. n + 1
      PROVE  Moves(more[i], more[i + 1], u)
  <2>1. CASE i = n
    BY <1>1, <2>1
  <2>2. CASE i # n
    <3>1. i \in 0 .. n /\ i + 1 \in 0 .. n
      BY <1>6, <2>2
    <3>2. QED
      BY <1>1, <1>3, <3>1
  <2>3. QED
    BY <2>1, <2>2
<1>7. ASSUME NEW i \in 0 .. n + 1, NEW j \in 0 .. n + 1, i < j
      PROVE  more[i].at <= more[j].at /\ (more[i].stage = "idle" => more[i].at < more[j].at)
  <2>1. i \in 0 .. n /\ more[i] = run[i] /\ n \in 0 .. n
        /\ run[i].at \in 0 .. Len(u) /\ run[n].at \in 0 .. Len(u)
    BY <1>1, <1>3, <1>7
  <2>2. CASE j = n + 1
    <3>1. i = n \/ i < n
      BY <2>1
    <3>2. i < n => run[i].at <= run[n].at /\ (run[i].stage = "idle" => run[i].at < run[n].at)
      BY <2>1 DEF RunOK
    <3>3. more[j] = d
      BY <1>1, <2>2
    <3>4. QED
      BY <1>4, <2>1, <3>1, <3>2, <3>3
  <2>3. CASE j \in 0 .. n
    <3>1. run[i].at <= run[j].at /\ (run[i].stage = "idle" => run[i].at < run[j].at)
      BY <1>7, <2>1, <2>3 DEF RunOK
    <3>2. QED
      BY <1>1, <2>1, <2>3, <3>1
  <2>4. QED
    BY <1>2, <2>2, <2>3
<1>8. RunOK(more, n + 1, u)
  <2>1. more[0].at = 0
    BY <1>1 DEF RunOK
  <2>2. QED
    BY <1>5, <1>6, <1>7, <2>1 DEF RunOK
<1>9. Reaches(run, n, more, n + 1)
  BY <1>1 DEF Reaches
<1>10. QED
  BY <1>1, <1>8, <1>9

-----------------------------------------------------------------------------
(***************************************************************************)
(* The engine's book stands at the end of the run, and what it held after  *)
(* an event is in the run.                                                 *)
(***************************************************************************)
Held(x, run, i) ==
  /\ run[i].stage = "idle" /\ run[i].at \in 1 .. applied
  /\ Read[run[i].at].sym = Watched /\ Read[run[i].at].eid = x
  /\ d_books[x] = run[i].orders

EngineRun(run, n) ==
  /\ run[n].at = applied
  /\ Det!Follows(run[n])
  /\ run[n].stage # "idle" => /\ applied > 0 /\ Read[applied].sym = Watched
                              /\ d_last = Read[applied].eid
  /\ \A x \in DOMAIN d_books : \E i \in 0 .. n : Held(x, run, i)

\* The run grows by one snapshot: the engine's part.
LEMMA EngineRunGrows ==
  ASSUME NEW n \in Nat, NEW run, EngineRun(run, n), applied \in Nat, applied' \in Nat,
         applied <= applied', \A k \in 1 .. applied : Read'[k] = Read[k],
         NEW more, Reaches(run, n, more, n + 1),
         more[n + 1].at = applied', Det!Stands(more[n + 1])',
         d_stage' # "idle" => /\ applied' > 0 /\ Read'[applied'].sym = Watched
                              /\ d_last' = Read'[applied'].eid,
         \/ d_books' = d_books
         \/ /\ Remembered
            /\ applied' > 0 /\ Read'[applied'].sym = Watched /\ d_last' = Read'[applied'].eid
  PROVE  EngineRun(more, n + 1)'
<1>1. /\ Det!Follows(more[n + 1])'
      /\ more[n + 1].stage = d_stage' /\ more[n + 1].orders = d_orders'
      /\ \A i \in 0 .. n : more[i] = run[i] /\ i \in 0 .. n + 1
      /\ n + 1 \in 0 .. n + 1
  BY DEF Det!Follows, Det!Stands, Reaches
<1>2. ASSUME NEW x \in DOMAIN d_books, d_books'[x] = d_books[x]
      PROVE  \E i \in 0 .. n + 1 : Held(x, more, i)'
  <2>1. PICK i \in 0 .. n : Held(x, run, i)
    BY DEF EngineRun
  <2>2. run[i].at \in 1 .. applied' /\ Read'[run[i].at] = Read[run[i].at]
    BY <2>1 DEF Held
  <2>3. Held(x, more, i)'
    BY <1>1, <1>2, <2>1, <2>2 DEF Held
  <2>4. QED
    BY <1>1, <2>3
<1>3. ASSUME NEW x \in DOMAIN d_books' PROVE \E i \in 0 .. n + 1 : Held(x, more, i)'
  <2>1. CASE d_books' = d_books
    BY <1>2, <1>3, <2>1
  <2>2. CASE /\ d_books' = DetectorsBook!Bind(d_books, d_last', d_orders')
             /\ d_stage' = "idle"
             /\ applied' > 0 /\ Read'[applied'].sym = Watched /\ d_last' = Read'[applied'].eid
    <3> DEFINE b == d_books'
               l == d_last'
               o == d_orders'
    <3>1. b = DetectorsBook!Bind(d_books, l, o)
      BY <2>2
    <3> HIDE DEF b, l, o
    <3>2. /\ DOMAIN b = DOMAIN d_books \cup {l} /\ b[l] = o
          /\ \A y \in DOMAIN d_books \ {l} : b[y] = d_books[y]
      <4> DEFINE c == DetectorsBook!Bind(d_books, l, o)
      <4>1. /\ DOMAIN c = DOMAIN d_books \cup {l} /\ c[l] = o
            /\ \A y \in DOMAIN d_books \ {l} : c[y] = d_books[y]
        BY DEF DetectorsBook!Bind
      <4> HIDE DEF c
      <4>2. b = c
        BY <3>1 DEF c
      <4>3. QED
        BY <4>1, <4>2
    <3>3. CASE x = l
      <4>1. d_books'[x] = d_orders'
        BY <3>2, <3>3 DEF b, o
      <4>2. more[n + 1].at \in 1 .. applied' /\ Read'[more[n + 1].at].eid = x
        BY <2>2, <3>3 DEF l
      <4>3. Held(x, more, n + 1)'
        BY <1>1, <2>2, <4>1, <4>2 DEF Held
      <4>4. QED
        BY <1>1, <4>3
    <3>4. CASE x \in DOMAIN d_books \ {l}
      BY <1>2, <3>2, <3>4 DEF b
    <3>5. QED
      BY <1>3, <3>2, <3>3, <3>4 DEF b
  <2>3. QED
    BY <2>1, <2>2 DEF Remembered
<1>4. QED
  BY <1>1, <1>3 DEF EngineRun

LEMMA EngineRunStays ==
  ASSUME NEW n, NEW run, EngineRun(run, n), applied' = applied, Read' = Read,
         d_books' = d_books, d_last' = d_last, Det!Follows(run[n])'
  PROVE  EngineRun(run, n)'
<1>1. ASSUME NEW x \in DOMAIN d_books PROVE \E i \in 0 .. n : Held(x, run, i)'
  <2>1. PICK i \in 0 .. n : Held(x, run, i)
    BY DEF EngineRun
  <2>2. Held(x, run, i)'
    BY <2>1 DEF Held
  <2>3. QED
    BY <2>2
<1>2. QED
  BY <1>1 DEF EngineRun

\* An event is applied: the run has one more snapshot.
LEMMA ApplyAdvances ==
  ASSUME EngineOK, BooksInv, BooksInv', CapsAlike', ApplyToBook,
         NEW n \in Nat, NEW run, RunOK(run, n, Read), EngineRun(run, n)
  PROVE  \E k, more : /\ Reaches(run, n, more, k) /\ RunOK(more, k, Read')
                      /\ EngineRun(more, k)'
<1>1. PICK e : e = out[applied + 1].event
  OBVIOUS
<1>2. /\ applied \in Nat /\ Len(Read) = applied
      /\ applied' = applied + 1 /\ Len(Read') = applied + 1
      /\ \A k \in 1 .. applied : Read'[k] = Read[k]
      /\ Read'[applied + 1] = e /\ e \in Line
  BY <1>1, ReadIs, ReadGrows, ApplyIsStep DEF ApplyToBook, EngineOK
<1>3. /\ d_stage = "idle" /\ ~Guard!IsDuplicate(e)
      /\ \/ e.sym # Watched /\ UNCHANGED detectorsBookVars
         \/ /\ e.sym = Watched
            /\ DetectorsBook!Handle(e) /\ d_now' = e.ts
            /\ d_last' = e.eid /\ Remembered
  BY <1>1, NothingRepeats DEF ApplyToBook
<1>4. run[n].at = applied /\ Det!Follows(run[n])
  BY DEF EngineRun
<1>5. PICK t : t = Read
  OBVIOUS
<1>6. PICK u : u = Read'
  OBVIOUS
<1>7. /\ Len(t) \in Nat /\ Len(u) \in Nat /\ Len(t) <= Len(u)
      /\ \A k \in 1 .. Len(t) : u[k] = t[k]
      /\ RunOK(run, n, t) /\ u[applied + 1] = e /\ Len(u) = applied + 1
  BY <1>2, <1>5, <1>6
<1>8. ASSUME NEW d, Moves(run[n], d, u), d.at = applied + 1, Det!Stands(d)',
             d_stage' # "idle" => e.sym = Watched /\ d_last' = e.eid,
             d_books' = d_books \/ (Remembered /\ e.sym = Watched /\ d_last' = e.eid)
      PROVE  \E k, more : /\ Reaches(run, n, more, k) /\ RunOK(more, k, Read')
                          /\ EngineRun(more, k)'
  <2>1. PICK more : /\ Reaches(run, n, more, n + 1) /\ more[n + 1] = d
                    /\ RunOK(more, n + 1, u)
    BY <1>7, <1>8, RunGrows
  <2>2. /\ applied' \in Nat /\ applied <= applied' /\ applied' > 0 /\ Read'[applied'] = e
        /\ more[n + 1].at = applied' /\ Det!Stands(more[n + 1])'
    BY <1>2, <1>8, <2>1
  <2>3. EngineRun(more, n + 1)'
    BY <1>2, <1>8, <2>1, <2>2, EngineRunGrows
  <2>4. RunOK(more, n + 1, Read') /\ n + 1 \in Nat
    BY <1>6, <2>1
  <2>5. QED
    BY <2>1, <2>3, <2>4
<1>9. CASE e.sym # Watched /\ UNCHANGED detectorsBookVars
  <2>1. PICK d : d = [orders |-> run[n].orders, agg |-> run[n].agg, stage |-> run[n].stage,
                      round |-> run[n].round, at |-> applied + 1]
    OBVIOUS
  <2>2. Det!Stands(run[n]) /\ run[n].stage = "idle"
    BY <1>3, <1>4 DEF Det!Follows, Det!Stands, Det!Erasing
  <2>3. /\ d.orders = run[n].orders /\ d.agg = run[n].agg /\ d.stage = run[n].stage
        /\ d.round = run[n].round /\ d.at = applied + 1
    BY <2>1
  <2>4. Det!Stands(d)'
    BY <1>9, <2>2, <2>3 DEF Det!Stands, detectorsBookVars
  <2>5. Moves(run[n], d, u)
    <3>1. d.at = run[n].at + 1 /\ d.at \in 1 .. Len(u) /\ u[d.at].sym # Watched
      BY <1>2, <1>4, <1>7, <1>9, <2>3
    <3>2. QED
      BY <2>2, <2>3, <3>1 DEF Moves
  <2>6. d_stage' = "idle" /\ d_books' = d_books
    BY <1>3, <1>9 DEF detectorsBookVars
  <2>7. QED
    BY <1>8, <2>3, <2>4, <2>5, <2>6
<1>10. CASE /\ e.sym = Watched
            /\ DetectorsBook!Handle(e) /\ d_now' = e.ts
            /\ d_last' = e.eid /\ Remembered
  <2>1. PICK d : d = [orders |-> d_orders', agg |-> d_agg', stage |-> d_stage',
                      round |-> d_round', at |-> applied + 1]
    OBVIOUS
  <2>2. /\ d.orders = d_orders' /\ d.agg = d_agg' /\ d.stage = d_stage'
        /\ d.round = d_round' /\ d.at = applied + 1
    BY <2>1
  <2>3. e.q \in Int /\ Det!Handle(e) /\ d_now' = e.ts /\ Det!BookInv
    BY <1>2, <1>10, MarketFields, DetHandles DEF BooksInv
  <2>4. PICK c : c = run[n]
    OBVIOUS
  <2>5. /\ c.stage = "idle" /\ d_stage' \in {"idle", "repair"}
        /\ \A x : Det!Reads(c, e, x) <=> Det!Stands(x)'
    BY <1>4, <2>3, <2>4, BookAssumptions, Det!HandleFollows
  <2>6. Det!Stands(d)'
    BY <2>2, <2>5 DEF Det!Stands
  <2>7. Det!Reads(run[n], e, d) /\ run[n].stage = "idle"
    BY <2>4, <2>5, <2>6
  <2>8. Moves(run[n], d, u)
    <3>1. d.at = run[n].at + 1 /\ d.at \in 1 .. Len(u) /\ u[d.at] = e
      BY <1>2, <1>4, <1>7, <2>2
    <3>2. MaxOrders = ReplayOrders \/ Det!HasRoom(run[n].orders, e)
      <4>1. SUFFICES ASSUME Det!Dropped' = 0 PROVE Det!HasRoom(run[n].orders, e)
        BY DEF CapsAlike
      <4>2. Det!Dropped \in Nat /\ Det!Dropped <= Det!Dropped'
            /\ (Det!Dropped' = Det!Dropped => Det!HasRoom(d_orders, e))
        BY <2>3, BookAssumptions, Det!DroppedIsNat, Det!DropsAreCounted DEF BooksInv
      <4>3. run[n].orders = d_orders
        BY <1>3, <1>4 DEF Det!Follows, Det!Stands, Det!Erasing
      <4>4. QED
        BY <4>1, <4>2, <4>3
    <3>3. QED
      BY <1>10, <2>7, <3>1, <3>2 DEF Moves
  <2>9. QED
    BY <1>8, <1>10, <2>2, <2>6, <2>8
<1>11. QED
  BY <1>3, <1>9, <1>10

\* A step of the engine's repair: inside a round the run stays as it is.
LEMMA RepairAdvances ==
  ASSUME EngineOK, BooksInv, BooksInv', RepairDetected,
         NEW n \in Nat, NEW run, RunOK(run, n, Read), EngineRun(run, n)
  PROVE  \E k, more : /\ Reaches(run, n, more, k) /\ RunOK(more, k, Read')
                      /\ EngineRun(more, k)'
<1>1. /\ Det!Repair /\ d_last' = d_last /\ Remembered
      /\ UNCHANGED feedVars
  BY DetRepairs DEF RepairDetected
<1>2. Read' = Read /\ applied' = applied /\ applied \in Nat /\ Len(Read) = applied
  BY <1>1, ReadStays, ReadIs
<1>3. run[n].at = applied /\ Det!Follows(run[n])
  BY DEF EngineRun
<1>4. PICK c : c = run[n]
  OBVIOUS
<1>5. /\ c.stage = "repair"
      /\ \/ Det!Erasing(c)'
         \/ d_stage' \in {"idle", "repair"} /\ \A d : Det!Onward(c, d) <=> Det!Stands(d)'
  BY <1>1, <1>3, <1>4, BookAssumptions, Det!RepairFollows DEF BooksInv
<1>6. applied > 0 /\ Read[applied].sym = Watched /\ d_last = Read[applied].eid
  BY <1>4, <1>5 DEF EngineRun
<1>7. CASE Det!Erasing(c)'
  <2>1. d_books' = d_books /\ Det!Follows(run[n])'
    BY <1>1, <1>4, <1>7 DEF Det!Erasing, Det!Follows, Remembered
  <2>2. EngineRun(run, n)'
    BY <1>1, <1>2, <2>1, EngineRunStays
  <2>3. Reaches(run, n, run, n) /\ RunOK(run, n, Read')
    BY <1>2 DEF Reaches
  <2>4. QED
    BY <2>2, <2>3
<1>8. CASE d_stage' \in {"idle", "repair"} /\ \A d : Det!Onward(c, d) <=> Det!Stands(d)'
  <2>1. PICK d : d = [orders |-> d_orders', agg |-> d_agg', stage |-> d_stage',
                      round |-> d_round', at |-> applied]
    OBVIOUS
  <2>2. /\ d.orders = d_orders' /\ d.agg = d_agg' /\ d.stage = d_stage'
        /\ d.round = d_round' /\ d.at = applied
    BY <2>1
  <2>3. Det!Stands(d)'
    BY <1>8, <2>2 DEF Det!Stands
  <2>4. Det!Onward(c, d)
    BY <1>8, <2>3
  <2>5. PICK t : t = Read
    OBVIOUS
  <2>6. Moves(run[n], d, t)
    BY <1>3, <1>4, <1>5, <2>2, <2>4 DEF Moves
  <2>7. Len(t) \in Nat /\ RunOK(run, n, t)
    BY <1>2, <2>5
  <2>8. PICK more : /\ Reaches(run, n, more, n + 1) /\ more[n + 1] = d
                    /\ RunOK(more, n + 1, t)
    BY <2>6, <2>7, RunGrows
  <2>9. /\ more[n + 1].at = applied' /\ Det!Stands(more[n + 1])'
        /\ applied' > 0 /\ Read'[applied'].sym = Watched /\ d_last' = Read'[applied'].eid
        /\ applied' \in Nat /\ applied <= applied'
        /\ \A k \in 1 .. applied : Read'[k] = Read[k]
    BY <1>1, <1>2, <1>6, <2>2, <2>3, <2>8
  <2>10. EngineRun(more, n + 1)'
    BY <1>1, <1>2, <2>8, <2>9, EngineRunGrows
  <2>11. RunOK(more, n + 1, Read') /\ n + 1 \in Nat
    BY <1>2, <2>5, <2>8
  <2>12. QED
    BY <2>8, <2>10, <2>11
<1>9. QED
  BY <1>5, <1>7, <1>8

-----------------------------------------------------------------------------
(***************************************************************************)
(* The replay's book stands somewhere on the run, behind the event the     *)
(* walk has come to, and a frame shows the run's orders after its event.   *)
(***************************************************************************)
Pictured(f, run, n) ==
  \E w \in 1 .. Len(tape) :
    /\ f.eid = tape[w].eid /\ tape[w].sym = request.symbol
    /\ request.symbol = Watched =>
         \E j \in 0 .. n : /\ run[j].stage = "idle" /\ run[j].at = w
                           /\ f.orders = run[j].orders

WalksOn(run, n) ==
  request.symbol = Watched => \E m \in 0 .. n : run[m].at = walked /\ Rep!Follows(run[m])

ReplayRun(run, n) ==
  /\ WalksOn(run, n)
  /\ progress # "unloaded" => Finished /\ d_stage = "idle" /\ tape = Read
  /\ due => walked \in 1 .. Len(tape) /\ tape[walked].sym = request.symbol
  /\ \A f \in 1 .. Len(frames) : Pictured(frames[f], run, n)

\* While the engine is at work the replay is not loaded: a longer run will do.
LEMMA UnloadedReplay ==
  ASSUME ReplayInv, progress = "unloaded", UNCHANGED replayVars,
         NEW n \in Nat, NEW run, ReplayRun(run, n), NEW k \in Nat, NEW more,
         Reaches(run, n, more, k)
  PROVE  ReplayRun(more, k)'
<1>1. /\ frames = <<>> /\ ~due /\ progress' = "unloaded" /\ frames' = <<>> /\ ~due'
      /\ walked' = walked /\ request' = request /\ UNCHANGED Rep!bookVars
  BY DEF ReplayInv, WalkInv, replayVars, replayBookVars, Rep!bookVars
<1>2. WalksOn(more, k)'
  <2>1. SUFFICES ASSUME request.symbol = Watched
                 PROVE  \E m \in 0 .. k : more[m].at = walked' /\ Rep!Follows(more[m])'
    BY <1>1 DEF WalksOn
  <2>2. PICK m \in 0 .. n : run[m].at = walked /\ Rep!Follows(run[m])
    BY <2>1 DEF ReplayRun, WalksOn
  <2>3. PICK c : c = run[m]
    OBVIOUS
  <2>4. Rep!Follows(c)'
    BY <1>1, <2>2, <2>3, BookAssumptions, Rep!StillFollows
  <2>5. m \in 0 .. k /\ more[m] = c
    BY <2>3 DEF Reaches
  <2>6. QED
    BY <1>1, <2>2, <2>3, <2>4, <2>5
<1>3. QED
  BY <1>1, <1>2 DEF ReplayRun

\* The engine stands still once the replay is loaded.
LEMMA StandingEngine ==
  ASSUME EngineOK, NEW n, NEW run, EngineRun(run, n), d_stage = "idle"
  PROVE  run[n].stage = "idle" /\ run[n].at = applied
BY DEF EngineRun, Det!Follows, Det!Stands, Det!Erasing

\* The API is started.
LEMMA LoadAdvances ==
  ASSUME EngineOK, ReplayInv, StartApi,
         NEW n \in Nat, NEW run, ReplayRun(run, n)
  PROVE  ReplayRun(run, n)'
<1>1. /\ Finished /\ d_stage = "idle" /\ tape' = SortedTape(lines) /\ progress = "unloaded"
      /\ UNCHANGED <<request, walked, due, frames, replayBookVars>>
      /\ UNCHANGED feedVars /\ d_stage' = d_stage
  BY DEF StartApi, RunOver, Load, detectorsBookVars
<1>2. tape' = Read' /\ Finished' /\ d_stage' = "idle"
  <2>1. Read' = Read /\ Finished'
    BY <1>1, ReadStays
  <2>2. SortedTape(lines) = Read
    BY <1>1, SortedIsRead
  <2>3. QED
    BY <1>1, <2>1, <2>2
<1>3. frames = <<>> /\ ~due
  BY <1>1 DEF ReplayInv, WalkInv
<1>4. WalksOn(run, n)'
  <2>1. SUFFICES ASSUME request.symbol = Watched
                 PROVE  \E m \in 0 .. n : run[m].at = walked' /\ Rep!Follows(run[m])'
    BY <1>1 DEF WalksOn
  <2>2. PICK m \in 0 .. n : run[m].at = walked /\ Rep!Follows(run[m])
    BY <2>1 DEF ReplayRun, WalksOn
  <2>3. PICK c : c = run[m]
    OBVIOUS
  <2>4. UNCHANGED Rep!bookVars
    BY <1>1 DEF replayBookVars, Rep!bookVars
  <2>5. Rep!Follows(c)'
    BY <2>2, <2>3, <2>4, BookAssumptions, Rep!StillFollows
  <2>6. QED
    BY <1>1, <2>2, <2>3, <2>5
<1>5. QED
  BY <1>1, <1>2, <1>3, <1>4 DEF ReplayRun

\* The walk goes one event further: so does its place on the run.
LEMMA NextSnapshot ==
  ASSUME EngineOK, NEW n \in Nat, NEW run, RunOK(run, n, Read), EngineRun(run, n),
         d_stage = "idle", NEW m \in 0 .. n,
         run[m].at < applied \/ run[m].stage = "repair"
  PROVE  m + 1 \in 0 .. n /\ Moves(run[m], run[m + 1], Read)
<1>1. run[n].stage = "idle" /\ run[n].at = applied /\ applied \in Nat
  BY StandingEngine, ReadIs
<1>2. m # n
  BY <1>1
<1>3. m + 1 \in 0 .. n
  BY <1>2
<1>4. QED
  BY <1>3 DEF RunOK

LEMMA WalkAdvances ==
  ASSUME EngineOK, BooksInv, BooksInv', CapsAlike', ReplayInv, Answering,
         NEW n \in Nat, NEW run, RunOK(run, n, Read), EngineRun(run, n), ReplayRun(run, n)
  PROVE  WalksOn(run, n)'
<1>1. /\ progress # "unloaded" /\ request' = request
      /\ UNCHANGED feedVars /\ UNCHANGED detectorsBookVars
  BY DEF Answering, Walk, Ask, PassOver, ApplyBefore, ApplyInside, RepairReplayed, Show, Answer
<1>2. d_stage = "idle" /\ tape = Read /\ Len(Read) = applied /\ applied \in Nat
      /\ walked \in Nat /\ Finished
  BY <1>1, ReadIs, Walking DEF ReplayRun, ReplayInv
<1>3. SUFFICES ASSUME request.symbol = Watched
               PROVE  \E m \in 0 .. n : run[m].at = walked' /\ Rep!Follows(run[m])'
  BY <1>1 DEF WalksOn
<1>4. PICK m \in 0 .. n : run[m].at = walked /\ Rep!Follows(run[m])
  BY <1>3 DEF ReplayRun, WalksOn
<1>5. PICK c : c = run[m]
  OBVIOUS
<1>6. PICK d : d = run[m + 1]
  OBVIOUS
<1>7. CASE UNCHANGED <<walked, replayBookVars>>
  <2>1. UNCHANGED Rep!bookVars
    BY <1>7 DEF replayBookVars, Rep!bookVars
  <2>2. Rep!Follows(c)'
    BY <1>4, <1>5, <2>1, BookAssumptions, Rep!StillFollows
  <2>3. QED
    BY <1>4, <1>5, <1>7, <2>2
<1>8. ASSUME MoreToWalk
      PROVE  /\ m + 1 \in 0 .. n /\ Moves(c, d, Read)
             /\ walked + 1 \in 1 .. applied
  <2>1. walked < applied
    BY <1>2, <1>8 DEF MoreToWalk
  <2>2. QED
    BY <1>2, <1>4, <1>5, <1>6, <2>1, NextSnapshot
<1>9. CASE PassOver
  <2>1. /\ r_stage = "idle" /\ MoreToWalk /\ Read[walked + 1].sym # Watched
        /\ walked' = walked + 1 /\ UNCHANGED replayBookVars
    BY <1>2, <1>3, <1>9 DEF PassOver
  <2>2. Rep!Stands(c) /\ c.stage = "idle" /\ c.at = walked
    BY <1>4, <1>5, <2>1 DEF Rep!Follows, Rep!Stands, Rep!Erasing
  <2>3. /\ d.at = walked + 1 /\ d.orders = c.orders /\ d.agg = c.agg
        /\ d.stage = c.stage /\ d.round = c.round /\ m + 1 \in 0 .. n
    BY <1>8, <2>1, <2>2 DEF Moves
  <2>4. Rep!Follows(d)'
    BY <2>1, <2>2, <2>3 DEF Rep!Follows, Rep!Stands, replayBookVars
  <2>5. QED
    BY <1>6, <2>1, <2>3, <2>4
<1>10. CASE ApplyBefore \/ ApplyInside
  <2>1. PICK e : e = tape[walked + 1]
    OBVIOUS
  <2>2. /\ MoreToWalk /\ e = Read[walked + 1] /\ e.sym = Watched
        /\ ReplayBook!Handle(e) /\ r_now' = e.ts /\ walked' = walked + 1
    BY <1>2, <1>3, <1>10, <2>1 DEF ApplyBefore, ApplyInside
  <2>3. /\ m + 1 \in 0 .. n /\ Moves(c, d, Read) /\ e \in Line
    BY <1>8, <2>2, ReadIs
  <2>4. e.q \in Int /\ Rep!Handle(e) /\ Rep!BookInv
    BY <2>2, <2>3, MarketFields, RepHandles DEF BooksInv
  <2>5. c.stage = "idle" /\ \A x : Rep!Reads(c, e, x) <=> Rep!Stands(x)'
    BY <1>4, <1>5, <2>2, <2>4, BookAssumptions, Rep!HandleFollows
  <2>6. d.at = walked + 1 /\ Det!Reads(c, e, d)
    BY <1>4, <1>5, <2>2, <2>3, <2>5 DEF Moves
  <2>7. Rep!Reads(c, e, d)
    <3>1. MaxOrders = ReplayOrders \/ Det!HasRoom(c.orders, e)
      BY <1>4, <1>5, <2>2, <2>3, <2>6 DEF Moves
    <3>2. MaxOrders = ReplayOrders \/ Rep!HasRoom(c.orders, e)
      <4>1. SUFFICES ASSUME Rep!Dropped' = 0 PROVE Rep!HasRoom(c.orders, e)
        BY DEF CapsAlike
      <4>2. Rep!Dropped \in Nat /\ Rep!Dropped <= Rep!Dropped'
            /\ (Rep!Dropped' = Rep!Dropped => Rep!HasRoom(r_orders, e))
        BY <2>4, BookAssumptions, Rep!DroppedIsNat, Rep!DropsAreCounted DEF BooksInv
      <4>3. c.orders = r_orders
        BY <1>4, <1>5, <2>5 DEF Rep!Follows, Rep!Stands, Rep!Erasing, Rep!Starts
      <4>4. QED
        BY <4>1, <4>2, <4>3
    <3>3. QED
      BY <2>6, <3>1, <3>2, SameReader
  <2>8. Rep!Follows(d)'
    BY <2>5, <2>7 DEF Rep!Follows
  <2>9. QED
    BY <1>6, <2>2, <2>3, <2>6, <2>8
<1>11. CASE RepairReplayed
  <2>1. Rep!Repair /\ walked' = walked
    BY <1>11, RepRepairs DEF RepairReplayed
  <2>2. /\ c.stage = "repair"
        /\ \/ Rep!Erasing(c)'
           \/ \A x : Rep!Onward(c, x) <=> Rep!Stands(x)'
    BY <1>4, <1>5, <2>1, BookAssumptions, Rep!RepairFollows DEF BooksInv
  <2>3. CASE Rep!Erasing(c)'
    BY <1>4, <1>5, <2>1, <2>3 DEF Rep!Follows
  <2>4. CASE \A x : Rep!Onward(c, x) <=> Rep!Stands(x)'
    <3>1. m + 1 \in 0 .. n /\ Moves(c, d, Read)
      BY <1>2, <1>5, <1>6, <2>2, NextSnapshot
    <3>2. d.at = walked /\ Det!Onward(c, d)
      BY <1>4, <1>5, <2>2, <3>1 DEF Moves
    <3>3. Rep!Onward(c, d)
      BY <3>2, SameReader
    <3>4. Rep!Follows(d)'
      BY <2>4, <3>3 DEF Rep!Follows
    <3>5. QED
      BY <1>6, <2>1, <3>1, <3>2, <3>4
  <2>5. QED
    BY <2>2, <2>3, <2>4
<1>12. CASE Ask \/ Show \/ Answer
  BY <1>7, <1>12 DEF Ask, Show, Answer
<1>13. QED
  BY <1>9, <1>10, <1>11, <1>12 DEF Answering, Walk

\* A frame is written: its event is the last one walked.
LEMMA ShowPictures ==
  ASSUME EngineOK, ReplayInv, Show, NEW n \in Nat, NEW run, ReplayRun(run, n)
  PROVE  \A f \in 1 .. Len(frames') : Pictured(frames'[f], run, n)
<1>1. /\ due /\ r_stage = "idle" /\ walked \in 1 .. Len(tape)
      /\ tape[walked].sym = request.symbol
  BY DEF Show, ReplayRun
<1>2. PICK S : frames \in Seq(S)
  BY DEF ReplayInv, WalkInv
<1> DEFINE frame == [eid |-> tape[walked].eid, ts |-> tape[walked].ts, orders |-> r_orders]
<1>3. frames' = Append(frames, frame) /\ frame.eid = tape[walked].eid /\ frame.orders = r_orders
  BY DEF Show
<1> HIDE DEF frame
<1>4. /\ Len(frames) \in Nat /\ Len(frames') = Len(frames) + 1
      /\ frames'[Len(frames) + 1] = frame
      /\ \A f \in 1 .. Len(frames) : frames'[f] = frames[f]
  BY <1>2, <1>3
<1>5. Pictured(frame, run, n)
  <2>1. ASSUME request.symbol = Watched
        PROVE  \E j \in 0 .. n : /\ run[j].stage = "idle" /\ run[j].at = walked
                                 /\ frame.orders = run[j].orders
    <3>1. PICK m \in 0 .. n : run[m].at = walked /\ Rep!Follows(run[m])
      BY <2>1 DEF ReplayRun, WalksOn
    <3>2. run[m].stage = "idle" /\ run[m].orders = r_orders
      BY <1>1, <3>1 DEF Rep!Follows, Rep!Stands, Rep!Erasing
    <3>3. QED
      BY <1>3, <3>1, <3>2
  <2>2. QED
    BY <1>1, <1>3, <2>1 DEF Pictured
<1>6. ASSUME NEW f \in 1 .. Len(frames') PROVE Pictured(frames'[f], run, n)
  <2>1. CASE f = Len(frames) + 1
    BY <1>4, <1>5, <2>1
  <2>2. CASE f \in 1 .. Len(frames)
    <3>1. Pictured(frames[f], run, n) /\ frames'[f] = frames[f]
      BY <1>4, <2>2 DEF ReplayRun
    <3>2. QED
      BY <3>1
  <2>3. QED
    BY <1>4, <2>1, <2>2
<1>7. QED
  BY <1>6

\* What a step of the feed, and what the replay's own steps, leave as it is.
LEMMA EngineRests ==
  ASSUME EngineOK, Damage \/ Push \/ Drain \/ EndOfTape \/ Flush \/ UNCHANGED feedVars,
         UNCHANGED detectorsBookVars, NEW n \in Nat, NEW run, EngineRun(run, n)
  PROVE  EngineRun(run, n)'
<1>1. Read' = Read /\ applied' = applied
  BY ReadStays
<1>2. PICK c : c = run[n]
  OBVIOUS
<1>3. Det!Follows(c) /\ UNCHANGED Det!bookVars
  BY <1>2 DEF EngineRun, detectorsBookVars, Det!bookVars
<1>4. Det!Follows(c)'
  BY <1>3, BookAssumptions, Det!StillFollows
<1>5. Det!Follows(run[n])'
  BY <1>2, <1>4
<1>6. d_books' = d_books /\ d_last' = d_last
  BY DEF detectorsBookVars
<1>7. QED
  BY <1>1, <1>5, <1>6, EngineRunStays

LEMMA ReplayRests ==
  ASSUME EngineOK, Damage \/ Push \/ Drain \/ EndOfTape \/ Flush \/ UNCHANGED feedVars,
         UNCHANGED detectorsBookVars, UNCHANGED replayVars,
         NEW n \in Nat, NEW run, ReplayRun(run, n)
  PROVE  ReplayRun(run, n)'
<1>1. Read' = Read /\ (Finished => Finished') /\ d_stage' = d_stage
  BY ReadStays DEF detectorsBookVars
<1>2. /\ tape' = tape /\ request' = request /\ walked' = walked /\ due' = due
      /\ frames' = frames /\ progress' = progress /\ UNCHANGED Rep!bookVars
  BY DEF replayVars, replayBookVars, Rep!bookVars
<1>3. WalksOn(run, n)'
  <2>1. SUFFICES ASSUME request.symbol = Watched
                 PROVE  \E m \in 0 .. n : run[m].at = walked' /\ Rep!Follows(run[m])'
    BY <1>2 DEF WalksOn
  <2>2. PICK m \in 0 .. n : run[m].at = walked /\ Rep!Follows(run[m])
    BY <2>1 DEF ReplayRun, WalksOn
  <2>3. PICK c : c = run[m]
    OBVIOUS
  <2>4. Rep!Follows(c)'
    BY <1>2, <2>2, <2>3, BookAssumptions, Rep!StillFollows
  <2>5. QED
    BY <1>2, <2>2, <2>3, <2>4
<1>4. \A f \in 1 .. Len(frames') : Pictured(frames[f], run, n)'
  BY <1>2 DEF ReplayRun, Pictured
<1>5. QED
  BY <1>1, <1>2, <1>3, <1>4 DEF ReplayRun

\* The replay answers: it walks along the run.
LEMMA AnsweringAdvances ==
  ASSUME EngineOK, BooksInv, BooksInv', CapsAlike', ReplayInv, Answering,
         NEW n \in Nat, NEW run, RunOK(run, n, Read), EngineRun(run, n), ReplayRun(run, n)
  PROVE  ReplayRun(run, n)'
<1>1. WalksOn(run, n)'
  BY WalkAdvances
<1>2. /\ progress # "unloaded" /\ progress' # "unloaded"
      /\ request' = request /\ tape' = tape
      /\ UNCHANGED feedVars /\ d_stage' = d_stage
  BY DEF Answering, Walk, Ask, PassOver, ApplyBefore, ApplyInside, RepairReplayed, Show,
         Answer, detectorsBookVars
<1>3. Finished' /\ d_stage' = "idle" /\ tape' = Read'
  BY <1>2, ReadStays DEF ReplayRun
<1>4. due' => walked' \in 1 .. Len(tape') /\ tape'[walked'].sym = request'.symbol
  <2>1. CASE ApplyInside
    <3>1. walked \in Nat /\ Len(tape) \in Nat /\ walked < Len(tape) /\ walked' = walked + 1
          /\ tape[walked + 1].sym = request.symbol
      BY <1>2, <2>1, Walking DEF ApplyInside, MoreToWalk, ReplayInv
    <3>2. walked' \in 1 .. Len(tape)
      BY <3>1
    <3>3. QED
      BY <1>2, <3>1, <3>2
  <2>2. CASE PassOver \/ ApplyBefore \/ Show \/ Answer
    BY <2>2 DEF PassOver, ApplyBefore, Show, Answer
  <2>3. CASE Ask \/ RepairReplayed
    BY <1>2, <2>3 DEF Ask, RepairReplayed, ReplayRun
  <2>4. QED
    BY <2>1, <2>2, <2>3 DEF Answering, Walk
<1>5. \A f \in 1 .. Len(frames') : Pictured(frames'[f], run, n)
  <2>1. CASE Show
    BY <2>1, ShowPictures
  <2>2. CASE frames' = frames
    BY <2>2 DEF ReplayRun
  <2>3. QED
    BY <2>1, <2>2 DEF Answering, Walk, Ask, PassOver, ApplyBefore, ApplyInside,
                      RepairReplayed, Answer
<1>6. ASSUME NEW f \in 1 .. Len(frames') PROVE Pictured(frames[f], run, n)'
  <2>1. Pictured(frames'[f], run, n)
    BY <1>5
  <2>2. QED
    BY <1>2, <2>1 DEF Pictured
<1>7. QED
  BY <1>1, <1>2, <1>3, <1>4, <1>6 DEF ReplayRun

\* While the engine has something to do the API is not started.
LEMMA EngineAtWork ==
  ASSUME EngineOK, NEW n, NEW run, ReplayRun(run, n), ApplyToBook \/ RepairDetected
  PROVE  progress = "unloaded" /\ UNCHANGED replayVars
<1>1. SUFFICES ASSUME Finished, d_stage = "idle" PROVE FALSE
  BY DEF ReplayRun, ApplyToBook, RepairDetected
<1>2. CASE ApplyToBook
  BY <1>1, <1>2, ApplyIsStep, ReleasedAtItsPlace DEF ApplyToBook, EngineOK
<1>3. CASE RepairDetected
  BY <1>1, <1>3 DEF RepairDetected, DetectorsBook!Repair, DetectorsBook!ChooseLevel,
                    DetectorsBook!EraseOrder, DetectorsBook!RepairDone
<1>4. QED
  BY <1>2, <1>3

\* There is a run the engine has written and the replay goes through.
Joint ==
  \E n, run : n \in Nat /\ RunOK(run, n, Read) /\ EngineRun(run, n) /\ ReplayRun(run, n)

LEMMA JointInitially == ConsoleInit => Joint
<1> SUFFICES ASSUME ConsoleInit PROVE Joint
  OBVIOUS
<1>1. DetectorsBook!BookInit /\ ReplayBook!BookInit
  BY DEF ConsoleInit, ReplayInit
<1>2. d_stage = "idle" /\ r_stage = "idle" /\ d_round = 0 /\ r_round = 0
  BY <1>1 DEF DetectorsBook!BookInit, ReplayBook!BookInit
<1>3. d_orders = r_orders /\ d_agg = r_agg
  BY <1>1 DEF DetectorsBook!BookInit, ReplayBook!BookInit, DetectorsBook!Side,
              ReplayBook!Side, DetectorsBook!NoLevel, ReplayBook!NoLevel
<1>4. /\ applied = 0 /\ DOMAIN d_books = {} /\ frames = <<>> /\ walked = 0
      /\ progress = "unloaded" /\ due = FALSE
  BY DEF ConsoleInit, ReplayInit, FeedInit
<1>5. PICK c : c = [orders |-> d_orders, agg |-> d_agg, stage |-> "idle", round |-> 0, at |-> 0]
  OBVIOUS
<1>6. /\ c.orders = d_orders /\ c.agg = d_agg /\ c.stage = "idle" /\ c.round = 0 /\ c.at = 0
  BY <1>5
<1>7. Det!Stands(c) /\ Rep!Stands(c)
  BY <1>2, <1>3, <1>6 DEF Det!Stands, Rep!Stands
<1>8. PICK run : run = [i \in {0} |-> c]
  OBVIOUS
<1>9. run[0] = c /\ \A i \in 0 .. 0 : i = 0
  BY <1>8
<1>10. RunOK(run, 0, Read)
  <2>1. Len(Read) = 0
    BY <1>4 DEF Read
  <2>2. \A i \in 0 .. 0 : run[i].at \in 0 .. Len(Read)
    BY <1>6, <1>9, <2>1
  <2>3. \A i \in 0 .. 0 : i + 1 \notin 0 .. 0
    OBVIOUS
  <2>4. QED
    BY <1>6, <1>9, <2>2, <2>3 DEF RunOK
<1>11. EngineRun(run, 0)
  BY <1>4, <1>6, <1>7, <1>9 DEF EngineRun, Det!Follows
<1>12. ReplayRun(run, 0)
  <2>1. 0 \in 0 .. 0 /\ run[0].at = walked /\ Rep!Follows(run[0])
    BY <1>4, <1>6, <1>7, <1>9 DEF Rep!Follows
  <2>2. WalksOn(run, 0)
    BY <2>1 DEF WalksOn
  <2>3. QED
    BY <1>4, <2>2 DEF ReplayRun
<1>13. QED
  BY <1>10, <1>11, <1>12 DEF Joint

LEMMA JointKept ==
  ASSUME EngineOK, BooksInv, BooksInv', CapsAlike', ReplayInv, Joint, [ConsoleNext]_consoleVars
  PROVE  Joint'
<1>1. PICK n, run : n \in Nat /\ RunOK(run, n, Read) /\ EngineRun(run, n) /\ ReplayRun(run, n)
  BY DEF Joint
<1>2. ASSUME Read' = Read, EngineRun(run, n)', ReplayRun(run, n)' PROVE Joint'
  <2>1. RunOK(run, n, Read')
    BY <1>1, <1>2
  <2>2. QED
    BY <1>1, <1>2, <2>1 DEF Joint
<1>3. CASE FeedStep \/ UNCHANGED consoleVars
  <2>1. /\ Damage \/ Push \/ Drain \/ EndOfTape \/ Flush \/ UNCHANGED feedVars
        /\ UNCHANGED detectorsBookVars /\ UNCHANGED replayVars
    BY <1>3 DEF FeedStep, consoleVars
  <2>2. QED
    BY <1>1, <1>2, <2>1, ReadStays, EngineRests, ReplayRests
<1>4. CASE StartApi
  <2>1. UNCHANGED feedVars /\ UNCHANGED detectorsBookVars
    BY <1>4 DEF StartApi
  <2>2. QED
    BY <1>1, <1>2, <1>4, <2>1, ReadStays, EngineRests, LoadAdvances
<1>5. CASE Answering
  <2>1. UNCHANGED feedVars /\ UNCHANGED detectorsBookVars
    BY <1>5 DEF Answering
  <2>2. QED
    BY <1>1, <1>2, <1>5, <2>1, ReadStays, EngineRests, AnsweringAdvances
<1>6. CASE ApplyToBook \/ RepairDetected
  <2>1. PICK k, more : /\ Reaches(run, n, more, k) /\ RunOK(more, k, Read')
                       /\ EngineRun(more, k)'
    BY <1>1, <1>6, ApplyAdvances, RepairAdvances
  <2>2. progress = "unloaded" /\ UNCHANGED replayVars
    BY <1>1, <1>6, EngineAtWork
  <2>3. k \in Nat
    BY <2>1 DEF Reaches
  <2>4. ReplayRun(more, k)'
    BY <1>1, <2>1, <2>2, <2>3, UnloadedReplay
  <2>5. QED
    BY <2>1, <2>3, <2>4 DEF Joint
<1>7. QED
  BY <1>3, <1>4, <1>5, <1>6 DEF ConsoleNext

\* Two snapshots behind the same event, with nothing left to repair, are one.
LEMMA JointAgrees == EngineOK /\ ReplayInv /\ Joint => SameBookAsDetectors
<1> SUFFICES ASSUME EngineOK, ReplayInv, Joint,
                    NEW f \in 1 .. Len(frames), frames[f].eid \in DOMAIN d_books
             PROVE  frames[f].orders = d_books[frames[f].eid]
  BY DEF SameBookAsDetectors
<1>1. PICK n, run : n \in Nat /\ RunOK(run, n, Read) /\ EngineRun(run, n) /\ ReplayRun(run, n)
  BY DEF Joint
<1>2. progress # "unloaded"
  BY DEF ReplayInv, WalkInv
<1>3. tape = Read /\ Len(Read) = applied /\ applied \in Nat
  BY <1>1, <1>2, ReadIs DEF ReplayRun
<1>4. PICK w \in 1 .. Len(tape) :
        /\ frames[f].eid = tape[w].eid /\ tape[w].sym = request.symbol
        /\ request.symbol = Watched =>
             \E j \in 0 .. n : /\ run[j].stage = "idle" /\ run[j].at = w
                               /\ frames[f].orders = run[j].orders
  BY <1>1 DEF ReplayRun, Pictured
<1>5. PICK i \in 0 .. n : Held(frames[f].eid, run, i)
  BY <1>1 DEF EngineRun
<1>6. w = run[i].at
  <2>1. w \in 1 .. applied /\ run[i].at \in 1 .. applied /\ Read[run[i].at].eid = Read[w].eid
    BY <1>3, <1>4, <1>5 DEF Held
  <2>2. QED
    BY <2>1, ReadIs
<1>7. PICK j \in 0 .. n : /\ run[j].stage = "idle" /\ run[j].at = w
                          /\ frames[f].orders = run[j].orders
  BY <1>3, <1>4, <1>5, <1>6 DEF Held
<1>8. i = j
  <2>1. ~(i < j) /\ ~(j < i)
    <3>1. i < j => run[i].at < run[j].at
      BY <1>1, <1>5 DEF RunOK, Held
    <3>2. j < i => run[j].at < run[i].at
      BY <1>1, <1>7 DEF RunOK
    <3>3. QED
      BY <1>6, <1>7, <3>1, <3>2
  <2>2. QED
    BY <2>1
<1>9. QED
  BY <1>5, <1>7, <1>8 DEF Held

LEMMA JointCorrect ==
  ASSUME ClocksAgree, NoDuplicates
  PROVE  ConsoleSpec => [](EngineOK /\ ReplayInv /\ (CapsAlike => Joint))
<1>1. /\ EngineOK /\ BooksInv /\ BooksInv' /\ ReplayInv /\ (CapsAlike => Joint)
      /\ [ConsoleNext]_consoleVars
      => (CapsAlike => Joint)'
  BY JointKept, CapsWereAlike
<1>2. ConsoleSpec => FeedSpec
  BY ConsoleIsFeed, PTL DEF ConsoleSpec, FeedSpec
<1>3. QED
  BY <1>1, <1>2, EngineCorrect, BooksCorrect, ReplayCorrect, JointInitially, PTL
     DEF ConsoleSpec

(***************************************************************************)
(* "The console has to show the same book the detectors saw, and they see  *)
(* timestamp order" (replay.cpp:84-85): it does on every tape whose clocks *)
(* agree and that repeats no line, whichever of its lines were lost or     *)
(* swapped, when the engine is given the replay's cap (replay.cpp:105), as *)
(* it is by default (config.hpp:122).                                      *)
(***************************************************************************)
THEOREM SameBookAsDetectorsCorrect ==
  ASSUME ClocksAgree, NoDuplicates, MaxOrders = ReplayOrders
  PROVE  ConsoleSpec => []SameBookAsDetectors
<1>1. EngineOK /\ ReplayInv /\ (CapsAlike => Joint) => SameBookAsDetectors
  BY JointAgrees DEF CapsAlike
<1>2. QED
  BY <1>1, JointCorrect, PTL

(***************************************************************************)
(* The two books need not have one cap: the replay's is 200000             *)
(* (replay.cpp:105), the engine's is configured, 50000 in smoke.yaml and   *)
(* 400000 in full.yaml.  They are the same as long as neither has counted  *)
(* an order it had no room for (on_order, book_state.cpp:51).              *)
(***************************************************************************)
SameBookUnlessCapped ==
  d_stats["orders_dropped_cap"] = 0 /\ r_stats["orders_dropped_cap"] = 0
    => SameBookAsDetectors

(***************************************************************************)
(* Whatever the two caps are, it does so as long as neither book has       *)
(* counted an order it had no room for (on_order, book_state.cpp:50-53).   *)
(***************************************************************************)
THEOREM SameBookUnlessCappedCorrect ==
  ASSUME ClocksAgree, NoDuplicates
  PROVE  ConsoleSpec => []SameBookUnlessCapped
<1>1. EngineOK /\ ReplayInv /\ (CapsAlike => Joint) => SameBookUnlessCapped
  BY JointAgrees DEF CapsAlike, SameBookUnlessCapped, Det!Dropped, Rep!Dropped
<1>2. QED
  BY <1>1, JointCorrect, PTL
=============================================================================
