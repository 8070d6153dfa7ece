------------------------- MODULE ReorderBufferProofs -------------------------
(***************************************************************************)
(* TLAPS proofs about the reorder buffer, for every set of events, every   *)
(* tolerance, every capacity and tapes of any length.                      *)
(*                                                                         *)
(* The argument: the node that leaves the heap is a minimum of it, push    *)
(* refuses what lies before the last release, so the heap never holds an   *)
(* event earlier than the last one released (OrderInv).  What is refused   *)
(* is measured against the watermark through ToleranceInv, and the size of *)
(* the heap through SizeInv.                                               *)
(***************************************************************************)
EXTENDS ReorderBuffer, FiniteSetTheorems, WellFoundedInduction, TLAPS

\* The order invariant: `last_released_ts` separates output from heap.
OrderInv ==
  /\ \A n \in heap : last_released_ts <= n.event.ts
  /\ \A i \in DOMAIN out : out[i].event.ts <= last_released_ts
  /\ ReleasedInOrder

\* How large the heap is in each phase.
SizeInv ==
  /\ IsFiniteSet(heap)
  /\ Cardinality(heap) <= Capacity + 1
  /\ phase # "drain" => Cardinality(heap) <= Capacity

\* As long as nothing was forced out, releases trail the watermark.
ToleranceInv ==
  phase \in {"idle", "drain"} /\ overflow_releases = 0
    => last_released_ts = MinTs \/ last_released_ts <= max_ts_seen - Tolerance

USE EventAssumption, ToleranceAssumption, CapacityAssumption DEF MinTs

LEMMA NodeFields ==
  ASSUME NEW n \in Node
  PROVE  n.line \in Nat /\ n.event \in Event /\ n.event.ts \in Nat /\ n.event.seq \in Nat
  BY DEF Node

\* A step of the buffer, whoever takes it: what holds of the buffer holds on
\* tapes of any length.
Step ==
  \/ \E e \in Event : PushLate(e) \/ PushHeld(e)
  \/ Drain \/ EndOfTape \/ Flush
  \/ UNCHANGED vars

LEMMA NextIsStep == [Next]_vars => Step
BY DEF Next, Push, Step

-----------------------------------------------------------------------------
LEMMA TypeKept ==
  ASSUME TypeOK, Step
  PROVE  TypeOK'
<1>1. ASSUME NEW e \in Event, PushLate(e) PROVE TypeOK'
  BY <1>1 DEF TypeOK, PushLate, Node
<1>2. ASSUME NEW e \in Event, PushHeld(e) PROVE TypeOK'
  <2>1. max_ts_seen' \in Nat \cup {MinTs}
    BY <1>2 DEF TypeOK, PushHeld, Max2
  <2>2. recovered' \in Nat
    BY <1>2 DEF TypeOK, PushHeld
  <2>3. QED
    BY <1>2, <2>1, <2>2 DEF TypeOK, PushHeld, Node
<1>3. ASSUME NEW n \in heap, Pop(n)
      PROVE  /\ heap' \in SUBSET Node /\ out' \in Seq(Node)
             /\ last_released_ts' \in Nat \cup {MinTs}
  BY <1>3, NodeFields DEF TypeOK, Pop
<1>4. CASE PopReady
  <2>1. PICK n \in Ready : Pop(n)
    BY <1>4 DEF PopReady
  <2>2. n \in heap
    BY DEF Ready, Top
  <2>3. QED
    BY <1>3, <1>4, <2>1, <2>2 DEF TypeOK, PopReady, Pop
<1>5. CASE PopOverflow
  <2>1. PICK n \in Top(heap) : Pop(n)
    BY <1>5 DEF PopOverflow
  <2>2. n \in heap
    BY DEF Top
  <2>3. QED
    BY <1>3, <1>5, <2>1, <2>2 DEF TypeOK, PopOverflow, Pop
<1>6. CASE PopFlush
  <2>1. PICK n \in Top(heap) : Pop(n)
    BY <1>6 DEF PopFlush
  <2>2. n \in heap
    BY DEF Top
  <2>3. QED
    BY <1>3, <1>6, <2>1, <2>2 DEF TypeOK, PopFlush, Pop
<1>7. CASE DrainDone \/ EndOfTape \/ FlushDone \/ UNCHANGED vars
  BY <1>7 DEF TypeOK, DrainDone, EndOfTape, FlushDone, vars
<1>8. QED
  BY <1>1, <1>2, <1>4, <1>5, <1>6, <1>7 DEF Step, Drain, Flush

(***************************************************************************)
(* Type correctness: every variable of the buffer keeps its range.         *)
(***************************************************************************)
THEOREM TypeCorrect == Spec => []TypeOK
<1>1. Init => TypeOK
  BY DEF Init, TypeOK
<1>2. TypeOK /\ [Next]_vars => TypeOK'
  BY NextIsStep, TypeKept
<1>3. QED
  BY <1>1, <1>2, PTL DEF Spec

-----------------------------------------------------------------------------
(***************************************************************************)
(* Popping a minimum of the heap keeps the output in order.                *)
(***************************************************************************)
LEMMA PopKeepsOrder ==
  ASSUME TypeOK, OrderInv, NEW n \in Top(heap), Pop(n)
  PROVE  OrderInv'
<1>1. n \in heap /\ n \in Node
  BY DEF Top, TypeOK
<1>2. \A m \in heap : n.event.ts <= m.event.ts
  BY <1>1, NodeFields DEF Top, Later, TypeOK
<1>3. /\ last_released_ts' = n.event.ts
      /\ last_released_ts <= n.event.ts
      /\ last_released_ts \in Int /\ n.event.ts \in Int
  BY <1>1, NodeFields DEF Pop, OrderInv, TypeOK
<1>4. /\ out' \in Seq(Node) /\ DOMAIN out' = 1 .. Len(out) + 1
      /\ out'[Len(out) + 1] = n
      /\ \A i \in DOMAIN out : i \in 1 .. Len(out) /\ out'[i] = out[i]
      /\ DOMAIN out = 1 .. Len(out) /\ Len(out) \in Nat
  BY <1>1 DEF Pop, TypeOK
<1>5. \A i \in DOMAIN out' : out'[i].event.ts \in Int
  BY <1>4, NodeFields
<1>6. \A i \in DOMAIN out' : out'[i].event.ts <= last_released_ts'
  <2> SUFFICES ASSUME NEW i \in DOMAIN out' PROVE out'[i].event.ts <= n.event.ts
    BY <1>3
  <2>1. CASE i = Len(out) + 1
    BY <2>1, <1>3, <1>4
  <2>2. CASE i \in DOMAIN out
    BY <2>2, <1>3, <1>4, <1>5 DEF OrderInv
  <2>3. QED
    BY <2>1, <2>2, <1>4
<1>7. ReleasedInOrder'
  <2> SUFFICES ASSUME NEW i \in DOMAIN out', NEW j \in DOMAIN out', i < j
               PROVE  out'[i].event.ts <= out'[j].event.ts
    BY DEF ReleasedInOrder
  <2>1. i \in DOMAIN out
    BY <1>4
  <2>2. CASE j \in DOMAIN out
    BY <2>1, <2>2, <1>4 DEF OrderInv, ReleasedInOrder
  <2>3. CASE j = Len(out) + 1
    BY <2>1, <2>3, <1>3, <1>4, <1>6
  <2>4. QED
    BY <2>2, <2>3, <1>4
<1>8. \A m \in heap' : last_released_ts' <= m.event.ts
  BY <1>2, <1>3 DEF Pop
<1>9. QED
  BY <1>6, <1>7, <1>8 DEF OrderInv

LEMMA OrderKept ==
  ASSUME TypeOK, OrderInv, Step
  PROVE  OrderInv'
<1>1. ASSUME NEW e \in Event, PushLate(e) PROVE OrderInv'
  BY <1>1 DEF OrderInv, ReleasedInOrder, PushLate
<1>2. ASSUME NEW e \in Event, PushHeld(e) PROVE OrderInv'
  <2>1. \A n \in heap' : last_released_ts' <= n.event.ts
    BY <1>2 DEF PushHeld, Late, OrderInv, TypeOK
  <2>2. QED
    BY <1>2, <2>1 DEF OrderInv, ReleasedInOrder, PushHeld
<1>3. CASE PopReady
  BY <1>3, PopKeepsOrder DEF PopReady, Ready
<1>4. CASE PopOverflow
  BY <1>4, PopKeepsOrder DEF PopOverflow
<1>5. CASE PopFlush
  BY <1>5, PopKeepsOrder DEF PopFlush
<1>6. CASE DrainDone \/ EndOfTape \/ FlushDone \/ UNCHANGED vars
  BY <1>6 DEF OrderInv, ReleasedInOrder, DrainDone, EndOfTape, FlushDone, vars
<1>7. QED
  BY <1>1, <1>2, <1>3, <1>4, <1>5, <1>6 DEF Step, Drain, Flush

(***************************************************************************)
(* Events are released in timestamp order on every tape: drains, early     *)
(* releases and the flush never put an event behind a later one.           *)
(***************************************************************************)
THEOREM OrderCorrect == Spec => []ReleasedInOrder
<1>1. Init => OrderInv
  BY DEF Init, OrderInv, ReleasedInOrder
<1>2. TypeOK /\ OrderInv /\ [Next]_vars => OrderInv'
  BY NextIsStep, OrderKept
<1>3. OrderInv => ReleasedInOrder
  BY DEF OrderInv
<1>4. QED
  BY <1>1, <1>2, <1>3, TypeCorrect, PTL DEF Spec
-----------------------------------------------------------------------------
LEMMA SizeKept ==
  ASSUME TypeOK, SizeInv, Step
  PROVE  SizeInv'
<1>1. Cardinality(heap) \in Nat
  BY FS_CardinalityType DEF SizeInv
<1>2. ASSUME NEW n \in heap, Pop(n)
      PROVE  IsFiniteSet(heap') /\ Cardinality(heap') = Cardinality(heap) - 1
  BY <1>2, FS_RemoveElement DEF Pop, SizeInv
<1>3. ASSUME NEW e \in Event, PushLate(e) PROVE SizeInv'
  BY <1>3 DEF SizeInv, PushLate
<1>4. ASSUME NEW e \in Event, PushHeld(e) PROVE SizeInv'
  <2> DEFINE x == [line |-> fed + 1, event |-> e]
  <2>0. /\ IsFiniteSet(heap \cup {x})
        /\ Cardinality(heap \cup {x}) <= Cardinality(heap) + 1
    <3> HIDE DEF x
    <3>1. IsFiniteSet(heap)
      BY DEF SizeInv
    <3>2. /\ IsFiniteSet(heap \cup {x})
          /\ \/ Cardinality(heap \cup {x}) = Cardinality(heap)
             \/ Cardinality(heap \cup {x}) = Cardinality(heap) + 1
      BY <3>1, FS_AddElement
    <3>3. QED
      BY <1>1, <3>2
  <2>1. /\ IsFiniteSet(heap')
        /\ Cardinality(heap') <= Cardinality(heap) + 1
    BY <1>4, <2>0 DEF PushHeld
  <2>2. Cardinality(heap) <= Capacity
    BY <1>4 DEF PushHeld, SizeInv
  <2>3. Cardinality(heap') \in Nat
    BY <2>1, FS_CardinalityType
  <2>4. QED
    BY <1>1, <1>4, <2>1, <2>2, <2>3 DEF SizeInv, PushHeld
<1>5. CASE PopReady
  <2>1. PICK n \in heap : Pop(n)
    BY <1>5 DEF PopReady, Ready, Top
  <2>2. QED
    BY <1>1, <1>2, <1>5, <2>1 DEF SizeInv, PopReady
<1>6. CASE PopOverflow
  <2>1. PICK n \in heap : Pop(n)
    BY <1>6 DEF PopOverflow, Top
  <2>2. QED
    BY <1>1, <1>2, <1>6, <2>1 DEF SizeInv, PopOverflow
<1>7. CASE PopFlush
  <2>1. PICK n \in heap : Pop(n)
    BY <1>7 DEF PopFlush, Top
  <2>2. QED
    BY <1>1, <1>2, <1>7, <2>1 DEF SizeInv, PopFlush
<1>8. CASE DrainDone
  BY <1>1, <1>8 DEF SizeInv, DrainDone, OverCapacity
<1>9. CASE EndOfTape \/ FlushDone \/ UNCHANGED vars
  BY <1>9 DEF SizeInv, EndOfTape, FlushDone, vars
<1>10. QED
  BY <1>3, <1>4, <1>5, <1>6, <1>7, <1>8, <1>9 DEF Step, Drain, Flush

(***************************************************************************)
(* The capacity bounds the memory of the buffer: between calls it holds at *)
(* most `capacity` events.                                                 *)
(***************************************************************************)
THEOREM SizeCorrect == Spec => []Bounded
<1>1. Init => SizeInv
  BY FS_EmptySet DEF Init, SizeInv
<1>2. TypeOK /\ SizeInv /\ [Next]_vars => SizeInv'
  BY NextIsStep, SizeKept
<1>3. SizeInv => Bounded
  BY DEF SizeInv, Bounded
<1>4. QED
  BY <1>1, <1>2, <1>3, TypeCorrect, PTL DEF Spec

-----------------------------------------------------------------------------
(***************************************************************************)
(* No line inside the tolerance is refused before the first early release. *)
(***************************************************************************)
THEOREM ToleranceCorrect == Spec => ToleranceHonoured
<1>1. Init => ToleranceInv
  BY DEF Init, ToleranceInv
<1>2. TypeOK /\ ToleranceInv /\ [Next]_vars => ToleranceInv'
  <2> SUFFICES ASSUME TypeOK, ToleranceInv, [Next]_vars PROVE ToleranceInv'
    OBVIOUS
  <2>1. ASSUME NEW e \in Event, PushLate(e) PROVE ToleranceInv'
    BY <2>1 DEF ToleranceInv, PushLate
  <2>2. ASSUME NEW e \in Event, PushHeld(e) PROVE ToleranceInv'
    BY <2>2 DEF ToleranceInv, PushHeld, Max2, TypeOK
  <2>3. CASE PopReady
    BY <2>3 DEF ToleranceInv, PopReady, Ready, Watermark, Pop
  <2>4. CASE PopOverflow
    BY <2>4 DEF ToleranceInv, PopOverflow, TypeOK
  <2>5. CASE PopFlush \/ FlushDone
    BY <2>5 DEF ToleranceInv, PopFlush, FlushDone
  <2>6. CASE DrainDone \/ EndOfTape \/ UNCHANGED vars
    BY <2>6 DEF ToleranceInv, DrainDone, EndOfTape, vars
  <2>7. QED
    BY <2>1, <2>2, <2>3, <2>4, <2>5, <2>6 DEF Next, Push, Drain, Flush
<1>3. TypeOK /\ ToleranceInv /\ [Next]_vars
        => [refused' # refused /\ overflow_releases = 0 =>
              \A n \in refused' \ refused :
                 n.event.ts < max_ts_seen - Tolerance]_vars
  <2> SUFFICES ASSUME TypeOK, ToleranceInv, Next, refused' # refused,
                      overflow_releases = 0, NEW n \in refused' \ refused
               PROVE  n.event.ts < max_ts_seen - Tolerance
    BY DEF vars
  <2>1. PICK e \in Event : PushLate(e)
    BY DEF Next, Push, PushHeld, Drain, PopReady, PopOverflow, DrainDone, Pop,
           EndOfTape, Flush, PopFlush, FlushDone
  <2>2. n.event = e
    BY <2>1 DEF PushLate
  <2>3. QED
    BY <2>1, <2>2 DEF PushLate, Late, ToleranceInv, TypeOK
<1>4. QED
  BY <1>1, <1>2, <1>3, TypeCorrect, PTL DEF Spec, ToleranceHonoured
-----------------------------------------------------------------------------
\* Every line number lies in 1 .. fed, and the lines are told apart.
LineInv ==
  /\ \A n \in heap \cup refused \cup Released : n.line \in 1 .. fed
  /\ EachLineOnce

(***************************************************************************)
(* A pop moves one node from the heap to the end of the output.            *)
(***************************************************************************)
LEMMA PopMoves ==
  ASSUME TypeOK, NEW n \in heap, Pop(n)
  PROVE  /\ Released' = Released \cup {n}
         /\ heap' = heap \ {n} /\ refused' = refused /\ fed' = fed
         /\ DOMAIN out' = DOMAIN out \cup {Len(out) + 1}
         /\ Len(out) + 1 \notin DOMAIN out
         /\ out'[Len(out) + 1] = n
         /\ \A i \in DOMAIN out : out'[i] = out[i]
<1>1. /\ DOMAIN out' = 1 .. Len(out) + 1 /\ DOMAIN out = 1 .. Len(out)
      /\ Len(out) \in Nat /\ out'[Len(out) + 1] = n
      /\ \A i \in DOMAIN out : out'[i] = out[i]
  BY DEF Pop, TypeOK
<1>2. DOMAIN out' = DOMAIN out \cup {Len(out) + 1} /\ Len(out) + 1 \notin DOMAIN out
  BY <1>1
<1>3. Released' = Released \cup {n}
  <2>1. ASSUME NEW m \in Released PROVE m \in Released'
    <3>1. PICK i \in DOMAIN out : m = out[i]
      BY DEF Released
    <3>2. i \in DOMAIN out' /\ out'[i] = m
      BY <1>1, <1>2, <3>1
    <3>3. QED
      BY <3>2 DEF Released
  <2>2. n \in Released'
    BY <1>1, <1>2 DEF Released
  <2>3. ASSUME NEW m \in Released' PROVE m \in Released \cup {n}
    <3>1. PICK i \in DOMAIN out' : m = out'[i]
      BY DEF Released
    <3>2. CASE i = Len(out) + 1
      BY <1>1, <3>1, <3>2
    <3>3. CASE i \in DOMAIN out
      BY <1>1, <3>1, <3>3 DEF Released
    <3>4. QED
      BY <1>2, <3>2, <3>3
  <2>4. QED
    BY <2>1, <2>2, <2>3
<1>4. QED
  BY <1>1, <1>2, <1>3 DEF Pop

LEMMA PopKeepsLines ==
  ASSUME TypeOK, LineInv, NEW n \in heap, Pop(n)
  PROVE  LineInv'
<1> DEFINE All == heap \cup refused \cup Released
<1>1. All' = All /\ fed' = fed
  BY PopMoves
<1>2. \A m \in All' : m.line \in 1 .. fed'
  BY <1>1 DEF LineInv
<1>3. /\ \A l \in 1 .. fed' : \E m \in All' : m.line = l
      /\ \A m, k \in All' : m.line = k.line => m = k
  BY <1>1 DEF LineInv, EachLineOnce
<1>4. /\ (heap \cap refused)' = {}
      /\ ((heap \cup refused) \cap Released)' = {}
  BY PopMoves DEF LineInv, EachLineOnce
<1>5. ASSUME NEW i \in DOMAIN out', NEW j \in DOMAIN out', out'[i] = out'[j]
      PROVE  i = j
  <2>1. \A k \in DOMAIN out : out[k] \in Released
    BY DEF Released
  <2>2. n \notin Released
    BY DEF LineInv, EachLineOnce
  <2>3. QED
    BY <1>5, <2>1, <2>2, PopMoves DEF LineInv, EachLineOnce
<1>6. QED
  BY <1>2, <1>3, <1>4, <1>5 DEF LineInv, EachLineOnce

LEMMA LinesKept ==
  ASSUME TypeOK, LineInv, Step
  PROVE  LineInv'
<1>1. ASSUME NEW e \in Event, NEW n,
             n = [line |-> fed + 1, event |-> e],
             fed' = fed + 1, out' = out,
             \/ heap' = heap \cup {n} /\ refused' = refused
             \/ heap' = heap /\ refused' = refused \cup {n}
      PROVE  LineInv'
  <2> DEFINE All == heap \cup refused \cup Released
  <2>1. /\ Released' = Released /\ All' = All \cup {n} /\ n.line = fed'
        /\ fed \in Nat /\ fed' = fed + 1
    BY <1>1 DEF Released, TypeOK
  <2>2. n \notin All /\ \A m \in All : m.line # n.line
    BY <2>1 DEF LineInv
  <2>3. \A m \in All' : m.line \in 1 .. fed'
    BY <2>1 DEF LineInv
  <2>4. ASSUME NEW l \in 1 .. fed' PROVE \E m \in All' : m.line = l
    <3>1. CASE l = fed'
      BY <2>1, <3>1
    <3>2. CASE l \in 1 .. fed
      BY <2>1, <3>2 DEF LineInv, EachLineOnce
    <3>3. QED
      BY <2>1, <3>1, <3>2
  <2>5. ASSUME NEW m \in All', NEW k \in All', m.line = k.line PROVE m = k
    BY <2>1, <2>2, <2>5 DEF LineInv, EachLineOnce
  <2>6. (heap \cap refused)' = {} /\ ((heap \cup refused) \cap Released)' = {}
    BY <1>1, <2>1, <2>2 DEF LineInv, EachLineOnce
  <2>7. QED
    BY <1>1, <2>3, <2>4, <2>5, <2>6 DEF LineInv, EachLineOnce
<1>2. ASSUME NEW e \in Event, PushLate(e) PROVE LineInv'
  BY <1>1, <1>2 DEF PushLate
<1>3. ASSUME NEW e \in Event, PushHeld(e) PROVE LineInv'
  BY <1>1, <1>3 DEF PushHeld
<1>4. CASE PopReady
  BY <1>4, PopKeepsLines DEF PopReady, Ready, Top
<1>5. CASE PopOverflow
  BY <1>5, PopKeepsLines DEF PopOverflow, Top
<1>6. CASE PopFlush
  BY <1>6, PopKeepsLines DEF PopFlush, Top
<1>7. CASE DrainDone \/ EndOfTape \/ FlushDone \/ UNCHANGED vars
  BY <1>7 DEF LineInv, EachLineOnce, Released, DrainDone, EndOfTape, FlushDone, vars
<1>8. QED
  BY <1>2, <1>3, <1>4, <1>5, <1>6, <1>7 DEF Step, Drain, Flush

(***************************************************************************)
(* Nothing is lost and nothing is doubled: each line of the tape is        *)
(* refused, held or released, and only one of the three, once.             *)
(***************************************************************************)
THEOREM LinesCorrect == Spec => []EachLineOnce
<1>1. Init => LineInv
  BY DEF Init, LineInv, EachLineOnce, Released
<1>2. TypeOK /\ LineInv /\ [Next]_vars => LineInv'
  BY NextIsStep, LinesKept
<1>3. LineInv => EachLineOnce
  BY DEF LineInv
<1>4. QED
  BY <1>1, <1>2, <1>3, TypeCorrect, PTL DEF Spec

-----------------------------------------------------------------------------
(***************************************************************************)
(* A nonempty set of naturals has a least element.                         *)
(***************************************************************************)
LEMMA LeastNatural ==
  ASSUME NEW T \in SUBSET Nat, T # {}
  PROVE  \E x \in T : \A y \in T : x <= y
<1> DEFINE R == {ss \in Nat \X Nat : ss[1] < ss[2]}
<1>1. OpToRel(<, Nat) = R
  BY DEF OpToRel
<1>2. IsWellFoundedOn(R, Nat)
  BY <1>1, NatLessThanWellFounded
<1>3. PICK x \in T : \A y \in T : ~(<<y, x>> \in R)
  BY <1>2, WFMin
<1>4. ASSUME NEW y \in T PROVE x <= y
  <2>1. x \in Nat /\ y \in Nat
    OBVIOUS
  <2>2. ~(y < x)
    BY <1>3, <2>1 DEF R
  <2>3. QED
    BY <2>1, <2>2
<1>5. QED
  BY <1>4

(***************************************************************************)
(* The heap has a top below any node it holds.                             *)
(***************************************************************************)
LEMMA TopBelow ==
  ASSUME TypeOK, NEW n \in heap
  PROVE  \E m \in Top(heap) : m.event.ts <= n.event.ts
<1> DEFINE T == {m.event.ts : m \in heap}
<1>1. \A m \in heap : m.event.ts \in Nat /\ m.event.seq \in Nat
  BY NodeFields DEF TypeOK
<1>2. PICK t \in T : \A u \in T : t <= u
  <2>1. T \in SUBSET Nat /\ T # {}
    BY <1>1
  <2>2. QED
    BY <2>1, LeastNatural
<1> DEFINE S == {m.event.seq : m \in {k \in heap : k.event.ts = t}}
<1>3. PICK q \in S : \A u \in S : q <= u
  <2>1. S \in SUBSET Nat /\ S # {}
    BY <1>1
  <2>2. QED
    BY <2>1, LeastNatural
<1>4. PICK m \in heap : m.event.ts = t /\ m.event.seq = q
  OBVIOUS
<1>5. ASSUME NEW k \in heap PROVE ~Later(m, k)
  <2>1. k.event.ts \in Nat /\ k.event.seq \in Nat /\ t <= k.event.ts
        /\ t \in Nat /\ q \in Nat
    BY <1>1, <1>2, <1>4
  <2>2. k.event.ts = t => q <= k.event.seq
    BY <1>3
  <2>3. QED
    BY <1>4, <2>1, <2>2 DEF Later
<1>6. m.event.ts <= n.event.ts
  BY <1>2, <1>4
<1>7. QED
  BY <1>4, <1>5, <1>6 DEF Top

(***************************************************************************)
(* After every drain the buffer holds nothing at or below the watermark.   *)
(***************************************************************************)
THEOREM WatermarkCorrect == Spec => []NothingReadyIsHeld
<1>1. Init => NothingReadyIsHeld
  BY DEF Init, NothingReadyIsHeld
<1>2. TypeOK /\ NothingReadyIsHeld /\ [Next]_vars => NothingReadyIsHeld'
  <2> SUFFICES ASSUME TypeOK, NothingReadyIsHeld, [Next]_vars
               PROVE  NothingReadyIsHeld'
    OBVIOUS
  <2>1. ASSUME NEW e \in Event, PushLate(e) \/ PushHeld(e)
        PROVE  NothingReadyIsHeld'
    BY <2>1 DEF NothingReadyIsHeld, PushLate, PushHeld
  <2>2. CASE DrainDone
    <3> SUFFICES ASSUME NEW n \in heap, ~(n.event.ts > max_ts_seen - Tolerance)
                 PROVE  FALSE
      BY <2>2 DEF NothingReadyIsHeld, DrainDone
    <3>1. PICK m \in Top(heap) : m.event.ts <= n.event.ts
      BY TopBelow
    <3>2. m \in heap /\ m.event.ts \in Int /\ n.event.ts \in Int
          /\ max_ts_seen - Tolerance \in Int
      BY NodeFields DEF Top, TypeOK
    <3>3. m \in Ready
      BY <3>1, <3>2 DEF Ready, Watermark
    <3>4. QED
      BY <2>2, <3>3 DEF DrainDone
  <2>3. CASE PopReady \/ PopOverflow \/ PopFlush \/ EndOfTape \/ FlushDone
    BY <2>3 DEF NothingReadyIsHeld, PopReady, PopOverflow, PopFlush, EndOfTape, FlushDone
  <2>4. CASE UNCHANGED vars
    BY <2>4 DEF NothingReadyIsHeld, vars
  <2>5. QED
    BY <2>1, <2>2, <2>3, <2>4 DEF Next, Push, Drain, Flush
<1>3. QED
  BY <1>1, <1>2, TypeCorrect, PTL DEF Spec

-----------------------------------------------------------------------------
\* How early an event may leave.  Before the final flush one that is at or
\* above the newest waits for its tolerance; what has left precedes what is
\* held by timestamp and number both, but for the line just pushed, and that
\* one leaves in the same drain.
Running == phase \in {"idle", "drain"}

CaughtUp == last_released_ts <= Watermark

FullOrCaughtUp ==
  Running /\ out # <<>> => Cardinality(heap) >= Capacity \/ CaughtUp

OnlyNewestBehind ==
  Running =>
    \A i \in DOMAIN out, m \in heap : Later(out[i], m) =>
      /\ phase = "drain" /\ m.line = fed
      /\ Cardinality(heap) > Capacity \/ CaughtUp

NewestIsHeld ==
  Running /\ Tolerance > 0 /\ max_ts_seen # MinTs
    => \E m \in heap : m.event.ts >= max_ts_seen

NothingWaits ==
  Tolerance = 0 =>
    /\ phase = "idle" => heap = {}
    /\ phase = "drain" => \A m \in heap : m.line = fed

EarlyInv ==
  /\ \A n \in heap \cup Released : n.event.ts <= max_ts_seen
  /\ FullOrCaughtUp
  /\ OnlyNewestBehind
  /\ NewestIsHeld
  /\ NothingWaits

LEMMA LaterIsOrder ==
  ASSUME NEW a \in Node, NEW b \in Node, NEW c \in Node
  PROVE  /\ ~Later(a, b) /\ ~Later(b, c) => ~Later(a, c)
         /\ a.event.ts < b.event.ts => ~Later(a, b)
         /\ ~Later(a, b) => a.event.ts <= b.event.ts
BY NodeFields DEF Later

\* A pop takes one node and leaves what was known of the others.
LEMMA PopKeepsEarly ==
  ASSUME TypeOK, SizeInv, EarlyInv, NEW n \in Top(heap), Pop(n)
  PROVE  /\ \A m \in heap' \cup Released' : m.event.ts <= max_ts_seen'
         /\ heap' = heap \ {n} /\ Cardinality(heap') = Cardinality(heap) - 1
         /\ Cardinality(heap) \in Nat
         /\ fed' = fed /\ Watermark' = Watermark /\ last_released_ts' = n.event.ts
         /\ \A i \in DOMAIN out', m \in heap' : Later(out'[i], m) =>
              i \in DOMAIN out /\ out'[i] = out[i]
<1>1. n \in heap /\ \A m \in heap : ~Later(n, m)
  BY DEF Top
<1>2. /\ Released' = Released \cup {n} /\ heap' = heap \ {n} /\ fed' = fed
      /\ DOMAIN out' = DOMAIN out \cup {Len(out) + 1}
      /\ out'[Len(out) + 1] = n
      /\ \A i \in DOMAIN out : out'[i] = out[i]
  BY <1>1, PopMoves
<1>3. max_ts_seen' = max_ts_seen /\ last_released_ts' = n.event.ts
  BY DEF Pop
<1>4. Cardinality(heap') = Cardinality(heap) - 1 /\ Cardinality(heap) \in Nat
  BY <1>1, <1>2, FS_RemoveElement, FS_CardinalityType DEF SizeInv
<1>5. \A m \in heap' \cup Released' : m.event.ts <= max_ts_seen'
  BY <1>1, <1>2, <1>3 DEF EarlyInv
<1>6. \A i \in DOMAIN out', m \in heap' : Later(out'[i], m) =>
        i \in DOMAIN out /\ out'[i] = out[i]
  BY <1>1, <1>2
<1>7. QED
  BY <1>2, <1>3, <1>4, <1>5, <1>6 DEF Watermark

LEMMA PushKeepsEarly ==
  ASSUME TypeOK, SizeInv, LineInv, EarlyInv, NEW e \in Event, PushHeld(e)
  PROVE  EarlyInv'
<1> DEFINE n == [line |-> fed + 1, event |-> e]
<1>1. /\ heap' = heap \cup {n} /\ fed' = fed + 1 /\ phase = "idle" /\ phase' = "drain"
      /\ max_ts_seen' = Max2(max_ts_seen, e.ts) /\ last_released_ts' = last_released_ts
      /\ out' = out /\ Released' = Released
  BY DEF PushHeld, Released
<1>2. /\ e.ts \in Nat /\ max_ts_seen \in Nat \cup {MinTs} /\ fed \in Nat
      /\ last_released_ts \in Nat \cup {MinTs}
      /\ \A m \in heap \cup Released : m.event.ts \in Nat
  BY NodeFields DEF TypeOK, Released
<1>3. n \notin heap /\ n.line = fed + 1 /\ n.event = e
  BY <1>2 DEF LineInv
<1> HIDE DEF n
<1>4. Cardinality(heap') = Cardinality(heap) + 1 /\ Cardinality(heap) \in Nat
  BY <1>1, <1>3, FS_AddElement, FS_CardinalityType DEF SizeInv
<1>5. /\ max_ts_seen' >= max_ts_seen /\ max_ts_seen' >= e.ts /\ Watermark' >= Watermark
      /\ max_ts_seen' = max_ts_seen \/ max_ts_seen' = e.ts
      /\ max_ts_seen' \in Int
  BY <1>1, <1>2 DEF Max2, Watermark
<1>6. \A m \in heap' \cup Released' : m.event.ts <= max_ts_seen'
  BY <1>1, <1>2, <1>3, <1>5 DEF EarlyInv
<1>7. out' # <<>> => Cardinality(heap') > Capacity \/ CaughtUp'
  <2>1. out # <<>> => Cardinality(heap) >= Capacity \/ CaughtUp
    BY <1>1 DEF EarlyInv, FullOrCaughtUp, Running
  <2>2. CaughtUp => CaughtUp'
    BY <1>1, <1>2, <1>5 DEF CaughtUp, Watermark
  <2>3. QED
    BY <1>1, <1>4, <2>1, <2>2
<1>8. FullOrCaughtUp'
  BY <1>4, <1>7, SizeKept DEF FullOrCaughtUp
<1>9. OnlyNewestBehind'
  <2> SUFFICES ASSUME NEW i \in DOMAIN out, NEW m \in heap', Later(out[i], m)
               PROVE  m.line = fed' /\ (Cardinality(heap') > Capacity \/ CaughtUp')
    BY <1>1 DEF OnlyNewestBehind, Later
  <2>1. m = n
    BY <1>1 DEF EarlyInv, OnlyNewestBehind, Running
  <2>2. out # <<>>
    OBVIOUS
  <2>3. QED
    BY <1>1, <1>3, <1>7, <2>1, <2>2
<1>10. NewestIsHeld'
  <2> SUFFICES ASSUME Tolerance > 0 PROVE \E m \in heap' : m.event.ts >= max_ts_seen'
    BY DEF NewestIsHeld
  <2>1. CASE max_ts_seen' = e.ts
    BY <1>1, <1>2, <1>3, <2>1
  <2>2. CASE max_ts_seen' = max_ts_seen /\ max_ts_seen' # e.ts
    <3>1. max_ts_seen # MinTs
      BY <1>2, <1>5, <2>2
    <3>2. PICK m \in heap : m.event.ts >= max_ts_seen
      BY <1>1, <3>1 DEF EarlyInv, NewestIsHeld, Running
    <3>3. QED
      BY <1>1, <2>2, <3>2
  <2>3. QED
    BY <1>5, <2>1, <2>2
<1>11. NothingWaits'
  BY <1>1, <1>3 DEF NothingWaits, EarlyInv
<1>12. QED
  BY <1>6, <1>8, <1>9, <1>10, <1>11 DEF EarlyInv

LEMMA PopReadyKeepsEarly ==
  ASSUME TypeOK, SizeInv, EarlyInv, PopReady
  PROVE  EarlyInv'
<1>1. PICK n \in Ready : Pop(n)
  BY DEF PopReady
<1>2. n \in Top(heap) /\ n \in heap /\ n.event.ts <= Watermark /\ phase = "drain"
      /\ phase' = "drain" /\ max_ts_seen' = max_ts_seen
  BY <1>1 DEF Ready, Top, PopReady, Pop
<1>3. /\ \A m \in heap' \cup Released' : m.event.ts <= max_ts_seen'
      /\ heap' = heap \ {n} /\ fed' = fed /\ Watermark' = Watermark
      /\ last_released_ts' = n.event.ts
      /\ \A i \in DOMAIN out', m \in heap' : Later(out'[i], m) =>
           i \in DOMAIN out /\ out'[i] = out[i]
  BY <1>1, <1>2, PopKeepsEarly
<1>4. CaughtUp'
  BY <1>2, <1>3 DEF CaughtUp, Watermark
<1>5. OnlyNewestBehind'
  <2> SUFFICES ASSUME NEW i \in DOMAIN out', NEW m \in heap', Later(out'[i], m)
               PROVE  m.line = fed'
    BY <1>2, <1>4 DEF OnlyNewestBehind, Later
  <2>1. i \in DOMAIN out /\ Later(out[i], m) /\ m \in heap
    BY <1>3
  <2>2. QED
    BY <1>2, <1>3, <2>1 DEF EarlyInv, OnlyNewestBehind, Running
<1>6. NewestIsHeld'
  <2> SUFFICES ASSUME Tolerance > 0, max_ts_seen # MinTs
               PROVE  \E m \in heap' : m.event.ts >= max_ts_seen'
    BY <1>2 DEF NewestIsHeld
  <2>1. PICK m \in heap : m.event.ts >= max_ts_seen
    BY <1>2 DEF EarlyInv, NewestIsHeld, Running
  <2>2. n.event.ts < max_ts_seen /\ n.event.ts \in Nat /\ m.event.ts \in Nat
    BY <1>2, NodeFields DEF TypeOK, Watermark
  <2>3. m # n
    BY <2>1, <2>2 DEF TypeOK
  <2>4. QED
    BY <1>2, <1>3, <2>1, <2>3
<1>7. NothingWaits'
  BY <1>2, <1>3 DEF EarlyInv, NothingWaits
<1>8. QED
  BY <1>2, <1>3, <1>4, <1>5, <1>6, <1>7 DEF EarlyInv, FullOrCaughtUp

LEMMA PopOverflowKeepsEarly ==
  ASSUME TypeOK, SizeInv, LineInv, EarlyInv, PopOverflow
  PROVE  EarlyInv'
<1>1. PICK n \in Top(heap) : Pop(n)
  BY DEF PopOverflow
<1>2. n \in heap /\ (\A m \in heap : ~Later(n, m)) /\ phase = "drain"
      /\ phase' = "drain" /\ max_ts_seen' = max_ts_seen /\ Cardinality(heap) > Capacity
  BY <1>1 DEF Top, PopOverflow, Pop, OverCapacity
<1>3. /\ \A m \in heap' \cup Released' : m.event.ts <= max_ts_seen'
      /\ heap' = heap \ {n} /\ fed' = fed /\ Watermark' = Watermark
      /\ Cardinality(heap') = Cardinality(heap) - 1 /\ Cardinality(heap) \in Nat
      /\ \A i \in DOMAIN out', m \in heap' : Later(out'[i], m) =>
           i \in DOMAIN out /\ out'[i] = out[i]
  BY <1>1, PopKeepsEarly
<1>4. FullOrCaughtUp'
  BY <1>2, <1>3 DEF FullOrCaughtUp
<1>5. OnlyNewestBehind'
  <2> SUFFICES ASSUME NEW i \in DOMAIN out', NEW m \in heap', Later(out'[i], m)
               PROVE  FALSE
    BY DEF OnlyNewestBehind, Later
  <2>1. i \in DOMAIN out /\ Later(out[i], m) /\ m \in heap /\ m # n
    BY <1>3
  <2>2. out[i] \in Node /\ m \in Node /\ n \in Node
    BY <1>2, <2>1 DEF TypeOK
  <2>3. Later(out[i], n)
    BY <1>2, <2>1, <2>2, LaterIsOrder
  <2>4. n.line = fed /\ m.line = fed
    BY <1>2, <2>1, <2>3 DEF EarlyInv, OnlyNewestBehind, Running
  <2>5. QED
    BY <1>2, <2>1, <2>4 DEF LineInv, EachLineOnce
<1>6. NewestIsHeld'
  <2> SUFFICES ASSUME Tolerance > 0, max_ts_seen # MinTs
               PROVE  \E m \in heap' : m.event.ts >= max_ts_seen'
    BY <1>2 DEF NewestIsHeld
  <2>1. PICK m \in heap : m.event.ts >= max_ts_seen
    BY <1>2 DEF EarlyInv, NewestIsHeld, Running
  <2>2. PICK k \in heap : k # n
    <3>1. Cardinality({n}) = 1
      BY FS_Singleton
    <3>2. ~(1 > Capacity)
      OBVIOUS
    <3>3. heap # {n}
      BY <1>2, <3>1, <3>2
    <3>4. QED
      BY <1>2, <3>3
  <2>3. n.event.ts <= k.event.ts /\ n.event.ts \in Nat /\ k.event.ts \in Nat
    BY <1>2, LaterIsOrder, NodeFields DEF TypeOK
  <2>4. CASE m = n
    BY <1>2, <1>3, <2>1, <2>2, <2>3, <2>4 DEF TypeOK
  <2>5. CASE m # n
    BY <1>2, <1>3, <2>1, <2>5
  <2>6. QED
    BY <2>4, <2>5
<1>7. NothingWaits'
  BY <1>2, <1>3 DEF EarlyInv, NothingWaits
<1>8. QED
  BY <1>3, <1>4, <1>5, <1>6, <1>7 DEF EarlyInv

LEMMA DrainDoneKeepsEarly ==
  ASSUME TypeOK, SizeInv, OrderInv, EarlyInv, DrainDone
  PROVE  EarlyInv'
<1>1. /\ heap' = heap /\ out' = out /\ fed' = fed /\ max_ts_seen' = max_ts_seen
      /\ last_released_ts' = last_released_ts /\ Released' = Released
      /\ phase = "drain" /\ phase' = "idle" /\ ~(Cardinality(heap) > Capacity)
  BY DEF DrainDone, OverCapacity, Released
<1>2. ASSUME NEW m \in heap, m.event.ts <= Watermark PROVE FALSE
  <2>1. PICK t \in Top(heap) : t.event.ts <= m.event.ts
    BY TopBelow
  <2>2. t \in heap /\ t.event.ts \in Nat /\ m.event.ts \in Nat /\ Watermark \in Int
    BY NodeFields DEF Top, TypeOK, Watermark
  <2>3. t \in Ready
    BY <1>2, <2>1, <2>2 DEF Ready
  <2>4. QED
    BY <2>3 DEF DrainDone
<1>3. OnlyNewestBehind'
  <2> SUFFICES ASSUME NEW i \in DOMAIN out, NEW m \in heap, Later(out[i], m)
               PROVE  FALSE
    BY <1>1 DEF OnlyNewestBehind, Later
  <2>1. CaughtUp
    BY <1>1 DEF EarlyInv, OnlyNewestBehind, Running
  <2>2. /\ out[i].event.ts \in Nat /\ m.event.ts \in Nat /\ Watermark \in Int
        /\ out[i].event.ts <= last_released_ts /\ last_released_ts <= m.event.ts
    BY NodeFields DEF TypeOK, OrderInv, Watermark
  <2>3. m.event.ts <= Watermark
    BY <2>1, <2>2 DEF CaughtUp, Later, TypeOK
  <2>4. QED
    BY <1>2, <2>3
<1>4. NothingWaits'
  <2>1. ASSUME Tolerance = 0, NEW m \in heap PROVE FALSE
    BY <1>2, <2>1 DEF EarlyInv, Watermark, TypeOK
  <2>2. QED
    BY <1>1, <2>1 DEF NothingWaits
<1>5. QED
  BY <1>1, <1>3, <1>4
     DEF EarlyInv, FullOrCaughtUp, NewestIsHeld, Running, CaughtUp, Watermark

LEMMA EarlyKept ==
  ASSUME TypeOK, OrderInv, SizeInv, LineInv, EarlyInv, Step
  PROVE  EarlyInv'
<1>1. ASSUME NEW e \in Event, PushLate(e) PROVE EarlyInv'
  BY <1>1 DEF PushLate, EarlyInv, FullOrCaughtUp, OnlyNewestBehind, NewestIsHeld,
              NothingWaits, Running, CaughtUp, Watermark, Released
<1>2. CASE Flush
  <2>1. phase = "flush" /\ ~Running'
    BY <1>2 DEF Flush, PopFlush, FlushDone, Running
  <2>2. \A m \in heap' \cup Released' : m.event.ts <= max_ts_seen'
    <3>1. CASE PopFlush
      BY <3>1, PopKeepsEarly DEF PopFlush
    <3>2. CASE FlushDone
      BY <3>2 DEF FlushDone, EarlyInv, Released
    <3>3. QED
      BY <1>2, <3>1, <3>2 DEF Flush
  <2>3. QED
    BY <2>1, <2>2 DEF EarlyInv, FullOrCaughtUp, OnlyNewestBehind, NewestIsHeld,
                      NothingWaits, Running
<1>3. CASE EndOfTape
  BY <1>3 DEF EndOfTape, EarlyInv, FullOrCaughtUp, OnlyNewestBehind, NewestIsHeld,
              NothingWaits, Running, Released
<1>4. CASE UNCHANGED vars
  BY <1>4 DEF vars, EarlyInv, FullOrCaughtUp, OnlyNewestBehind, NewestIsHeld,
              NothingWaits, Running, CaughtUp, Watermark, Released
<1>5. QED
  BY <1>1, <1>2, <1>3, <1>4, PushKeepsEarly, PopReadyKeepsEarly, PopOverflowKeepsEarly,
     DrainDoneKeepsEarly DEF Step, Drain
=============================================================================
