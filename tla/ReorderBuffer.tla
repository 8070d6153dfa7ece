---------------------------- MODULE ReorderBuffer ----------------------------
(***************************************************************************)
(* The reorder buffer in front of the surveillance engine: class           *)
(* ReorderBuffer of feed_integrity.hpp / feed_integrity.cpp, driven the    *)
(* way Pipeline::feed_line and Pipeline::finish drive it.                  *)
(*                                                                         *)
(* A line that parses is pushed; when it is accepted, drain_ready moves    *)
(* every event at or below the watermark max_ts_seen - tolerance into the  *)
(* caller's vector, earliest first, and then releases early while the heap *)
(* is over capacity.  At the end of the tape flush releases the rest.      *)
(*                                                                         *)
(* The loops of drain_ready and flush are modelled pop by pop; `phase` is  *)
(* where the single thread stands, so nothing is pushed during a drain.    *)
(***************************************************************************)
EXTENDS Integers, Sequences, FiniteSets

CONSTANTS
  Event,       \* market events: records with at least the fields ts and seq
  Tolerance,   \* tolerance_, in ticks of tape time
  Capacity,    \* capacity_
  MaxLines     \* bound: how many lines the tape has at most

ASSUME EventAssumption ==
  \A e \in Event : e.ts \in Nat /\ e.seq \in Nat
ASSUME ToleranceAssumption == Tolerance \in Nat
ASSUME CapacityAssumption == Capacity \in Nat \ {0}
ASSUME MaxLinesAssumption == MaxLines \in Nat

VARIABLES
  heap,               \* heap_: the nodes held back
  max_ts_seen,        \* max_ts_seen_
  last_released_ts,   \* last_released_ts_
  recovered,          \* recovered_: lines that arrived out of timestamp order
  overflow_releases,  \* overflow_releases_: pops forced by the capacity
  out,                \* everything released to the caller so far, in order
  refused,            \* the nodes push returned false for
  fed,                \* lines pushed so far
  phase               \* "idle", "drain", "flush" or "done"

vars == <<heap, max_ts_seen, last_released_ts, recovered, overflow_releases,
          out, refused, fed, phase>>

\* INT64_MIN, the initial value of both timestamps: below every event.
MinTs == -1

\* A heap node.  The heap is a multiset (a tape may hold the same line twice);
\* the arrival number tells equal events apart.
Node == [line : Nat, event : Event]

Max2(a, b) == IF a >= b THEN a ELSE b

Later(a, b) ==
  \/ a.event.ts > b.event.ts
  \/ a.event.ts = b.event.ts /\ a.event.seq > b.event.seq

\* What std::pop_heap may yield: equal (ts, seq) pairs come out in any order.
Top(h) == {n \in h : \A m \in h : ~Later(n, m)}

Watermark == max_ts_seen - Tolerance

Ready == {n \in Top(heap) : n.event.ts <= Watermark}

-----------------------------------------------------------------------------
Init ==
  /\ heap = {}
  /\ max_ts_seen = MinTs
  /\ last_released_ts = MinTs
  /\ recovered = 0
  /\ overflow_releases = 0
  /\ out = <<>>
  /\ refused = {}
  /\ fed = 0
  /\ phase = "idle"

Late(e) == e.ts < last_released_ts

\* push returns false: the caller counts the line as reordered_dropped and
\* returns without draining.
PushLate(e) ==
  /\ phase = "idle"
  /\ Late(e)
  /\ fed' = fed + 1
  /\ refused' = refused \cup {[line |-> fed + 1, event |-> e]}
  /\ UNCHANGED <<heap, max_ts_seen, last_released_ts, recovered,
                 overflow_releases, out, phase>>

PushHeld(e) ==
  /\ phase = "idle"
  /\ ~Late(e)
  /\ fed' = fed + 1
  /\ heap' = heap \cup {[line |-> fed + 1, event |-> e]}
  /\ recovered' = recovered + (IF e.ts < max_ts_seen THEN 1 ELSE 0)
  /\ max_ts_seen' = Max2(max_ts_seen, e.ts)
  /\ phase' = "drain"
  /\ UNCHANGED <<last_released_ts, overflow_releases, out, refused>>

\* Mutant of Pop: the released node is left on the heap.
PopKeeps(n) ==
  /\ heap' = heap
  /\ last_released_ts' = n.event.ts
  /\ out' = Append(out, n)
  /\ UNCHANGED <<max_ts_seen, recovered, refused, fed>>

\* Mutant of Pop: the watermark is recorded in place of the timestamp released.
PopRecordsWatermark(n) ==
  /\ heap' = heap \ {n}
  /\ last_released_ts' = Watermark
  /\ out' = Append(out, n)
  /\ UNCHANGED <<max_ts_seen, recovered, refused, fed>>

\* Mutant of Pop: last_released_ts is not brought up to date.
PopForgets(n) ==
  /\ heap' = heap \ {n}
  /\ last_released_ts' = last_released_ts
  /\ out' = Append(out, n)
  /\ UNCHANGED <<max_ts_seen, recovered, refused, fed>>

\* pop_top: the caller's vector grows by the node taken off the heap.
Pop(n) ==
  /\ heap' = heap \ {n}
  /\ last_released_ts' = n.event.ts
  /\ out' = Append(out, n)
  /\ UNCHANGED <<max_ts_seen, recovered, refused, fed>>

\* First loop of drain_ready.
PopReady ==
  /\ phase = "drain"
  /\ \E n \in Ready : Pop(n)
  /\ UNCHANGED <<overflow_releases, phase>>

\* Mutant of OverCapacity: the capacity treated as a hint.
OverCapacityNever == FALSE

OverCapacity == Cardinality(heap) > Capacity

\* Mutant of PopOverflow: the early release is not counted.
PopOverflowUncounted ==
  /\ phase = "drain"
  /\ Ready = {}
  /\ OverCapacity
  /\ \E n \in Top(heap) : Pop(n)
  /\ UNCHANGED <<overflow_releases, phase>>

\* Second loop of drain_ready: the capacity is a hard wall.
PopOverflow ==
  /\ phase = "drain"
  /\ Ready = {}
  /\ OverCapacity
  /\ \E n \in Top(heap) : Pop(n)
  /\ overflow_releases' = overflow_releases + 1
  /\ UNCHANGED phase

DrainDone ==
  /\ phase = "drain"
  /\ Ready = {}
  /\ ~OverCapacity
  /\ phase' = "idle"
  /\ UNCHANGED <<heap, max_ts_seen, last_released_ts, recovered,
                 overflow_releases, out, refused, fed>>

\* The reader met the end of the tape and called Pipeline::finish.
EndOfTape ==
  /\ phase = "idle"
  /\ phase' = "flush"
  /\ UNCHANGED <<heap, max_ts_seen, last_released_ts, recovered,
                 overflow_releases, out, refused, fed>>

PopFlush ==
  /\ phase = "flush"
  /\ \E n \in Top(heap) : Pop(n)
  /\ UNCHANGED <<overflow_releases, phase>>

\* Mutant of FlushDone: flush stops after the first pop.
FlushDoneEarly ==
  /\ phase = "flush"
  /\ phase' = "done"
  /\ UNCHANGED <<heap, max_ts_seen, last_released_ts, recovered,
                 overflow_releases, out, refused, fed>>

FlushDone ==
  /\ phase = "flush"
  /\ heap = {}
  /\ phase' = "done"
  /\ UNCHANGED <<heap, max_ts_seen, last_released_ts, recovered,
                 overflow_releases, out, refused, fed>>

Push(e) == fed < MaxLines /\ (PushLate(e) \/ PushHeld(e))

Drain == PopReady \/ PopOverflow \/ DrainDone

Flush == PopFlush \/ FlushDone

Next ==
  \/ \E e \in Event : Push(e)
  \/ Drain
  \/ EndOfTape
  \/ Flush

Spec == Init /\ [][Next]_vars

\* The program is one thread that reads the tape to its end: it never stops
\* while it has a step to take, and the tape is finite.
FairSpec == Spec /\ WF_vars(Next)

-----------------------------------------------------------------------------
TypeOK ==
  /\ heap \in SUBSET Node
  /\ max_ts_seen \in Nat \cup {MinTs}
  /\ last_released_ts \in Nat \cup {MinTs}
  /\ recovered \in Nat
  /\ overflow_releases \in Nat
  /\ out \in Seq(Node)
  /\ refused \in SUBSET Node
  /\ fed \in Nat
  /\ phase \in {"idle", "drain", "flush", "done"}

Released == {out[i] : i \in DOMAIN out}

(***************************************************************************)
(* The events leave the buffer in timestamp order, whatever the order they *)
(* arrived in, across drains, early releases and the final flush           *)
(* (feed_integrity.hpp:60, "Releases events in timestamp order").  Every   *)
(* binary search of ring.hpp rests on it.                                  *)
(***************************************************************************)
ReleasedInOrder ==
  \A i, j \in DOMAIN out : i < j => out[i].event.ts <= out[j].event.ts

(***************************************************************************)
(* Every line ends up in exactly one place, once: refused, still held, or  *)
(* released at one position of the output.                                 *)
(***************************************************************************)
EachLineOnce ==
  /\ \A l \in 1 .. fed : \E n \in heap \cup refused \cup Released : n.line = l
  /\ \A n, m \in heap \cup refused \cup Released : n.line = m.line => n = m
  /\ heap \cap refused = {}
  /\ (heap \cup refused) \cap Released = {}
  /\ \A i, j \in DOMAIN out : out[i] = out[j] => i = j

(***************************************************************************)
(* Memory stays bounded: between calls the buffer holds at most `capacity` *)
(* events, and one more while it drains.                                   *)
(***************************************************************************)
Bounded ==
  /\ Cardinality(heap) <= Capacity + 1
  /\ phase = "idle" => Cardinality(heap) <= Capacity

(***************************************************************************)
(* While the capacity has forced nothing out, no event inside the          *)
(* tolerance is lost: a line is refused only when its timestamp lies more  *)
(* than `tolerance` behind the newest one (feed_integrity.hpp:18-22).      *)
(***************************************************************************)
ToleranceHonoured ==
  [][refused' # refused /\ overflow_releases = 0 =>
       \A n \in refused' \ refused : n.event.ts < max_ts_seen - Tolerance]_vars

(***************************************************************************)
(* An event is held back only while it could still be overtaken: between   *)
(* calls nothing at or below the watermark remains in the buffer, so an    *)
(* event waits at most `tolerance` of tape time for its release.           *)
(***************************************************************************)
NothingReadyIsHeld ==
  phase = "idle" => \A n \in heap : n.event.ts > max_ts_seen - Tolerance

(***************************************************************************)
(* Nothing accepted is forgotten: every event held in the buffer is        *)
(* released before the run ends.                                           *)
(***************************************************************************)
HeldIsReleased ==
  \A l \in 1 .. MaxLines :
    (\E n \in heap : n.line = l) ~> (\E n \in Released : n.line = l)
=============================================================================
