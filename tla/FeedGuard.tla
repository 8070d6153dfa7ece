------------------------------ MODULE FeedGuard ------------------------------
(***************************************************************************)
(* Class FeedGuard of feed_integrity.hpp / feed_integrity.cpp: it judges   *)
(* each event the reorder buffer releases, in timestamp order.  A repeated *)
(* event id is dropped; a jump or a step back of the sequence number marks *)
(* the feed as degraded for DegradeNs of tape time; everything is counted. *)
(***************************************************************************)
EXTENDS Integers, Sequences, FiniteSets

CONSTANTS
  Event,          \* market events: records with the fields ts, seq and eid
  DegradeNs,      \* degrade_ns_
  DedupCapacity,  \* dedup_capacity_
  MaxEvents       \* bound: how many events the guard is shown

ASSUME GuardEventAssumption ==
  \A e \in Event : e.ts \in Nat /\ e.seq \in Nat
ASSUME DegradeAssumption == DegradeNs \in Nat
ASSUME DedupAssumption == DedupCapacity \in Nat \ {0}
ASSUME MaxEventsAssumption == MaxEvents \in Nat

VARIABLES
  seen,                 \* seen_: the ids remembered
  seen_order,           \* seen_order_: the same ids, oldest first
  have_last, last_seq,  \* have_last_, last_seq_
  degraded_until,       \* degraded_until_
  stats,                \* the FeedStats counters the guard keeps
  admitted,             \* history: the events accepted, in order
  anomalies,            \* history: the timestamps at which the feed was tainted
  last_ts               \* the timestamp of the last event shown to the guard

guardVars == <<seen, seen_order, have_last, last_seq, degraded_until, stats,
               admitted, anomalies, last_ts>>

NoTs == -1   \* INT64_MIN: below every timestamp

\* The counters of FeedStats that admit() moves.
Stats == [events_admitted : Nat, duplicate_event_ids : Nat, sequence_gaps : Nat,
          sequence_missing : Nat, sequence_backward : Nat, degraded_events : Nat]

-----------------------------------------------------------------------------
GuardInit ==
  /\ seen = {}
  /\ seen_order = <<>>
  /\ have_last = FALSE
  /\ last_seq = 0
  /\ degraded_until = NoTs
  /\ stats = [events_admitted |-> 0, duplicate_event_ids |-> 0, sequence_gaps |-> 0,
              sequence_missing |-> 0, sequence_backward |-> 0, degraded_events |-> 0]
  /\ admitted = <<>>
  /\ anomalies = {}
  /\ last_ts = NoTs

\* taint(): the mark only ever moves forward.
Taint(now) ==
  IF now + DegradeNs >= degraded_until THEN now + DegradeNs ELSE degraded_until

IsDuplicate(e) == e.eid \in seen

\* Mutant of Drop: a duplicate is dropped without tainting the feed.
DropUntainted(e) ==
  /\ IsDuplicate(e)
  /\ stats' = [stats EXCEPT !.duplicate_event_ids = @ + 1]
  /\ anomalies' = anomalies \cup {e.ts}
  /\ last_ts' = e.ts
  /\ UNCHANGED <<seen, seen_order, have_last, last_seq, admitted, degraded_until>>

\* Verdict::DropDuplicate.
Drop(e) ==
  /\ IsDuplicate(e)
  /\ stats' = [stats EXCEPT !.duplicate_event_ids = @ + 1]
  /\ degraded_until' = Taint(e.ts)
  /\ anomalies' = anomalies \cup {e.ts}
  /\ last_ts' = e.ts
  /\ UNCHANGED <<seen, seen_order, have_last, last_seq, admitted>>

\* Mutant of Remember: the id evicted is the newest, not the oldest.
RememberEvictsNewest(e) ==
  LET full == Len(seen_order) >= DedupCapacity IN
  /\ seen_order' = IF full THEN seen_order ELSE Append(seen_order, e.eid)
  /\ seen' = IF full THEN seen ELSE seen \cup {e.eid}

\* The id joins the bounded memory; the oldest leaves when it is over full.
Remember(e) ==
  LET longer == Append(seen_order, e.eid)
      full   == Len(longer) > DedupCapacity IN
  /\ seen_order' = IF full THEN Tail(longer) ELSE longer
  /\ seen' = IF full THEN (seen \cup {e.eid}) \ {Head(longer)}
                     ELSE seen \cup {e.eid}

\* Mutant of IsGap: off by one, a gap of a single event goes unnoticed.
IsGapOffByOne(e) == have_last /\ e.seq > last_seq + 2

\* Mutant of IsGap: any number but the next one passes for a gap.
IsGapEither(e) == have_last /\ e.seq # last_seq + 1

IsGap(e) == have_last /\ e.seq > last_seq + 1

\* Mutant of IsBackward: a repeated sequence number passes for progress.
IsBackwardStrict(e) == have_last /\ e.seq < last_seq

IsBackward(e) == have_last /\ e.seq <= last_seq

\* Verdict::Accept: counters and taint first, then the degraded test.
Accept(e) ==
  /\ ~IsDuplicate(e)
  /\ Remember(e)
  /\ degraded_until' =
       IF IsGap(e) \/ IsBackward(e) THEN Taint(e.ts) ELSE degraded_until
  /\ anomalies' = anomalies \cup (IF IsGap(e) \/ IsBackward(e) THEN {e.ts} ELSE {})
  /\ stats' =
       [events_admitted     |-> stats.events_admitted + 1,
        duplicate_event_ids |-> stats.duplicate_event_ids,
        sequence_gaps       |-> stats.sequence_gaps + (IF IsGap(e) THEN 1 ELSE 0),
        sequence_missing    |-> stats.sequence_missing
                                  + (IF IsGap(e) THEN e.seq - last_seq - 1 ELSE 0),
        sequence_backward   |-> stats.sequence_backward + (IF IsBackward(e) THEN 1 ELSE 0),
        degraded_events     |-> stats.degraded_events
                                  + (IF e.ts < degraded_until' THEN 1 ELSE 0)]
  /\ have_last' = TRUE
  /\ last_seq' = IF e.seq >= last_seq THEN e.seq ELSE last_seq
  /\ admitted' = Append(admitted, e)
  /\ last_ts' = e.ts

Admit(e) == Drop(e) \/ Accept(e)

\* The stream is timestamp-ordered and, for the model, of bounded length.
GuardNext ==
  \E e \in Event :
    /\ last_ts <= e.ts
    /\ stats.events_admitted + stats.duplicate_event_ids < MaxEvents
    /\ Admit(e)

GuardSpec == GuardInit /\ [][GuardNext]_guardVars

-----------------------------------------------------------------------------
GuardTypeOK ==
  /\ seen_order \in Seq({e.eid : e \in Event})
  /\ seen \in SUBSET {e.eid : e \in Event}
  /\ have_last \in BOOLEAN
  /\ last_seq \in Nat
  /\ degraded_until \in Nat \cup {NoTs}
  /\ stats \in Stats
  /\ admitted \in Seq(Event)
  /\ anomalies \in SUBSET Nat
  /\ last_ts \in Nat \cup {NoTs}

(***************************************************************************)
(* The memory of ids is bounded and exact: the set and the queue hold the  *)
(* same ids, and they are those of the last DedupCapacity events admitted. *)
(***************************************************************************)
RemembersTheLatest ==
  LET n == Len(seen_order)
      d == Len(admitted) - n IN
  /\ n = IF Len(admitted) < DedupCapacity THEN Len(admitted) ELSE DedupCapacity
  /\ \A k \in 1 .. n : seen_order[k] = admitted[d + k].eid
  /\ seen = {seen_order[k] : k \in 1 .. n}

(***************************************************************************)
(* An event is applied twice only when more than DedupCapacity admissions  *)
(* lie between: within the horizon a duplicated print is never counted     *)
(* double (feed_integrity.hpp:14-17).                                      *)
(***************************************************************************)
NoDuplicateInHorizon ==
  \A i, j \in 1 .. Len(admitted) :
    i < j /\ admitted[i].eid = admitted[j].eid => j - i > DedupCapacity

(***************************************************************************)
(* The counters account for the whole sequence: what was admitted in       *)
(* sequence, plus what is reported missing, spans first to last.           *)
(***************************************************************************)
SequenceAccounted ==
  have_last =>
    stats.events_admitted - stats.sequence_backward + stats.sequence_missing
      = last_seq - admitted[1].seq + 1

(***************************************************************************)
(* An event counts as degraded exactly when a gap, a duplicate or a step   *)
(* back was met less than DegradeNs before it, itself included.            *)
(***************************************************************************)
DegradedExactly ==
  [][stats'.events_admitted # stats.events_admitted =>
       ( stats'.degraded_events # stats.degraded_events
           <=> \E a \in anomalies' : last_ts' < a + DegradeNs )]_guardVars
=============================================================================
