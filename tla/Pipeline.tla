------------------------------ MODULE Pipeline ------------------------------
(***************************************************************************)
(* class Pipeline behind the reorder buffer: Pipeline::apply, the scan     *)
(* clock, the alert sink with its cooldown, and the marking of alerts that *)
(* were raised over damaged data.                                          *)
(*                                                                         *)
(* Events come in timestamp order and pass the feed guard.  Before an      *)
(* event is applied, the scans due at or before its timestamp are run; a   *)
(* scan lets every detector raise alerts about what was applied so far.    *)
(*                                                                         *)
(* A detector is what its contract says it is (detector.hpp:130-134): it   *)
(* judges the events whose turn falls in (from, to], some fixed delay      *)
(* after their timestamp, and it may raise an alert about any of them or   *)
(* stay silent.  Scores are left out, the books and windows too.           *)
(***************************************************************************)
EXTENDS FeedGuard

CONSTANTS
  Detector,      \* the enabled detectors
  Delay,         \* per detector: how long after an event it is judged
  Cooldown,      \* per detector: cooldown_ns
  Participant,   \* whom an alert is about (or which pair)
  ScanInterval,  \* scan_interval_ns
  History        \* history_ns_

ASSUME DelayAssumption == Delay \in [Detector -> Nat]
ASSUME CooldownAssumption == Cooldown \in [Detector -> Nat]
ASSUME ScanIntervalAssumption == ScanInterval \in Nat \ {0}
\* What required_history guarantees.
ASSUME HistoryAssumption ==
  /\ History \in Nat
  /\ \A d \in Detector : Delay[d] + 2 * ScanInterval <= History

VARIABLES
  started,        \* started_
  now,            \* now_
  next_scan,      \* next_scan_
  damage,         \* damage_: timestamps of gaps and sequence disagreements
  cooldown,       \* cooldown_: the last alert per key
  alerts,         \* what the writer was given, in order
  suppressed,     \* alerts_suppressed_cooldown
  ctx_degraded,   \* SymbolContext::degraded, per symbol
  applied,        \* history: the events applied to books and windows
  pending,        \* the event inside apply(), while the scans due before it run
  stage,          \* "feed", "scan", "final" or "done"
  raised,         \* the keys the running scan has already raised
  judged          \* history: which detector has judged which applied event

pipeVars == <<started, now, next_scan, damage, cooldown, alerts, suppressed,
              ctx_degraded, applied, pending, stage, raised, judged>>

Symbol == {e.sym : e \in Event}
Key == [detector : Detector, participant : Participant, sym : Symbol]

NoEvent == [sym |-> "none"]

-----------------------------------------------------------------------------
PipeInit ==
  /\ GuardInit
  /\ started = FALSE
  /\ now = 0
  /\ next_scan = 0
  /\ damage = <<>>
  /\ cooldown = [k \in {} |-> 0]
  /\ alerts = <<>>
  /\ suppressed = 0
  /\ ctx_degraded = [s \in Symbol |-> FALSE]
  /\ applied = <<>>
  /\ pending = NoEvent
  /\ stage = "feed"
  /\ raised = {}
  /\ judged = {}

Timely(e) ==
  /\ stage = "feed"
  /\ last_ts <= e.ts
  /\ stats.events_admitted + stats.duplicate_event_ids < MaxEvents

\* apply() returns at once: the guard recognised a duplicate.
ApplyDuplicate(e) ==
  /\ Timely(e)
  /\ Drop(e)
  /\ UNCHANGED pipeVars

\* Damage is recorded when the guard moved its mark; from the front of the
\* queue, what no window can reach any more is forgotten.
Recorded(ts) ==
  LET longer == Append(damage, ts)
      OutOfReach(i) == longer[i] < ts - History - DegradeNs
      front == CHOOSE i \in 1 .. Len(longer) :
                 ~OutOfReach(i) /\ \A j \in 1 .. i - 1 : OutOfReach(j)
  IN SubSeq(longer, front, Len(longer))

\* apply() up to the scans.
ApplyAccepted(e) ==
  /\ Timely(e)
  /\ Accept(e)
  /\ damage' = IF degraded_until' # degraded_until THEN Recorded(e.ts) ELSE damage
  /\ started' = TRUE
  /\ next_scan' = IF started THEN next_scan ELSE e.ts + ScanInterval
  /\ pending' = e
  /\ stage' = "scan"
  /\ UNCHANGED <<now, cooldown, alerts, suppressed, ctx_degraded, applied,
                 raised, judged>>

\* Mutant of ScanDue: the last pass stops at the last event.
ScanDueNoLookahead ==
  \/ stage = "scan" /\ pending.ts >= next_scan
  \/ stage = "final" /\ started /\ next_scan <= now

\* The loop of advance_scans, before an event and at the end of the tape.
ScanDue ==
  \/ stage = "scan" /\ pending.ts >= next_scan
  \/ stage = "final" /\ started /\ next_scan <= now + History

ScanFrom == next_scan - ScanInterval

\* Mutant of Judges: the slice is closed at both ends.
JudgesClosed(d, i) ==
  ScanFrom <= applied[i].ts + Delay[d] /\ applied[i].ts + Delay[d] <= next_scan

\* Whether detector d judges the event at position i in the running scan: the
\* contract of detector.hpp:130-134.  (Wash trading goes through its whole window
\* once something newer has printed; see WashTrading.)
Judges(d, i) == ScanFrom < applied[i].ts + Delay[d] /\ applied[i].ts + Delay[d] <= next_scan

\* Mutant of CooldownBlocks: the cooldown is never looked up.
CooldownBlocksNever(k) == FALSE

CooldownBlocks(k) ==
  /\ Cooldown[k.detector] > 0
  /\ k \in DOMAIN cooldown
  /\ next_scan - cooldown[k] < Cooldown[k.detector]

\* Mutant of OverlapsDamage: any damage on record marks the alert.
OverlapsDamageAnywhere(start_ts, end_ts) == damage # <<>>

OverlapsDamage(start_ts, end_ts) ==
  \E i \in 1 .. Len(damage) :
    start_ts - DegradeNs <= damage[i] /\ damage[i] <= end_ts + DegradeNs

\* Sink::emit for an alert under key k about the events from start to end.
Emit(k, start_ts, end_ts) ==
  IF CooldownBlocks(k)
    THEN /\ suppressed' = suppressed + 1
         /\ UNCHANGED <<cooldown, alerts>>
    ELSE /\ cooldown' = IF Cooldown[k.detector] = 0 THEN cooldown ELSE
                        [x \in DOMAIN cooldown \cup {k} |->
                           IF x = k THEN next_scan ELSE cooldown[x]]
         /\ alerts' = Append(alerts, [key       |-> k,
                                      start_ts  |-> start_ts,
                                      end_ts    |-> end_ts,
                                      detect_ts |-> next_scan,
                                      degraded  |-> OverlapsDamage(start_ts, end_ts)])
         /\ UNCHANGED suppressed

\* A detector raises an alert: it is anchored on an event of the symbol whose
\* turn has come and spans events applied before and around it.
Raise ==
  /\ ScanDue
  /\ \E k \in Key \ raised, i, j, l \in 1 .. Len(applied) :
       /\ Judges(k.detector, l)
       /\ \A n \in {i, j, l} : applied[n].sym = k.sym
       /\ i <= l /\ l <= j
       /\ Emit(k, applied[i].ts, applied[j].ts)
       /\ raised' = raised \cup {k}
  /\ UNCHANGED <<started, now, next_scan, damage, ctx_degraded, applied, pending,
                 stage, judged, guardVars>>

\* Every detector has scanned every symbol: the clock moves on.
ScanEnd ==
  /\ ScanDue
  /\ judged' = judged \cup {t \in Detector \X (1 .. Len(applied)) : Judges(t[1], t[2])}
  /\ next_scan' = next_scan + ScanInterval
  /\ raised' = {}
  /\ UNCHANGED <<started, now, damage, cooldown, alerts, suppressed, ctx_degraded,
                 applied, pending, stage, guardVars>>

\* Mutant of Settle: the event is applied before the scans that are due.
SettleFirst ==
  /\ stage = "scan"
  /\ now' = pending.ts
  /\ ctx_degraded' = [ctx_degraded EXCEPT ![pending.sym] = pending.ts < degraded_until]
  /\ applied' = Append(applied, pending)
  /\ pending' = NoEvent
  /\ stage' = "feed"
  /\ UNCHANGED <<started, next_scan, damage, cooldown, alerts, suppressed, raised,
                 judged, guardVars>>

\* apply() after the scans: the event reaches its symbol's book and windows.
Settle ==
  /\ stage = "scan"
  /\ ~ScanDue
  /\ now' = pending.ts
  /\ ctx_degraded' = [ctx_degraded EXCEPT ![pending.sym] = pending.ts < degraded_until]
  /\ applied' = Append(applied, pending)
  /\ pending' = NoEvent
  /\ stage' = "feed"
  /\ UNCHANGED <<started, next_scan, damage, cooldown, alerts, suppressed, raised,
                 judged, guardVars>>

\* finish(), once the flushed events are applied: one last pass, far ahead.
Finish ==
  /\ stage = "feed"
  /\ stage' = "final"
  /\ UNCHANGED <<started, now, next_scan, damage, cooldown, alerts, suppressed,
                 ctx_degraded, applied, pending, raised, judged, guardVars>>

Finished ==
  /\ stage = "final"
  /\ ~ScanDue
  /\ stage' = "done"
  /\ UNCHANGED <<started, now, next_scan, damage, cooldown, alerts, suppressed,
                 ctx_degraded, applied, pending, raised, judged, guardVars>>

PipeNext ==
  \/ \E e \in Event : ApplyDuplicate(e) \/ ApplyAccepted(e)
  \/ Raise
  \/ ScanEnd
  \/ Settle
  \/ Finish
  \/ Finished

PipeSpec == PipeInit /\ [][PipeNext]_<<guardVars, pipeVars>>

-----------------------------------------------------------------------------
PipeTypeOK ==
  /\ started \in BOOLEAN
  /\ now \in Nat
  /\ next_scan \in Nat
  /\ damage \in Seq(Nat)
  /\ DOMAIN cooldown \subseteq Key /\ \A k \in DOMAIN cooldown : cooldown[k] \in Nat
  /\ alerts \in Seq([key : Key, start_ts : Nat, end_ts : Nat, detect_ts : Nat,
                     degraded : BOOLEAN])
  /\ suppressed \in Nat
  /\ ctx_degraded \in [Symbol -> BOOLEAN]
  /\ applied \in Seq(Event)
  /\ IF stage = "scan" THEN pending \in Event ELSE pending = NoEvent
  /\ stage \in {"feed", "scan", "final", "done"}
  /\ raised \subseteq Key

(***************************************************************************)
(* Two alerts of one detector about one participant and symbol are at      *)
(* least a cooldown apart, however many scans raise the same behaviour     *)
(* again (pipeline.cpp:264-281).                                           *)
(***************************************************************************)
CooldownSpacing ==
  \A i, j \in 1 .. Len(alerts) :
    i < j /\ alerts[i].key = alerts[j].key =>
      alerts[j].detect_ts - alerts[i].detect_ts >= Cooldown[alerts[i].key.detector]

(***************************************************************************)
(* A scan at time T sees no event after T, and no event from before T is   *)
(* applied once it has run (pipeline.cpp:134-136).                         *)
(***************************************************************************)
ScanSeesThePast ==
  /\ ScanDue => \A i \in 1 .. Len(applied) : applied[i].ts <= next_scan
  /\ stage = "scan" => pending.ts >= ScanFrom

(***************************************************************************)
(* No event is judged twice by a detector, and at the end every detector   *)
(* has judged every event whose turn did not coincide with its own scan:   *)
(* the last pass reaches far enough ahead (pipeline.cpp:97-100).           *)
(***************************************************************************)
JudgedAtMostOnce ==
  [][next_scan' # next_scan /\ started =>
       \A d \in Detector, i \in 1 .. Len(applied) :
         Judges(d, i) => <<d, i>> \notin judged]_pipeVars

OnAScan(ts) == (ts - applied[1].ts) % ScanInterval = 0

DeferredAreJudged ==
  stage = "done" =>
    \A d \in Detector, i \in 1 .. Len(applied) :
      Delay[d] > 0 \/ ~OnAScan(applied[i].ts) => <<d, i>> \in judged

(***************************************************************************)
(* An alert is marked degraded only if the feed really was damaged within  *)
(* the hold around it (pipeline.cpp:283-290).                              *)
(***************************************************************************)
MarksAreEarned ==
  \A i \in 1 .. Len(alerts) :
    alerts[i].degraded =>
      \E a \in anomalies : /\ alerts[i].start_ts - DegradeNs <= a
                           /\ a <= alerts[i].end_ts + DegradeNs

(***************************************************************************)
(* detector.hpp:130-134 puts every event in the (from, to] of a scan, so   *)
(* that each detector gets to judge each event.                            *)
(***************************************************************************)
EveryEventIsJudged ==
  stage = "done" =>
    \A d \in Detector, i \in 1 .. Len(applied) : <<d, i>> \in judged

(***************************************************************************)
(* feed_integrity.hpp:11-13: "Alerts raised near a gap are marked" - no    *)
(* alert about a stretch of tape with a gap inside goes unmarked.          *)
(***************************************************************************)
GapsMark ==
  \A n \in 1 .. Len(alerts) :
    (\E i, j \in 1 .. Len(applied) :
        /\ j = i + 1 /\ applied[j].seq > applied[i].seq + 1
        /\ \A l \in 1 .. i : applied[l].seq <= applied[i].seq
        /\ alerts[n].start_ts <= applied[i].ts /\ applied[j].ts <= alerts[n].end_ts)
      => alerts[n].degraded
=============================================================================
