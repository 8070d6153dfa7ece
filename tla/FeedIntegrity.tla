---------------------------- MODULE FeedIntegrity ----------------------------
(***************************************************************************)
(* The two feed-integrity stages in series behind a damaged tape, wired as *)
(* Pipeline::feed_line and Pipeline::finish wire them: a line is pushed    *)
(* into the reorder buffer; unless it is refused the buffer is drained;    *)
(* each event released is then shown to the feed guard, in order.          *)
(***************************************************************************)
EXTENDS TapeDefects, FiniteSets

CONSTANTS Tolerance, Capacity, DegradeNs, DedupCapacity

ASSUME FeedAssumption ==
  /\ Tolerance \in Nat /\ Capacity \in Nat \ {0}
  /\ DegradeNs \in Nat /\ DedupCapacity \in Nat \ {0}

VARIABLES
  heap, max_ts_seen, last_released_ts, recovered, overflow_releases,
  out, refused, fed, phase,                                \* the reorder buffer
  seen, seen_order, have_last, last_seq, degraded_until, stats,
  admitted, anomalies, last_ts,                            \* the feed guard
  applied            \* how many of the released events apply() has been given

reorderVars == <<heap, max_ts_seen, last_released_ts, recovered,
                 overflow_releases, out, refused, fed, phase>>
guardVars == <<seen, seen_order, have_last, last_seq, degraded_until, stats,
               admitted, anomalies, last_ts>>
feedVars == <<defectVars, reorderVars, guardVars, applied>>

\* MaxLines, MaxEvents and Event only bound the stand-alone specifications.
Reorder == INSTANCE ReorderBuffer WITH MaxLines <- 0, Event <- {}
Guard == INSTANCE FeedGuard WITH MaxEvents <- 0, Event <- {}

FeedInit ==
  /\ DefectsInit
  /\ Reorder!Init
  /\ Guard!GuardInit
  /\ applied = 0

Damage ==
  /\ DefectsNext
  /\ UNCHANGED <<reorderVars, guardVars, applied>>

AllApplied == applied = Len(out)

\* feed_line: the next line of the tape is pushed.
Push ==
  /\ TapeWritten
  /\ fed < Len(lines)
  /\ AllApplied
  /\ \/ Reorder!PushLate(lines[fed + 1])
     \/ Reorder!PushHeld(lines[fed + 1])
  /\ UNCHANGED <<defectVars, guardVars, applied>>

Drain ==
  /\ Reorder!Drain
  /\ UNCHANGED <<defectVars, guardVars, applied>>

\* finish: the reader is at the end of the tape.
EndOfTape ==
  /\ TapeWritten
  /\ fed = Len(lines)
  /\ AllApplied
  /\ Reorder!EndOfTape
  /\ UNCHANGED <<defectVars, guardVars, applied>>

Flush ==
  /\ Reorder!Flush
  /\ UNCHANGED <<defectVars, guardVars, applied>>

\* Mutant of Apply: the verdict is ignored, a duplicate is applied as well.
ApplyRegardless ==
  /\ phase \in {"idle", "done"}
  /\ applied < Len(out)
  /\ applied' = applied + 1
  /\ IF Guard!IsDuplicate(out[applied + 1].event)
       THEN /\ admitted' = Append(admitted, out[applied + 1].event)
            /\ UNCHANGED <<seen, seen_order, have_last, last_seq, degraded_until,
                           stats, anomalies, last_ts>>
       ELSE Guard!Admit(out[applied + 1].event)
  /\ UNCHANGED <<defectVars, reorderVars>>

\* The loop over ready_: the guard judges each released event.
Apply ==
  /\ phase \in {"idle", "done"}
  /\ applied < Len(out)
  /\ applied' = applied + 1
  /\ Guard!Admit(out[applied + 1].event)
  /\ UNCHANGED <<defectVars, reorderVars>>

FeedNext == Damage \/ Push \/ Drain \/ EndOfTape \/ Flush \/ Apply

FeedSpec == FeedInit /\ [][FeedNext]_feedVars

\* One thread, a finite tape: it never stops while it has a step to take.
FeedFairSpec == FeedSpec /\ WF_feedVars(FeedNext)

-----------------------------------------------------------------------------
Finished == phase = "done" /\ AllApplied

Admitted == 1 .. Len(admitted)

\* The ids of the clean tape are its positions.
Lost(k) == k <= taken /\ \A i \in 1 .. Len(lines) : lines[i].eid # k

Pending ==
  {k \in 1 .. Len(events) : ~Lost(k) /\ \A i \in Admitted : admitted[i].eid # k}

Promise == INSTANCE FeedPromise WITH
  pending <- Pending, delivered <- [i \in Admitted |-> admitted[i].eid]

(***************************************************************************)
(* Duplicates and transpositions are undone completely: whatever lines are *)
(* lost, the engine applies the surviving events one by one, in the        *)
(* venue's order and once, even when timestamps tie                        *)
(* (feed_integrity.hpp:14-22).                                             *)
(***************************************************************************)
AppliesSurvivorsInOrder == Promise!PromiseSpec

(***************************************************************************)
(* A loss is counted exactly: the events reported missing are the numbers  *)
(* between the first and the last one applied that were not applied.       *)
(***************************************************************************)
MissingIsExact ==
  have_last =>
    stats.sequence_missing = (last_seq - admitted[1].seq + 1) - Len(admitted)

(***************************************************************************)
(* No event is applied twice, whatever the feed does to it: the dedup      *)
(* horizon is longer than a duplicate can stray (feed_integrity.hpp:14).   *)
(***************************************************************************)
NeverAppliedTwice ==
  \A i, j \in Admitted : admitted[i].eid = admitted[j].eid => i = j

(***************************************************************************)
(* Damage does not pass unnoticed: if the events applied are not a         *)
(* contiguous run of the venue's numbering, a gap or a disagreement has    *)
(* been counted and the guard has marked the feed.                         *)
(***************************************************************************)
DamageIsReported ==
  (\E i \in Admitted \ {Len(admitted)} : admitted[i + 1].seq # admitted[i].seq + 1)
    => /\ stats.sequence_gaps + stats.sequence_backward > 0
       /\ degraded_until # Guard!NoTs

(***************************************************************************)
(* Every line of the tape is dealt with: the run ends with each line       *)
(* refused, applied or recognised as a duplicate.                          *)
(***************************************************************************)
EveryLineIsSettled ==
  <>(Finished /\ Cardinality(refused) + stats.duplicate_event_ids + Len(admitted)
                   = Len(lines))
=============================================================================
