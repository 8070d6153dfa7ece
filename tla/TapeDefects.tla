----------------------------- MODULE TapeDefects -----------------------------
(***************************************************************************)
(* Feed damage, injected on purpose: apply_defects of generate/defects.py. *)
(* A clean tape goes in, a damaged one comes out.  The first pass drops,   *)
(* skews and duplicates line by line; the second transposes adjacent lines *)
(* without ever moving one of them twice.                                  *)
(*                                                                         *)
(* A defect whose rate is zero cannot happen: Rates holds the others.  The *)
(* random draws are choices.                                               *)
(***************************************************************************)
EXTENDS Integers, Sequences, SequencesExt

CONSTANTS
  Tapes,   \* the clean tapes: sequences of records with fields ts, seq and eid
  Rates,   \* the defects with a positive rate
  Skews    \* the values delta may take

\* The generator sorts the events by time and numbers them from one.
ASSUME TapesAssumption ==
  \A s \in Tapes :
    /\ s \in Seq(ToSet(s))
    /\ \A i \in DOMAIN s :
         /\ {"ts", "seq", "eid"} \subseteq DOMAIN s[i]
         /\ s[i].ts \in Nat /\ s[i].seq = i /\ s[i].eid = i
         /\ \A j \in DOMAIN s : i <= j => s[i].ts <= s[j].ts
ASSUME RatesAssumption == Rates \subseteq {"drop", "duplicate", "transpose", "skew"}
ASSUME SkewsAssumption == Skews \subseteq Int

VARIABLES
  events,    \* the clean tape
  taken,     \* how many of its events the first pass has handled
  lines,     \* out: the damaged tape
  position,  \* i, the index of the second pass (0 while the first pass runs)
  dropped, duplicated, transposed, skewed

defectVars == <<events, taken, lines, position, dropped, duplicated, transposed, skewed>>

DefectsInit ==
  /\ events \in Tapes
  /\ taken = 0
  /\ lines = <<>>
  /\ position = 0
  /\ dropped = 0
  /\ duplicated = 0
  /\ transposed = 0
  /\ skewed = 0

MoreEvents == position = 0 /\ taken < Len(events)

DropEvent ==
  /\ MoreEvents
  /\ "drop" \in Rates
  /\ taken' = taken + 1
  /\ dropped' = dropped + 1
  /\ UNCHANGED <<events, lines, position, duplicated, transposed, skewed>>

\* The timestamp is nudged, but never below zero.
Skewed(ev, delta) == [ev EXCEPT !.ts = IF @ + delta < 0 THEN 0 ELSE @ + delta]

\* The event is written, skewed or not, once or (byte for byte) twice.
WriteEvent ==
  /\ MoreEvents
  /\ \E delta \in {0} \cup (IF "skew" \in Rates THEN Skews ELSE {}),
        copies \in {1} \cup (IF "duplicate" \in Rates THEN {2} ELSE {}) :
       LET ev == Skewed(events[taken + 1], delta) IN
       /\ lines' = lines \o [c \in 1 .. copies |-> ev]
       /\ skewed' = skewed + (IF delta # 0 THEN 1 ELSE 0)
       /\ duplicated' = duplicated + (copies - 1)
  /\ taken' = taken + 1
  /\ UNCHANGED <<events, position, dropped, transposed>>

StartSecondPass ==
  /\ position = 0
  /\ taken = Len(events)
  /\ position' = 1
  /\ UNCHANGED <<events, taken, lines, dropped, duplicated, transposed, skewed>>

MorePairs == position > 0 /\ position + 1 <= Len(lines) /\ "transpose" \in Rates

SwappedAt(s, i) == [s EXCEPT ![i] = s[i + 1], ![i + 1] = s[i]]

Transpose ==
  /\ MorePairs
  /\ lines' = SwappedAt(lines, position)
  /\ transposed' = transposed + 1
  /\ position' = position + 2
  /\ UNCHANGED <<events, taken, dropped, duplicated, skewed>>

LeaveInPlace ==
  /\ MorePairs
  /\ position' = position + 1
  /\ UNCHANGED <<events, taken, lines, dropped, duplicated, transposed, skewed>>

DefectsNext ==
  DropEvent \/ WriteEvent \/ StartSecondPass \/ Transpose \/ LeaveInPlace

TapeWritten == position > 0 /\ ~MorePairs
=============================================================================
