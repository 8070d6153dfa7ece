--------------------------- MODULE PipelineProofs ---------------------------
(***************************************************************************)
(* TLAPS proofs about the alert sink, the scan clock and the damage marks  *)
(* of Pipeline, for any detectors, delays, cooldowns and scan interval,    *)
(* and tapes of any length.                                                *)
(*                                                                         *)
(* Spacing is inductive with what ties the alerts to the cooldown table:   *)
(* the table holds, per key, a time no alert of that key is later than,    *)
(* and no alert is later than the next scan.                               *)
(***************************************************************************)
EXTENDS Pipeline, FeedGuardProofs, FiniteSetTheorems, TLAPS

USE GuardEventAssumption, DelayAssumption, CooldownAssumption,
    ScanIntervalAssumption, HistoryAssumption

\* A set of natural numbers that is not empty has a least element.
LEMMA LeastNumber ==
  ASSUME NEW T \in SUBSET Nat, T # {}
  PROVE  \E m \in T : \A n \in T : m <= n
<1> DEFINE Less == OpToRel(<, Nat)
<1>1. IsWellFoundedOn(Less, Nat)
  BY NatLessThanWellFounded
<1>2. \A m, n \in Nat : <<m, n>> \in Less <=> m < n
  BY DEF OpToRel
<1> HIDE DEF Less
<1>3. PICK m \in T : \A n \in T : ~(<<n, m>> \in Less)
  BY <1>1, WFMin
<1>4. ASSUME NEW n \in T PROVE m <= n
  <2>1. m \in Nat /\ n \in Nat
    OBVIOUS
  <2>2. ~(n < m)
    BY <1>2, <1>3, <2>1
  <2>3. QED
    BY <2>1, <2>2
<1>5. QED
  BY <1>4

\* Adding the step to a multiple of it gives the next multiple.
LEMMA NextMultiple ==
  ASSUME NEW x \in Int, NEW step \in Nat \ {0}, x % step = 0
  PROVE  (x + step) % step = 0
<1> DEFINE q == x \div step
<1>1. x = q * step /\ q \in Int
  OBVIOUS
<1> HIDE DEF q
<1>2. x + step = (q + 1) * step
  BY <1>1
<1>3. ASSUME NEW n \in Int PROVE (n * step) % step = 0
  OBVIOUS
<1>4. QED
  BY <1>1, <1>2, <1>3

AlertRecord == [key : Key, start_ts : Nat, end_ts : Nat, detect_ts : Nat,
                degraded : BOOLEAN]

\* The part of PipeTypeOK the proofs rest on.
ClockType ==
  /\ started \in BOOLEAN
  /\ next_scan \in Nat
  /\ now \in Nat
  /\ applied \in Seq(Event)
  /\ stage \in {"feed", "scan", "final", "done"}
  /\ stage = "scan" => pending \in Event
  /\ last_ts \in Nat \cup {NoTs}

SinkType ==
  /\ \A k \in DOMAIN cooldown : cooldown[k] \in Nat
  /\ alerts \in Seq(AlertRecord)

\* The scan clock has started before anything can be raised.
Started ==
  /\ stage = "scan" => started
  /\ ~started => alerts = <<>> /\ applied = <<>>

LEMMA ClockTypeCorrect == PipeSpec => [](ClockType /\ Started)
<1>1. PipeInit => ClockType /\ Started
  <2> SUFFICES ASSUME PipeInit PROVE ClockType /\ Started
    OBVIOUS
  <2>1. applied \in Seq(Event)
    BY DEF PipeInit
  <2>2. /\ started = FALSE /\ stage = "feed" /\ next_scan = 0 /\ now = 0
        /\ last_ts = NoTs /\ alerts = <<>> /\ applied = <<>>
    BY DEF PipeInit, GuardInit
  <2>3. QED
    BY <2>1, <2>2 DEF ClockType, Started
<1>2. ClockType /\ Started /\ [PipeNext]_<<guardVars, pipeVars>>
        => (ClockType /\ Started)'
  <2> SUFFICES ASSUME ClockType, Started, [PipeNext]_<<guardVars, pipeVars>>
               PROVE  ClockType' /\ Started'
    OBVIOUS
  <2>1. ASSUME NEW e \in Event, ApplyDuplicate(e) PROVE ClockType' /\ Started'
    BY <2>1 DEF ApplyDuplicate, Drop, pipeVars, ClockType, Started
  <2>2. ASSUME NEW e \in Event, ApplyAccepted(e) PROVE ClockType' /\ Started'
    <3>1. next_scan' \in Nat
      BY <2>2 DEF ApplyAccepted, ClockType
    <3>2. last_ts' \in Nat
      BY <2>2 DEF ApplyAccepted, Accept
    <3>3. QED
      BY <2>2, <3>1, <3>2 DEF ApplyAccepted, ClockType, Started
  <2>3. ASSUME Raise PROVE ClockType' /\ Started'
    BY <2>3 DEF Raise, ScanDue, guardVars, ClockType, Started
  <2>4. ASSUME ScanEnd PROVE ClockType' /\ Started'
    BY <2>4 DEF ScanEnd, guardVars, ClockType, Started
  <2>5. ASSUME Settle PROVE ClockType' /\ Started'
    BY <2>5 DEF Settle, guardVars, ClockType, Started
  <2>6. ASSUME Finish \/ Finished PROVE ClockType' /\ Started'
    BY <2>6 DEF Finish, Finished, guardVars, ClockType, Started
  <2>7. CASE UNCHANGED <<guardVars, pipeVars>>
    BY <2>7 DEF guardVars, pipeVars, ClockType, Started
  <2>8. QED
    BY <2>1, <2>2, <2>3, <2>4, <2>5, <2>6, <2>7 DEF PipeNext
<1>3. QED
  BY <1>1, <1>2, PTL DEF PipeSpec

-----------------------------------------------------------------------------
\* What is applied lies before the next scan; what is still to come does not
\* lie before the last one.
ClockInv ==
  /\ started => \A i \in 1 .. Len(applied) : applied[i].ts < next_scan
  /\ stage = "scan" => pending.ts = last_ts
  /\ started /\ stage \in {"feed", "scan"} => ScanFrom <= last_ts

LEMMA ClockCorrect == PipeSpec => []ClockInv
<1>1. PipeInit => ClockInv
  BY DEF PipeInit, GuardInit, ClockInv
<1>2. ClockType /\ Started /\ ClockInv /\ [PipeNext]_<<guardVars, pipeVars>> => ClockInv'
  <2> SUFFICES ASSUME ClockType, Started, ClockInv, [PipeNext]_<<guardVars, pipeVars>>
               PROVE  ClockInv'
    OBVIOUS
  <2>1. ASSUME NEW e \in Event, ApplyDuplicate(e) PROVE ClockInv'
    BY <2>1 DEF ApplyDuplicate, Timely, Drop, pipeVars, ClockInv, ClockType, ScanFrom, NoTs
  <2>2. ASSUME NEW e \in Event, ApplyAccepted(e) PROVE ClockInv'
    <3>1. last_ts' = e.ts /\ pending' = e /\ last_ts <= e.ts
      BY <2>2 DEF ApplyAccepted, Timely, Accept
    <3>2. CASE started
      BY <2>2, <3>1, <3>2 DEF ApplyAccepted, Timely, ClockInv, ClockType, ScanFrom, NoTs
    <3>3. CASE ~started
      BY <2>2, <3>1, <3>3 DEF ApplyAccepted, ClockInv, ClockType, Started, ScanFrom
    <3>4. QED
      BY <3>2, <3>3
  <2>3. ASSUME Raise PROVE ClockInv'
    BY <2>3 DEF Raise, guardVars, ClockInv, ScanFrom
  <2>4. ASSUME ScanEnd PROVE ClockInv'
    BY <2>4 DEF ScanEnd, ScanDue, guardVars, ClockInv, ClockType, ScanFrom
  <2>5. ASSUME Settle PROVE ClockInv'
    BY <2>5 DEF Settle, ScanDue, guardVars, ClockInv, ClockType, Started, ScanFrom
  <2>6. ASSUME Finish \/ Finished PROVE ClockInv'
    BY <2>6 DEF Finish, Finished, guardVars, ClockInv, ScanFrom
  <2>7. CASE UNCHANGED <<guardVars, pipeVars>>
    BY <2>7 DEF guardVars, pipeVars, ClockInv, ScanFrom
  <2>8. QED
    BY <2>1, <2>2, <2>3, <2>4, <2>5, <2>6, <2>7 DEF PipeNext
<1>3. QED
  BY <1>1, <1>2, ClockTypeCorrect, PTL DEF PipeSpec

(***************************************************************************)
(* A scan at time T sees nothing after T, and nothing from before T is     *)
(* applied after it has run.                                               *)
(***************************************************************************)
THEOREM ScanSeesThePastCorrect == PipeSpec => []ScanSeesThePast
<1>1. ClockType /\ Started /\ ClockInv => ScanSeesThePast
  BY DEF ClockType, Started, ClockInv, ScanSeesThePast, ScanDue, ScanFrom
<1>2. QED
  BY <1>1, ClockTypeCorrect, ClockCorrect, PTL

-----------------------------------------------------------------------------
\* The cooldown table bounds the alerts raised so far.
SpacingInv ==
  /\ SinkType
  /\ \A i \in 1 .. Len(alerts) :
       /\ alerts[i].detect_ts <= next_scan
       /\ Cooldown[alerts[i].key.detector] > 0 =>
            /\ alerts[i].key \in DOMAIN cooldown
            /\ alerts[i].detect_ts <= cooldown[alerts[i].key]
  /\ CooldownSpacing

(***************************************************************************)
(* Passing an alert to the sink keeps the spacing.                         *)
(***************************************************************************)
LEMMA EmitKeepsSpacing ==
  ASSUME ClockType, SpacingInv, NEW k \in Key, NEW a \in Nat, NEW b \in Nat,
         Emit(k, a, b), next_scan' = next_scan
  PROVE  SpacingInv'
<1> DEFINE N == Len(alerts)
           new == [key |-> k, start_ts |-> a, end_ts |-> b, detect_ts |-> next_scan,
                   degraded |-> OverlapsDamage(a, b)]
<1>1. CASE CooldownBlocks(k)
  BY <1>1 DEF Emit, SpacingInv, SinkType, CooldownSpacing
<1>2. CASE ~CooldownBlocks(k)
  <2>1. new \in AlertRecord /\ new.key = k /\ new.detect_ts = next_scan
    BY DEF AlertRecord, ClockType, OverlapsDamage
  <2>2. alerts' = Append(alerts, new)
    BY <1>2 DEF Emit
  <2> HIDE DEF new
  <2>3. /\ N \in Nat /\ Len(alerts') = N + 1 /\ alerts'[N + 1] = new
        /\ \A i \in 1 .. N : alerts'[i] = alerts[i] /\ alerts[i] \in AlertRecord
        /\ alerts' \in Seq(AlertRecord)
    BY <2>1, <2>2 DEF SpacingInv, SinkType
  <2>4. cooldown' = IF Cooldown[k.detector] = 0 THEN cooldown ELSE
                    [x \in DOMAIN cooldown \cup {k} |->
                       IF x = k THEN next_scan ELSE cooldown[x]]
    BY <1>2 DEF Emit
  <2>5. \A i \in 1 .. N : alerts[i].detect_ts \in Nat /\ alerts[i].detect_ts <= next_scan
                          /\ alerts[i].key \in Key
    BY <2>3 DEF SpacingInv, AlertRecord
  <2>6. Cooldown[k.detector] \in Nat /\ next_scan \in Nat
    BY DEF Key, ClockType
  <2>7. \A x \in DOMAIN cooldown : cooldown[x] \in Nat
    BY DEF SpacingInv, SinkType
  <2>8. SinkType'
    BY <2>3, <2>4, <2>6, <2>7 DEF SinkType
  <2>9. ASSUME NEW i \in 1 .. N + 1
        PROVE  /\ alerts'[i].detect_ts <= next_scan'
               /\ Cooldown[alerts'[i].key.detector] > 0 =>
                    /\ alerts'[i].key \in DOMAIN cooldown'
                    /\ alerts'[i].detect_ts <= cooldown'[alerts'[i].key]
    <3>1. CASE i = N + 1
      BY <2>1, <2>3, <2>4, <2>6, <3>1
    <3>2. CASE i \in 1 .. N
      BY <2>3, <2>4, <2>5, <2>6, <3>2 DEF SpacingInv
    <3>3. QED
      BY <2>3, <3>1, <3>2
  <2>10. ASSUME NEW i \in 1 .. N, alerts[i].key = k
         PROVE  next_scan - alerts[i].detect_ts >= Cooldown[k.detector]
    <3>1. CASE Cooldown[k.detector] = 0
      BY <2>5, <2>6, <3>1
    <3>2. CASE Cooldown[k.detector] > 0
      <4>1. k \in DOMAIN cooldown /\ alerts[i].detect_ts <= cooldown[k]
        BY <2>10, <3>2 DEF SpacingInv
      <4>2. next_scan - cooldown[k] >= Cooldown[k.detector]
        BY <1>2, <2>6, <2>7, <3>2, <4>1 DEF CooldownBlocks
      <4>3. QED
        BY <2>5, <2>6, <2>7, <4>1, <4>2
    <3>3. QED
      BY <2>6, <3>1, <3>2
  <2>11. CooldownSpacing'
    <3> SUFFICES ASSUME NEW i \in 1 .. N + 1, NEW j \in 1 .. N + 1, i < j,
                        alerts'[i].key = alerts'[j].key
                 PROVE  alerts'[j].detect_ts - alerts'[i].detect_ts
                          >= Cooldown[alerts'[i].key.detector]
      BY <2>3 DEF CooldownSpacing
    <3>1. i \in 1 .. N
      BY <2>3
    <3>2. CASE j = N + 1
      BY <2>1, <2>3, <2>10, <3>1, <3>2
    <3>3. CASE j \in 1 .. N
      BY <2>3, <3>1, <3>3 DEF SpacingInv, CooldownSpacing
    <3>4. QED
      BY <2>3, <3>2, <3>3
  <2>12. QED
    BY <2>3, <2>8, <2>9, <2>11 DEF SpacingInv
<1>3. QED
  BY <1>1, <1>2

LEMMA SpacingCorrect == PipeSpec => []SpacingInv
<1>1. PipeInit => SpacingInv
  BY DEF PipeInit, SpacingInv, SinkType, CooldownSpacing
<1>2. ClockType /\ Started /\ SpacingInv /\ [PipeNext]_<<guardVars, pipeVars>>
        => SpacingInv'
  <2> SUFFICES ASSUME ClockType, Started, SpacingInv, [PipeNext]_<<guardVars, pipeVars>>
               PROVE  SpacingInv'
    OBVIOUS
  <2>1. ASSUME alerts' = alerts, cooldown' = cooldown, next_scan' \in Nat,
               next_scan' >= next_scan
        PROVE  SpacingInv'
    <3>1. \A i \in 1 .. Len(alerts) : alerts[i].detect_ts \in Nat
      <4>1. \A i \in 1 .. Len(alerts) : alerts[i] \in AlertRecord
        BY DEF SpacingInv, SinkType
      <4>2. QED
        BY <4>1 DEF AlertRecord
    <3>2. QED
      BY <2>1, <3>1 DEF SpacingInv, SinkType, CooldownSpacing, ClockType
  <2>2. ASSUME alerts = <<>>, alerts' = alerts, cooldown' = cooldown PROVE SpacingInv'
    BY <2>2 DEF SpacingInv, SinkType, CooldownSpacing
  <2>3. ASSUME NEW e \in Event, ApplyDuplicate(e) PROVE SpacingInv'
    BY <2>1, <2>3 DEF ApplyDuplicate, pipeVars, ClockType
  <2>4. ASSUME NEW e \in Event, ApplyAccepted(e) PROVE SpacingInv'
    <3>1. CASE started
      BY <2>1, <2>4, <3>1 DEF ApplyAccepted, ClockType
    <3>2. CASE ~started
      BY <2>2, <2>4, <3>2 DEF ApplyAccepted, Started
    <3>3. QED
      BY <3>1, <3>2
  <2>5. ASSUME Raise PROVE SpacingInv'
    <3>1. PICK k \in Key \ raised, i \in 1 .. Len(applied), j \in 1 .. Len(applied) :
            Emit(k, applied[i].ts, applied[j].ts)
      BY <2>5 DEF Raise
    <3>2. applied[i].ts \in Nat /\ applied[j].ts \in Nat
      BY DEF ClockType
    <3>3. QED
      BY <2>5, <3>1, <3>2, EmitKeepsSpacing DEF Raise
  <2>6. ASSUME ScanEnd PROVE SpacingInv'
    BY <2>1, <2>6 DEF ScanEnd, ClockType
  <2>7. ASSUME Settle \/ Finish \/ Finished PROVE SpacingInv'
    BY <2>1, <2>7 DEF Settle, Finish, Finished, ClockType
  <2>8. CASE UNCHANGED <<guardVars, pipeVars>>
    BY <2>1, <2>8 DEF pipeVars, ClockType
  <2>9. QED
    BY <2>3, <2>4, <2>5, <2>6, <2>7, <2>8 DEF PipeNext
<1>3. QED
  BY <1>1, <1>2, ClockTypeCorrect, PTL DEF PipeSpec

(***************************************************************************)
(* Two alerts of one key are at least a cooldown apart.                    *)
(***************************************************************************)
THEOREM CooldownCorrect == PipeSpec => []CooldownSpacing
<1>1. SpacingInv => CooldownSpacing
  BY DEF SpacingInv
<1>2. QED
  BY <1>1, SpacingCorrect, PTL
-----------------------------------------------------------------------------
\* What has been judged had its turn before the last scan.
JudgedInv ==
  \A t \in judged :
    /\ t \in Detector \X (1 .. Len(applied))
    /\ applied[t[2]].ts + Delay[t[1]] <= ScanFrom

\* What applying and scanning do to the events applied and to the clock.
LEMMA AppliedStays ==
  ASSUME ClockType, Started, PipeNext
  PROVE  /\ \A e \in Event : ApplyAccepted(e) /\ ~started => applied = <<>>
         /\ ~Settle => applied' = applied
         /\ Settle => applied' = Append(applied, pending)
         /\ Len(applied) \in Nat /\ Len(applied') >= Len(applied)
         /\ \A i \in 1 .. Len(applied) : applied'[i] = applied[i]
         /\ \A i \in 1 .. Len(applied) : applied[i].ts \in Nat
<1>1. ~Settle => applied' = applied
  BY DEF PipeNext, ApplyDuplicate, ApplyAccepted, Raise, ScanEnd, Finish, Finished, pipeVars
<1>2. Settle => applied' = Append(applied, pending) /\ pending \in Event
  BY DEF Settle, ClockType
<1>3. applied \in Seq(Event)
  BY DEF ClockType
<1>4. ASSUME NEW i \in 1 .. Len(applied)
      PROVE  applied'[i] = applied[i] /\ applied[i].ts \in Nat
  <2>1. applied[i] \in Event
    BY <1>3
  <2>2. applied[i].ts \in Nat
    BY <2>1
  <2>3. CASE Settle
    <3>1. Append(applied, pending)[i] = applied[i]
      BY <1>2, <1>3, <2>3
    <3>2. QED
      BY <1>2, <2>2, <2>3, <3>1
  <2>4. CASE ~Settle
    BY <1>1, <2>2, <2>4
  <2>5. QED
    BY <2>3, <2>4
<1>5. Len(applied) \in Nat /\ Len(applied') >= Len(applied)
  BY <1>1, <1>2, <1>3
<1>6. \A e \in Event : ApplyAccepted(e) /\ ~started => applied = <<>>
  BY DEF Started
<1>7. QED
  BY <1>1, <1>2, <1>4, <1>5, <1>6

LEMMA JudgedKept ==
  ASSUME ClockType, Started, JudgedInv, [PipeNext]_<<guardVars, pipeVars>>
  PROVE  JudgedInv'
<1>1. CASE UNCHANGED <<guardVars, pipeVars>>
  BY <1>1 DEF pipeVars, JudgedInv, ScanFrom
<1>2. CASE PipeNext
  <2> USE <1>2
  <2>1. ASSUME judged' = judged, next_scan' \in Nat, next_scan' >= next_scan
        PROVE  JudgedInv'
    <3>1. SUFFICES ASSUME NEW t \in judged
                   PROVE  /\ t \in Detector \X (1 .. Len(applied'))
                          /\ applied'[t[2]].ts + Delay[t[1]] <= next_scan' - ScanInterval
      BY <2>1 DEF JudgedInv, ScanFrom
    <3>2. /\ t[1] \in Detector /\ t[2] \in 1 .. Len(applied) /\ t = <<t[1], t[2]>>
          /\ applied[t[2]].ts + Delay[t[1]] <= next_scan - ScanInterval
      BY DEF JudgedInv, ScanFrom
    <3>3. t[2] \in 1 .. Len(applied') /\ applied'[t[2]] = applied[t[2]]
          /\ applied[t[2]].ts \in Nat
      BY <3>2, AppliedStays
    <3>4. Delay[t[1]] \in Nat /\ next_scan \in Nat
      BY <3>2 DEF ClockType
    <3>5. t \in Detector \X (1 .. Len(applied'))
      BY <3>2, <3>3
    <3> DEFINE due == applied[t[2]].ts + Delay[t[1]]
    <3>6. due \in Nat /\ due <= next_scan - ScanInterval /\ ScanInterval \in Nat
      <4>1. due \in Nat
        <5>1. applied[t[2]].ts \in Nat /\ Delay[t[1]] \in Nat
          BY <3>3, <3>4
        <5>2. QED
          BY <5>1
      <4>2. due <= next_scan - ScanInterval
        BY <3>2, <3>3
      <4>3. QED
        BY <4>1, <4>2, ScanIntervalAssumption
    <3> HIDE DEF due
    <3>7. \A x, y \in Nat : y >= x /\ due <= x - ScanInterval => due <= y - ScanInterval
      BY <3>6
    <3>8. due <= next_scan' - ScanInterval
      BY <2>1, <3>4, <3>6, <3>7
    <3>9. QED
      BY <3>3, <3>5, <3>8 DEF due
  <2>2. ASSUME ScanEnd PROVE JudgedInv'
    <3>1. /\ judged' = judged \cup {t \in Detector \X (1 .. Len(applied)) : Judges(t[1], t[2])}
          /\ next_scan' = next_scan + ScanInterval /\ applied' = applied
          /\ next_scan \in Nat
      BY <2>2 DEF ScanEnd, ClockType
    <3>2. SUFFICES ASSUME NEW t \in judged'
                   PROVE  /\ t \in Detector \X (1 .. Len(applied))
                          /\ applied[t[2]].ts + Delay[t[1]] <= next_scan
      BY <3>1 DEF JudgedInv, ScanFrom
    <3>3. CASE t \in judged
      <4>1. /\ t \in Detector \X (1 .. Len(applied))
            /\ applied[t[2]].ts + Delay[t[1]] <= next_scan - ScanInterval
        BY <3>3 DEF JudgedInv, ScanFrom
      <4>2. applied[t[2]].ts \in Nat /\ Delay[t[1]] \in Nat
        BY <4>1, AppliedStays
      <4>3. QED
        BY <3>1, <4>1, <4>2
    <3>4. CASE t \in Detector \X (1 .. Len(applied)) /\ Judges(t[1], t[2])
      BY <3>4 DEF Judges
    <3>5. QED
      BY <3>1, <3>3, <3>4
  <2>3. ASSUME NEW e \in Event, ApplyAccepted(e) PROVE JudgedInv'
    <3>1. CASE started
      BY <2>1, <2>3, <3>1 DEF ApplyAccepted, ClockType
    <3>2. CASE ~started
      <4>1. 1 .. Len(applied) = {}
        BY <2>3, <3>2 DEF Started
      <4>2. judged = {}
        BY <4>1 DEF JudgedInv
      <4>3. QED
        BY <2>3, <4>2 DEF ApplyAccepted, JudgedInv
    <3>3. QED
      BY <3>1, <3>2
  <2>4. ASSUME NEW e \in Event, ApplyDuplicate(e) PROVE JudgedInv'
    BY <2>1, <2>4 DEF ApplyDuplicate, pipeVars, ClockType
  <2>5. ASSUME Raise \/ Settle \/ Finish \/ Finished PROVE JudgedInv'
    BY <2>1, <2>5 DEF Raise, Settle, Finish, Finished, ClockType
  <2>6. QED
    BY <2>2, <2>3, <2>4, <2>5 DEF PipeNext
<1>3. QED
  BY <1>1, <1>2

LEMMA JudgedCorrect == PipeSpec => []JudgedInv
<1>1. PipeInit => JudgedInv
  BY DEF PipeInit, JudgedInv
<1>2. ClockType /\ Started /\ JudgedInv /\ [PipeNext]_<<guardVars, pipeVars>> => JudgedInv'
  BY JudgedKept
<1>3. QED
  BY <1>1, <1>2, ClockTypeCorrect, PTL DEF PipeSpec

(***************************************************************************)
(* No detector judges an event in two scans.                               *)
(***************************************************************************)
THEOREM JudgedAtMostOnceCorrect == PipeSpec => JudgedAtMostOnce
<1>1. ClockType /\ JudgedInv =>
        \A d \in Detector, i \in 1 .. Len(applied) : Judges(d, i) => <<d, i>> \notin judged
  <2> SUFFICES ASSUME ClockType, JudgedInv, NEW d \in Detector, NEW i \in 1 .. Len(applied),
                      Judges(d, i), <<d, i>> \in judged
               PROVE  FALSE
    OBVIOUS
  <2>1. applied[i].ts + Delay[d] <= ScanFrom /\ ScanFrom < applied[i].ts + Delay[d]
    BY DEF JudgedInv, Judges
  <2>2. applied[i].ts \in Nat /\ Delay[d] \in Nat /\ ScanFrom \in Int
    BY DEF ClockType, ScanFrom
  <2>3. QED
    BY <2>1, <2>2
<1>2. ClockType /\ JudgedInv =>
        [next_scan' # next_scan /\ started =>
           \A d \in Detector, i \in 1 .. Len(applied) :
             Judges(d, i) => <<d, i>> \notin judged]_pipeVars
  BY <1>1
<1>3. QED
  BY <1>2, ClockTypeCorrect, JudgedCorrect, PTL DEF JudgedAtMostOnce

-----------------------------------------------------------------------------
\* Scans stand on a grid that starts at the first event, and whatever had its
\* turn by the last of them has been judged, unless it came on the scan itself.
GridInv ==
  /\ started /\ applied = <<>> => stage = "scan" /\ ScanFrom = pending.ts
  /\ started /\ applied # <<>> => OnAScan(ScanFrom)
  /\ \A i \in 1 .. Len(applied) : applied[i].ts <= now /\ applied[i].ts <= last_ts
  /\ \A d \in Detector, i \in 1 .. Len(applied) :
       applied[i].ts + Delay[d] <= ScanFrom =>
         <<d, i>> \in judged \/ (Delay[d] = 0 /\ OnAScan(applied[i].ts))
  /\ stage = "done" /\ started => now + History < next_scan

LEMMA SettleKeepsGrid ==
  ASSUME ClockType, Started, ClockInv, GridInv, Settle
  PROVE  GridInv'
<1> DEFINE N == Len(applied)
<1>1. /\ applied \in Seq(Event) /\ N \in Nat /\ pending \in Event /\ pending.ts \in Nat
      /\ started /\ next_scan \in Nat /\ ScanFrom <= pending.ts /\ pending.ts = last_ts
      /\ ScanFrom \in Int
  BY DEF ClockType, Started, ClockInv, Settle, ScanFrom
<1>2. /\ Len(applied') = N + 1 /\ applied'[N + 1] = pending /\ applied' # <<>>
      /\ \A i \in 1 .. N : applied'[i] = applied[i]
      /\ now' = pending.ts /\ stage' = "feed" /\ last_ts' = last_ts
      /\ judged' = judged /\ ScanFrom' = ScanFrom
  BY <1>1 DEF Settle, guardVars, ScanFrom
<1> HIDE DEF N
<1>3. applied'[1].ts = IF applied = <<>> THEN pending.ts ELSE applied[1].ts
  BY <1>1, <1>2 DEF N
<1>4. \A i \in 1 .. N : applied[i].ts \in Nat
  BY <1>1 DEF N
<1>5. (ScanFrom - applied'[1].ts) % ScanInterval = 0
  <2>1. CASE applied = <<>>
    <3>1. ScanFrom - applied'[1].ts = 0
      BY <1>1, <1>3, <2>1 DEF GridInv
    <3>2. QED
      BY <3>1
  <2>2. CASE applied # <<>>
    BY <1>1, <1>3, <2>2 DEF GridInv, OnAScan
  <2>3. QED
    BY <2>1, <2>2
<1>6. ASSUME NEW i \in 1 .. N + 1
      PROVE  applied'[i].ts <= now' /\ applied'[i].ts <= last_ts'
  <2>1. CASE i = N + 1
    BY <1>1, <1>2, <2>1
  <2>2. CASE i \in 1 .. N
    BY <1>1, <1>2, <2>2 DEF GridInv, N
  <2>3. QED
    BY <1>1, <2>1, <2>2
<1>7. ASSUME NEW d \in Detector, NEW i \in 1 .. N + 1,
             applied'[i].ts + Delay[d] <= ScanFrom
      PROVE  \/ <<d, i>> \in judged
             \/ Delay[d] = 0 /\ (applied'[i].ts - applied'[1].ts) % ScanInterval = 0
  <2>1. CASE i = N + 1
    <3>1. Delay[d] \in Nat /\ applied'[i].ts = pending.ts
      BY <1>2, <2>1
    <3>2. Delay[d] = 0 /\ applied'[i].ts = ScanFrom
      BY <1>1, <1>7, <3>1
    <3>3. QED
      BY <1>5, <3>2
  <2>2. CASE i \in 1 .. N
    <3>1. \/ <<d, i>> \in judged
          \/ Delay[d] = 0 /\ (applied[i].ts - applied[1].ts) % ScanInterval = 0
      BY <1>2, <1>7, <2>2 DEF GridInv, OnAScan, N
    <3>2. applied # <<>>
      BY <1>1, <2>2 DEF N
    <3>3. QED
      BY <1>2, <1>3, <2>2, <3>1, <3>2
  <2>3. QED
    BY <1>1, <2>1, <2>2
<1>8. QED
  BY <1>2, <1>5, <1>6, <1>7 DEF GridInv, OnAScan

LEMMA ScanKeepsGrid ==
  ASSUME ClockType, Started, GridInv, ScanEnd
  PROVE  GridInv'
<1>1. /\ judged' = judged \cup {t \in Detector \X (1 .. Len(applied)) : Judges(t[1], t[2])}
      /\ next_scan' = next_scan + ScanInterval /\ applied' = applied
      /\ started' = started /\ now' = now /\ pending' = pending /\ stage' = stage
      /\ last_ts' = last_ts
  BY DEF ScanEnd, guardVars
<1>2. /\ next_scan \in Nat /\ applied \in Seq(Event) /\ ScanFrom \in Int
      /\ ScanFrom' = next_scan /\ ScanFrom' = ScanFrom + ScanInterval
  BY <1>1 DEF ClockType, ScanFrom
<1>3. \A i \in 1 .. Len(applied) : applied[i].ts \in Nat
  BY <1>2
<1>4. applied # <<>> \/ ~started
  BY <1>2 DEF GridInv, ScanEnd, ScanDue, ClockType
<1>5. ASSUME started, applied # <<>> PROVE OnAScan(ScanFrom)'
  <2>1. 1 \in 1 .. Len(applied)
    BY <1>2, <1>5
  <2>2. (ScanFrom - applied[1].ts) % ScanInterval = 0 /\ applied[1].ts \in Nat
    BY <1>3, <1>5, <2>1 DEF GridInv, OnAScan
  <2>3. ((ScanFrom - applied[1].ts) + ScanInterval) % ScanInterval = 0
    BY <1>2, <2>2, NextMultiple
  <2>4. ScanFrom' - applied[1].ts = (ScanFrom - applied[1].ts) + ScanInterval
    BY <1>2, <2>2
  <2>5. QED
    BY <1>1, <2>3, <2>4 DEF OnAScan
<1>6. ASSUME NEW d \in Detector, NEW i \in 1 .. Len(applied),
             applied[i].ts + Delay[d] <= ScanFrom'
      PROVE  <<d, i>> \in judged' \/ (Delay[d] = 0 /\ OnAScan(applied[i].ts))
  <2>1. CASE applied[i].ts + Delay[d] <= ScanFrom
    BY <1>1, <2>1 DEF GridInv
  <2>2. CASE ScanFrom < applied[i].ts + Delay[d]
    <3>1. Judges(d, i)
      BY <1>2, <1>6, <2>2 DEF Judges
    <3>2. QED
      BY <1>1, <3>1
  <2>3. applied[i].ts + Delay[d] \in Int
    BY <1>3
  <2>4. QED
    BY <1>2, <2>1, <2>2, <2>3
<1>7. stage \in {"scan", "final"}
  BY DEF ScanEnd, ScanDue
<1>8. QED
  BY <1>1, <1>4, <1>5, <1>6, <1>7 DEF GridInv, OnAScan

LEMMA GridKept ==
  ASSUME ClockType, Started, ClockInv, GridInv, [PipeNext]_<<guardVars, pipeVars>>
  PROVE  GridInv'
<1>1. ASSUME NEW e \in Event, ApplyAccepted(e) PROVE GridInv'
  <2>1. /\ last_ts' = e.ts /\ last_ts <= e.ts /\ e.ts \in Nat /\ stage' = "scan"
        /\ applied' = applied /\ judged' = judged /\ now' = now /\ pending' = e
        /\ started' = TRUE /\ stage = "feed"
        /\ next_scan' = IF started THEN next_scan ELSE e.ts + ScanInterval
    BY <1>1 DEF ApplyAccepted, Timely, Accept
  <2>2. CASE started
    <3>1. applied # <<>> /\ ScanFrom' = ScanFrom
      BY <2>1, <2>2 DEF GridInv, ScanFrom
    <3>2. \A i \in 1 .. Len(applied) : applied[i].ts \in Nat
      BY DEF ClockType
    <3>3. \A i \in 1 .. Len(applied) : applied[i].ts <= last_ts'
      BY <2>1, <3>2 DEF GridInv, ClockType, NoTs
    <3>4. QED
      BY <2>1, <2>2, <3>1, <3>3 DEF GridInv, OnAScan
  <2>3. CASE ~started
    <3>1. applied = <<>> /\ applied' = <<>> /\ ScanFrom' = e.ts
      BY <2>1, <2>3 DEF Started, ScanFrom
    <3>2. QED
      BY <2>1, <3>1 DEF GridInv
  <2>4. QED
    BY <2>2, <2>3
<1>2. ASSUME NEW e \in Event, ApplyDuplicate(e) PROVE GridInv'
  <2>1. /\ last_ts' = e.ts /\ last_ts <= e.ts /\ e.ts \in Nat /\ UNCHANGED pipeVars
    BY <1>2 DEF ApplyDuplicate, Timely, Drop
  <2>2. \A i \in 1 .. Len(applied) : applied[i].ts \in Nat
    BY DEF ClockType
  <2>3. \A i \in 1 .. Len(applied) : applied[i].ts <= last_ts'
    BY <2>1, <2>2 DEF GridInv, ClockType, NoTs
  <2>4. QED
    BY <2>1, <2>3 DEF pipeVars, GridInv, OnAScan, ScanFrom
<1>3. ASSUME Raise PROVE GridInv'
  BY <1>3 DEF Raise, guardVars, GridInv, OnAScan, ScanFrom
<1>4. ASSUME Finish PROVE GridInv'
  BY <1>4 DEF Finish, guardVars, GridInv, OnAScan, ScanFrom
<1>5. ASSUME Finished PROVE GridInv'
  <2>1. started => ~(next_scan <= now + History)
    BY <1>5 DEF Finished, ScanDue
  <2>2. started => now + History < next_scan
    BY <2>1 DEF ClockType
  <2>3. QED
    BY <1>5, <2>2 DEF Finished, guardVars, GridInv, OnAScan, ScanFrom
<1>6. CASE UNCHANGED <<guardVars, pipeVars>>
  BY <1>6 DEF guardVars, pipeVars, GridInv, OnAScan, ScanFrom
<1>7. QED
  BY <1>1, <1>2, <1>3, <1>4, <1>5, <1>6, SettleKeepsGrid, ScanKeepsGrid DEF PipeNext

(***************************************************************************)
(* At the end of the tape every detector has judged every event, but for   *)
(* those that came on a scan and are judged at once.                       *)
(***************************************************************************)
THEOREM DeferredAreJudgedCorrect == PipeSpec => []DeferredAreJudged
<1>1. PipeInit => GridInv
  BY DEF PipeInit, GridInv
<1>2. ClockType /\ Started /\ ClockInv /\ GridInv /\ [PipeNext]_<<guardVars, pipeVars>>
        => GridInv'
  BY GridKept
<1>3. ClockType /\ Started /\ GridInv => DeferredAreJudged
  <2> SUFFICES ASSUME ClockType, Started, GridInv, stage = "done",
                      NEW d \in Detector, NEW i \in 1 .. Len(applied),
                      Delay[d] > 0 \/ ~OnAScan(applied[i].ts)
               PROVE  <<d, i>> \in judged
    BY DEF DeferredAreJudged
  <2>1. started /\ now + History < next_scan
    BY DEF Started, GridInv
  <2>2. applied[i].ts \in Nat /\ applied[i].ts <= now /\ now \in Nat /\ next_scan \in Nat
    BY DEF ClockType, GridInv
  <2>3. Delay[d] \in Nat /\ Delay[d] + 2 * ScanInterval <= History /\ History \in Nat
    OBVIOUS
  <2>4. applied[i].ts + Delay[d] <= ScanFrom
    BY <2>1, <2>2, <2>3 DEF ScanFrom
  <2>5. <<d, i>> \in judged \/ (Delay[d] = 0 /\ OnAScan(applied[i].ts))
    BY <2>4 DEF GridInv
  <2>6. QED
    BY <2>3, <2>5
<1>4. QED
  BY <1>1, <1>2, <1>3, ClockTypeCorrect, ClockCorrect, PTL DEF PipeSpec
-----------------------------------------------------------------------------
(***************************************************************************)
(* What is kept on record is what was on record and the new timestamp: the *)
(* search for the first entry still in reach ends at the new one at last.  *)
(***************************************************************************)
LEMMA RecordedIsOnRecord ==
  ASSUME damage \in Seq(Nat), NEW ts \in Nat
  PROVE  /\ Recorded(ts) \in Seq(Nat)
         /\ \A i \in 1 .. Len(Recorded(ts)) :
              \/ Recorded(ts)[i] = ts
              \/ \E j \in 1 .. Len(damage) : Recorded(ts)[i] = damage[j]
<1> DEFINE longer == Append(damage, ts)
           OutOfReach(i) == longer[i] < ts - History - DegradeNs
           Front(i) == ~OutOfReach(i) /\ \A j \in 1 .. i - 1 : OutOfReach(j)
           front == CHOOSE i \in 1 .. Len(longer) : Front(i)
           M == Len(longer)
<1>1. /\ longer \in Seq(Nat) /\ M \in Nat /\ M = Len(damage) + 1 /\ longer[M] = ts
      /\ \A i \in 1 .. M : i = M \/ (i \in 1 .. Len(damage) /\ longer[i] = damage[i])
  OBVIOUS
<1> HIDE DEF longer, M
<1>2. \E i \in 1 .. M : Front(i)
  <2> DEFINE T == {i \in 1 .. M : ~OutOfReach(i)}
  <2>1. M \in T
    BY <1>1, DegradeAssumption
  <2> HIDE DEF OutOfReach
  <2>2. T \in SUBSET Nat /\ T # {}
    BY <1>1, <2>1
  <2>3. PICK m \in T : \A n \in T : m <= n
    BY <2>2, LeastNumber
  <2>4. m \in 1 .. M /\ ~OutOfReach(m) /\ \A j \in 1 .. m - 1 : j \in 1 .. M /\ ~(m <= j)
    BY <1>1, <2>3
  <2>5. \A j \in 1 .. m - 1 : OutOfReach(j)
    BY <2>3, <2>4
  <2>6. QED
    BY <2>4, <2>5
<1>3. front \in 1 .. M
  <2> HIDE DEF Front
  <2>1. QED
    BY <1>2 DEF M
<1>4. Recorded(ts) = SubSeq(longer, front, M)
  BY DEF Recorded, longer, M
<1> HIDE DEF front
<1>5. /\ SubSeq(longer, front, M) \in Seq(Nat) /\ Len(SubSeq(longer, front, M)) = M - front + 1
      /\ \A i \in 1 .. M - front + 1 : SubSeq(longer, front, M)[i] = longer[front + i - 1]
  <2> HIDE DEF longer
  <2>1. longer \in Seq(Nat) /\ M = Len(longer) /\ M \in Nat /\ front \in Nat /\ front >= 1
        /\ front <= M
    BY <1>1, <1>3 DEF M
  <2> HIDE DEF M
  <2>2. SubSeq(longer, front, M) \in Seq(Nat)
    BY <2>1
  <2>3. Len(SubSeq(longer, front, M)) = M - front + 1
    BY <2>1
  <2>4. QED
    BY <2>1, <2>2, <2>3
<1>6. ASSUME NEW i \in 1 .. M - front + 1
      PROVE  \/ Recorded(ts)[i] = ts
             \/ \E j \in 1 .. Len(damage) : Recorded(ts)[i] = damage[j]
  <2>1. front + i - 1 \in 1 .. M /\ Recorded(ts)[i] = longer[front + i - 1]
    BY <1>1, <1>3, <1>4, <1>5
  <2>2. QED
    BY <1>1, <2>1
<1>7. QED
  BY <1>4, <1>5, <1>6

(***************************************************************************)
(* The guard's steps are what the pipeline does to it: whatever is proved  *)
(* of the guard alone holds inside the pipeline.                           *)
(***************************************************************************)
THEOREM PipeImplementsGuard == PipeSpec => GuardSpec
<1>1. PipeInit => GuardInit
  BY DEF PipeInit
<1>2. [PipeNext]_<<guardVars, pipeVars>> => [GuardNext]_guardVars
  <2> SUFFICES ASSUME [PipeNext]_<<guardVars, pipeVars>> PROVE [GuardNext]_guardVars
    OBVIOUS
  <2>1. ASSUME NEW e \in Event, ApplyDuplicate(e) \/ ApplyAccepted(e) PROVE GuardNext
    BY <2>1 DEF ApplyDuplicate, ApplyAccepted, Timely, GuardNext, Admit
  <2>2. CASE Raise \/ ScanEnd \/ Settle \/ Finish \/ Finished
    BY <2>2 DEF Raise, ScanEnd, Settle, Finish, Finished
  <2>3. QED
    BY <2>1, <2>2 DEF PipeNext
<1>3. QED
  BY <1>1, <1>2, PTL DEF PipeSpec, GuardSpec

\* The damage on record was met by the guard.
MarksInv ==
  /\ damage \in Seq(Nat)
  /\ \A i \in 1 .. Len(damage) : damage[i] \in anomalies
  /\ alerts \in Seq(AlertRecord)
  /\ MarksAreEarned

LEMMA MarksKept ==
  ASSUME GuardTypeOK, ClockType, MarksInv, [PipeNext]_<<guardVars, pipeVars>>
  PROVE  MarksInv'
<1>1. ASSUME alerts' = alerts, anomalies \subseteq anomalies' PROVE MarksAreEarned'
  BY <1>1 DEF MarksInv, MarksAreEarned
<1>2. ASSUME alerts' = alerts, damage' = damage, anomalies \subseteq anomalies'
      PROVE  MarksInv'
  BY <1>1, <1>2 DEF MarksInv
<1>3. ASSUME NEW e \in Event, ApplyAccepted(e) PROVE MarksInv'
  <2>1. alerts' = alerts /\ anomalies \subseteq anomalies'
    BY <1>3 DEF ApplyAccepted, Accept
  <2>2. CASE degraded_until' = degraded_until
    BY <1>2, <1>3, <2>1, <2>2 DEF ApplyAccepted
  <2>3. CASE degraded_until' # degraded_until
    <3>1. e.ts \in anomalies' /\ e.ts \in Nat
      BY <1>3, <2>3 DEF ApplyAccepted, Accept
    <3>2. damage' = Recorded(e.ts)
      BY <1>3, <2>3 DEF ApplyAccepted
    <3>3. /\ Recorded(e.ts) \in Seq(Nat)
          /\ \A i \in 1 .. Len(Recorded(e.ts)) :
               \/ Recorded(e.ts)[i] = e.ts
               \/ \E j \in 1 .. Len(damage) : Recorded(e.ts)[i] = damage[j]
      BY <3>1, RecordedIsOnRecord DEF MarksInv
    <3>4. \A i \in 1 .. Len(damage') : damage'[i] \in anomalies'
      BY <2>1, <3>1, <3>2, <3>3 DEF MarksInv
    <3>5. QED
      BY <1>1, <2>1, <3>2, <3>3, <3>4 DEF MarksInv
  <2>4. QED
    BY <2>2, <2>3
<1>4. ASSUME Raise PROVE MarksInv'
  <2>1. PICK k \in Key \ raised, i \in 1 .. Len(applied), j \in 1 .. Len(applied) :
          Emit(k, applied[i].ts, applied[j].ts)
    BY <1>4 DEF Raise
  <2>2. damage' = damage /\ anomalies' = anomalies
    BY <1>4 DEF Raise, guardVars
  <2>3. CASE CooldownBlocks(k)
    BY <1>2, <2>1, <2>2, <2>3 DEF Emit
  <2>4. CASE ~CooldownBlocks(k)
    <3> DEFINE from == applied[i].ts
               till == applied[j].ts
               new == [key |-> k, start_ts |-> from, end_ts |-> till,
                       detect_ts |-> next_scan, degraded |-> OverlapsDamage(from, till)]
    <3>1. from \in Nat /\ till \in Nat
      BY DEF ClockType
    <3>2. alerts' = Append(alerts, new)
      BY <2>1, <2>4 DEF Emit
    <3>3. new \in AlertRecord
      BY <3>1 DEF AlertRecord, ClockType, OverlapsDamage
    <3>4. new.degraded => \E a \in anomalies : /\ new.start_ts - DegradeNs <= a
                                              /\ a <= new.end_ts + DegradeNs
      BY DEF OverlapsDamage, MarksInv
    <3> HIDE DEF new
    <3>5. /\ alerts' \in Seq(AlertRecord) /\ Len(alerts) \in Nat
          /\ Len(alerts') = Len(alerts) + 1 /\ alerts'[Len(alerts) + 1] = new
          /\ \A n \in 1 .. Len(alerts) : alerts'[n] = alerts[n]
      BY <3>2, <3>3 DEF MarksInv
    <3>6. ASSUME NEW n \in 1 .. Len(alerts'), alerts'[n].degraded
          PROVE  \E a \in anomalies : /\ alerts'[n].start_ts - DegradeNs <= a
                                      /\ a <= alerts'[n].end_ts + DegradeNs
      <4>1. CASE n = Len(alerts) + 1
        BY <3>4, <3>5, <3>6, <4>1
      <4>2. CASE n \in 1 .. Len(alerts)
        BY <3>5, <3>6, <4>2 DEF MarksInv, MarksAreEarned
      <4>3. QED
        BY <3>5, <4>1, <4>2
    <3>7. QED
      BY <2>2, <3>5, <3>6 DEF MarksInv, MarksAreEarned
  <2>5. QED
    BY <2>3, <2>4
<1>5. ASSUME NEW e \in Event, ApplyDuplicate(e) PROVE MarksInv'
  BY <1>2, <1>5 DEF ApplyDuplicate, Drop, pipeVars
<1>6. CASE ScanEnd \/ Settle \/ Finish \/ Finished
  BY <1>2, <1>6 DEF ScanEnd, Settle, Finish, Finished, guardVars
<1>7. CASE UNCHANGED <<guardVars, pipeVars>>
  BY <1>2, <1>7 DEF guardVars, pipeVars
<1>8. QED
  BY <1>3, <1>4, <1>5, <1>6, <1>7 DEF PipeNext

LEMMA MarksCorrect == PipeSpec => []MarksInv
<1>1. PipeInit => MarksInv
  BY DEF PipeInit, MarksInv, MarksAreEarned
<1>2. GuardTypeOK /\ ClockType /\ MarksInv /\ [PipeNext]_<<guardVars, pipeVars>> => MarksInv'
  BY MarksKept
<1>3. QED
  BY <1>1, <1>2, ClockTypeCorrect, PipeImplementsGuard, GuardTypeCorrect, PTL DEF PipeSpec

(***************************************************************************)
(* An alert is marked degraded only if the guard met an anomaly within the *)
(* hold around the stretch of tape it is about.                            *)
(***************************************************************************)
THEOREM MarksAreEarnedCorrect == PipeSpec => []MarksAreEarned
<1>1. MarksInv => MarksAreEarned
  BY DEF MarksInv
<1>2. QED
  BY <1>1, MarksCorrect, PTL

(***************************************************************************)
(* What holds of the guard on any stream holds of it inside the pipeline.  *)
(***************************************************************************)
THEOREM GuardInsidePipelineCorrect ==
  PipeSpec => /\ [](GuardTypeOK /\ RemembersTheLatest /\ NoDuplicateInHorizon
                     /\ SequenceAccounted)
              /\ DegradedExactly
BY PipeImplementsGuard, GuardTypeCorrect, RemembersTheLatestCorrect, NoDuplicateCorrect,
   SequenceAccountedCorrect, DegradedCorrect, PTL

-----------------------------------------------------------------------------
LEMMA PipeTypeKept ==
  ASSUME PipeTypeOK, GuardTypeOK, ClockType, SinkType', MarksInv', PipeNext
  PROVE  PipeTypeOK'
<1>1. damage' \in Seq(Nat) /\ alerts' \in Seq(AlertRecord)
      /\ \A k \in DOMAIN cooldown' : cooldown'[k] \in Nat
  BY DEF MarksInv, SinkType
<1>2. ASSUME DOMAIN cooldown' \subseteq Key, started' \in BOOLEAN, now' \in Nat,
             next_scan' \in Nat, suppressed' \in Nat,
             ctx_degraded' \in [Symbol -> BOOLEAN], applied' \in Seq(Event),
             IF stage' = "scan" THEN pending' \in Event ELSE pending' = NoEvent,
             stage' \in {"feed", "scan", "final", "done"}, raised' \subseteq Key
      PROVE  PipeTypeOK'
  BY <1>1, <1>2 DEF PipeTypeOK, AlertRecord
<1>3. ASSUME NEW e \in Event, ApplyDuplicate(e) PROVE PipeTypeOK'
  BY <1>2, <1>3 DEF ApplyDuplicate, pipeVars, PipeTypeOK
<1>4. ASSUME NEW e \in Event, ApplyAccepted(e) PROVE PipeTypeOK'
  <2>1. next_scan' \in Nat
    BY <1>4 DEF ApplyAccepted, PipeTypeOK
  <2>2. QED
    BY <1>2, <1>4, <2>1 DEF ApplyAccepted, PipeTypeOK
<1>5. ASSUME Raise PROVE PipeTypeOK'
  <2>1. PICK k \in Key \ raised, i \in 1 .. Len(applied), j \in 1 .. Len(applied) :
          Emit(k, applied[i].ts, applied[j].ts) /\ raised' = raised \cup {k}
    BY <1>5 DEF Raise
  <2>2. DOMAIN cooldown \subseteq Key /\ suppressed \in Nat
    BY DEF PipeTypeOK
  <2>3. suppressed' \in Nat
    BY <2>1, <2>2 DEF Emit
  <2>4. DOMAIN cooldown' \subseteq Key
    BY <2>1, <2>2 DEF Emit
  <2>5. QED
    BY <1>2, <1>5, <2>1, <2>3, <2>4 DEF Raise, PipeTypeOK
<1>6. ASSUME ScanEnd PROVE PipeTypeOK'
  BY <1>2, <1>6 DEF ScanEnd, PipeTypeOK
<1>7. ASSUME Settle PROVE PipeTypeOK'
  <2>1. pending \in Event /\ pending.ts \in Nat /\ pending.sym \in Symbol
    BY <1>7 DEF Settle, PipeTypeOK, Symbol
  <2>2. (pending.ts < degraded_until) \in BOOLEAN
    OBVIOUS
  <2>3. ctx_degraded' \in [Symbol -> BOOLEAN]
    BY <1>7, <2>1, <2>2 DEF Settle, PipeTypeOK
  <2>4. applied' \in Seq(Event)
    BY <1>7, <2>1 DEF Settle, PipeTypeOK
  <2>5. QED
    BY <1>2, <1>7, <2>1, <2>3, <2>4 DEF Settle, PipeTypeOK
<1>8. ASSUME Finish \/ Finished PROVE PipeTypeOK'
  BY <1>2, <1>8 DEF Finish, Finished, PipeTypeOK
<1>9. QED
  BY <1>3, <1>4, <1>5, <1>6, <1>7, <1>8 DEF PipeNext

(***************************************************************************)
(* Type correctness of the pipeline around the guard.                      *)
(***************************************************************************)
THEOREM PipeTypeCorrect == PipeSpec => []PipeTypeOK
<1>1. PipeInit => PipeTypeOK
  <2> SUFFICES ASSUME PipeInit PROVE PipeTypeOK
    OBVIOUS
  <2>1. /\ damage \in Seq(Nat) /\ applied \in Seq(Event)
        /\ alerts \in Seq([key : Key, start_ts : Nat, end_ts : Nat, detect_ts : Nat,
                           degraded : BOOLEAN])
        /\ DOMAIN cooldown = {} /\ ctx_degraded \in [Symbol -> BOOLEAN]
    BY DEF PipeInit
  <2>2. QED
    BY <2>1 DEF PipeInit, PipeTypeOK
<1>2. UNCHANGED <<guardVars, pipeVars>> /\ PipeTypeOK => PipeTypeOK'
  BY DEF pipeVars, PipeTypeOK
<1>3. PipeTypeOK /\ GuardTypeOK /\ ClockType /\ SinkType' /\ MarksInv'
        /\ [PipeNext]_<<guardVars, pipeVars>> => PipeTypeOK'
  BY <1>2, PipeTypeKept
<1>4. SpacingInv => SinkType
  BY DEF SpacingInv
<1>5. QED
  BY <1>1, <1>3, <1>4, ClockTypeCorrect, SpacingCorrect, MarksCorrect, PipeImplementsGuard,
     GuardTypeCorrect, PTL DEF PipeSpec
=============================================================================
