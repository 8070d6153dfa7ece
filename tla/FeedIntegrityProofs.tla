------------------------- MODULE FeedIntegrityProofs -------------------------
(***************************************************************************)
(* TLAPS proofs about the two feed-integrity stages in series, for every   *)
(* set of clean tapes, every capacity and every size of the guard's        *)
(* memory.  What the stages keep to alone (ReorderBufferProofs,            *)
(* FeedGuardProofs) is taken over step by step.                            *)
(***************************************************************************)
EXTENDS FeedIntegrity, FiniteSetTheorems, TLAPS

USE TapesAssumption, RatesAssumption, SkewsAssumption, FeedAssumption

TapeEvent == UNION {ToSet(s) : s \in Tapes}

\* The lines a damaged tape may have.
Line == {Skewed(ev, delta) : ev \in TapeEvent, delta \in {0} \cup Skews}

Buffer == INSTANCE ReorderBufferProofs WITH MaxLines <- 0, Event <- Line
Judge == INSTANCE FeedGuardProofs WITH MaxEvents <- 0, Event <- Line

LEMMA EventFields ==
  ASSUME NEW s \in Tapes, NEW k \in 1 .. Len(s)
  PROVE  /\ s[k] \in TapeEvent /\ Len(s) \in Nat /\ DOMAIN s = 1 .. Len(s)
         /\ s[k].ts \in Nat /\ s[k].seq = k /\ s[k].eid = k
         /\ \A j \in 1 .. Len(s) : k <= j => s[k].ts <= s[j].ts
<1>1. s \in Seq(ToSet(s))
  OBVIOUS
<1>2. DOMAIN s = 1 .. Len(s) /\ Len(s) \in Nat /\ s[k] \in ToSet(s)
  BY <1>1
<1>3. QED
  BY <1>2 DEF TapeEvent

LEMMA SkewedFields ==
  ASSUME NEW ev \in TapeEvent, NEW delta \in Int
  PROVE  /\ Skewed(ev, delta).eid = ev.eid /\ Skewed(ev, delta).seq = ev.seq
         /\ Skewed(ev, delta).ts \in Nat /\ ev.ts \in Nat
         /\ ev.seq \in Nat /\ ev.eid \in Nat
         /\ delta = 0 => Skewed(ev, delta).ts = ev.ts
<1>1. PICK s \in Tapes : ev \in ToSet(s)
  BY DEF TapeEvent
<1>2. PICK k \in DOMAIN s : ev = s[k]
  BY <1>1 DEF ToSet
<1>3. s \in Seq(ToSet(s))
  OBVIOUS
<1>4. k \in Nat
  BY <1>2, <1>3
<1>5. {"ts", "seq", "eid"} \subseteq DOMAIN ev /\ ev.ts \in Nat /\ ev.seq \in Nat /\ ev.eid \in Nat
  BY <1>2, <1>4
<1>6. QED
  BY <1>5 DEF Skewed

LEMMA LineFields ==
  ASSUME NEW e \in Line
  PROVE  e.ts \in Nat /\ e.seq \in Nat /\ e.eid \in Nat
BY SkewedFields DEF Line

LEMMA StageAssumptions ==
  /\ Buffer!EventAssumption /\ Buffer!ToleranceAssumption
  /\ Buffer!CapacityAssumption /\ Buffer!MaxLinesAssumption
  /\ Judge!GuardEventAssumption /\ Judge!DegradeAssumption
  /\ Judge!DedupAssumption /\ Judge!MaxEventsAssumption
BY LineFields
   DEF Buffer!EventAssumption, Buffer!ToleranceAssumption,
       Buffer!CapacityAssumption, Buffer!MaxLinesAssumption,
       Judge!GuardEventAssumption, Judge!DegradeAssumption,
       Judge!DedupAssumption, Judge!MaxEventsAssumption

-----------------------------------------------------------------------------
TapeOK ==
  /\ events \in Tapes
  /\ taken \in 0 .. Len(events)
  /\ lines \in Seq(Line)
  /\ position \in Nat
  /\ position > 0 => taken = Len(events)

FeedTypeOK ==
  /\ TapeOK
  /\ Buffer!TypeOK
  /\ Judge!GuardTypeOK
  /\ applied \in 0 .. Len(out)

\* The steps of the composition are steps of its stages.
LEMMA PushIsStep ==
  ASSUME FeedTypeOK, Push
  PROVE  /\ Buffer!Step
         /\ Buffer!PushLate(lines[fed + 1]) \/ Buffer!PushHeld(lines[fed + 1])
         /\ lines[fed + 1] \in Line /\ fed + 1 \in 1 .. Len(lines)
<1>1. fed \in Nat /\ lines \in Seq(Line) /\ fed < Len(lines)
  BY DEF FeedTypeOK, TapeOK, Buffer!TypeOK, Push
<1>2. lines[fed + 1] \in Line /\ fed + 1 \in 1 .. Len(lines)
  BY <1>1
<1>3. Buffer!PushLate(lines[fed + 1]) \/ Buffer!PushHeld(lines[fed + 1])
  BY DEF Push, Reorder!PushLate, Reorder!PushHeld, Buffer!PushLate, Buffer!PushHeld,
         Reorder!Late, Buffer!Late, Reorder!Max2, Buffer!Max2
<1>4. QED
  BY <1>2, <1>3 DEF Buffer!Step

LEMMA BufferIsStep ==
  /\ Drain => Buffer!Drain
  /\ EndOfTape => Buffer!EndOfTape
  /\ Flush => Buffer!Flush
  /\ Drain \/ EndOfTape \/ Flush => Buffer!Step
<1>1. Drain => Buffer!Drain
  <2>1. Reorder!Top(heap) = Buffer!Top(heap)
    BY DEF Reorder!Top, Buffer!Top, Reorder!Later, Buffer!Later
  <2>2. Reorder!Ready = Buffer!Ready
    BY <2>1 DEF Reorder!Ready, Buffer!Ready, Reorder!Watermark, Buffer!Watermark
  <2>3. Reorder!OverCapacity <=> Buffer!OverCapacity
    BY DEF Reorder!OverCapacity, Buffer!OverCapacity, Reorder!Cardinality, Buffer!Cardinality
  <2>4. \A n : Reorder!Pop(n) <=> Buffer!Pop(n)
    BY DEF Reorder!Pop, Buffer!Pop
  <2>5. /\ Reorder!PopReady => Buffer!PopReady
        /\ Reorder!PopOverflow => Buffer!PopOverflow
        /\ Reorder!DrainDone => Buffer!DrainDone
    BY <2>1, <2>2, <2>3, <2>4
       DEF Reorder!PopReady, Buffer!PopReady, Reorder!PopOverflow, Buffer!PopOverflow,
           Reorder!DrainDone, Buffer!DrainDone
  <2>6. QED
    BY <2>5 DEF Drain, Reorder!Drain, Buffer!Drain
<1>2. EndOfTape => Buffer!EndOfTape
  BY DEF EndOfTape, Reorder!EndOfTape, Buffer!EndOfTape
<1>3. Flush => Buffer!Flush
  BY DEF Flush, Reorder!Flush, Buffer!Flush, Reorder!PopFlush, Buffer!PopFlush,
         Reorder!FlushDone, Buffer!FlushDone, Reorder!Top, Buffer!Top, Reorder!Later,
         Buffer!Later, Reorder!Pop, Buffer!Pop
<1>4. QED
  BY <1>1, <1>2, <1>3 DEF Buffer!Step

LEMMA ApplyIsStep ==
  ASSUME FeedTypeOK, Apply
  PROVE  /\ Judge!GuardStep
         /\ Judge!Drop(out[applied + 1].event) \/ Judge!Accept(out[applied + 1].event)
         /\ out[applied + 1].event \in Line
         /\ applied + 1 \in 1 .. Len(out) /\ applied' = applied + 1
<1>1. /\ out \in Seq(Buffer!Node) /\ applied \in Nat /\ Len(out) \in Nat
      /\ applied < Len(out) /\ applied' = applied + 1
  BY DEF FeedTypeOK, Buffer!TypeOK, Apply
<1>2. out[applied + 1] \in Buffer!Node
  BY <1>1
<1>3. out[applied + 1].event \in Line
  BY <1>2 DEF Buffer!Node
<1>4. Judge!Drop(out[applied + 1].event) \/ Judge!Accept(out[applied + 1].event)
  BY DEF Apply, Guard!Admit, Guard!Drop, Judge!Drop, Guard!Accept, Judge!Accept,
         Guard!IsDuplicate, Judge!IsDuplicate, Guard!Taint, Judge!Taint,
         Guard!Remember, Judge!Remember, Guard!IsGap, Judge!IsGap,
         Guard!IsBackward, Judge!IsBackward
<1>5. Judge!GuardStep
  BY <1>3, <1>4 DEF Judge!GuardStep, Judge!Admit
<1>6. QED
  BY <1>1, <1>3, <1>4, <1>5

\* What each step leaves alone.
LEMMA StepsApart ==
  /\ Damage => UNCHANGED Buffer!vars /\ UNCHANGED Judge!guardVars /\ applied' = applied
  /\ Push \/ Drain \/ EndOfTape \/ Flush =>
       UNCHANGED defectVars /\ UNCHANGED Judge!guardVars /\ applied' = applied
  /\ Apply => UNCHANGED defectVars /\ UNCHANGED Buffer!vars
  /\ UNCHANGED feedVars => /\ UNCHANGED defectVars /\ UNCHANGED Buffer!vars
                          /\ UNCHANGED Judge!guardVars /\ applied' = applied
BY DEF Damage, Push, Drain, EndOfTape, Flush, Apply, feedVars, reorderVars, guardVars,
       Buffer!vars, Judge!guardVars

LEMMA StagesInitially ==
  ASSUME FeedInit
  PROVE  Buffer!Init /\ Judge!GuardInit /\ applied = 0 /\ DefectsInit
BY DEF FeedInit, Reorder!Init, Buffer!Init, Guard!GuardInit, Judge!GuardInit,
       Reorder!MinTs, Buffer!MinTs, Guard!NoTs, Judge!NoTs

-----------------------------------------------------------------------------
(***************************************************************************)
(* The first pass writes only lines that stem from an event of the tape,   *)
(* and the second only exchanges them.                                     *)
(***************************************************************************)
LEMMA WrittenLines ==
  ASSUME TapeOK, WriteEvent
  PROVE  \E e \in Line, copies \in {1, 2} :
           /\ lines' = lines \o [c \in 1 .. copies |-> e]
           /\ lines' \in Seq(Line) /\ Len(lines') = Len(lines) + copies
           /\ \A i \in 1 .. Len(lines) : lines'[i] = lines[i]
           /\ \A i \in Len(lines) + 1 .. Len(lines) + copies : lines'[i] = e
           /\ e.eid = taken + 1 /\ e.seq = taken + 1
           /\ "skew" \notin Rates => e.ts = events[taken + 1].ts
           /\ "duplicate" \notin Rates => copies = 1
           /\ taken + 1 \in 1 .. Len(events)
<1> DEFINE ev == events[taken + 1]
<1>1. PICK delta \in {0} \cup (IF "skew" \in Rates THEN Skews ELSE {}),
           copies \in {1} \cup (IF "duplicate" \in Rates THEN {2} ELSE {}) :
        lines' = lines \o [c \in 1 .. copies |-> Skewed(ev, delta)]
  BY ZenonT(30) DEF WriteEvent
<1>2. taken + 1 \in 1 .. Len(events) /\ Len(events) \in Nat
  <2>1. Len(events) \in Nat
    <3>1. events \in Seq(ToSet(events))
      BY DEF TapeOK
    <3>2. QED
      BY <3>1
  <2>2. QED
    BY <2>1 DEF TapeOK, WriteEvent, MoreEvents
<1>3. ev \in TapeEvent /\ ev.eid = taken + 1 /\ ev.seq = taken + 1
  BY <1>2, EventFields DEF TapeOK
<1> DEFINE e == Skewed(ev, delta)
<1>4. /\ e \in Line /\ e.eid = taken + 1 /\ e.seq = taken + 1
      /\ "skew" \notin Rates => e.ts = ev.ts
  BY <1>3, SkewedFields DEF Line
<1> HIDE DEF e, ev
<1>5. /\ copies \in {1, 2} /\ lines' = lines \o [c \in 1 .. copies |-> e]
      /\ "duplicate" \notin Rates => copies = 1
  BY <1>1 DEF e
<1>6. lines \in Seq(Line) /\ [c \in 1 .. copies |-> e] \in Seq(Line)
      /\ Len([c \in 1 .. copies |-> e]) = copies
  BY <1>4, <1>5 DEF TapeOK
<1>7. /\ lines' \in Seq(Line) /\ Len(lines') = Len(lines) + copies
      /\ \A i \in 1 .. Len(lines) : lines'[i] = lines[i]
      /\ \A i \in Len(lines) + 1 .. Len(lines) + copies : lines'[i] = e
  BY <1>5, <1>6
<1>8. QED
  BY <1>2, <1>4, <1>5, <1>7 DEF ev

LEMMA SwappedLines ==
  ASSUME TapeOK, Transpose
  PROVE  /\ lines' \in Seq(Line) /\ Len(lines') = Len(lines) /\ Len(lines) \in Nat
         /\ position \in 1 .. Len(lines) /\ position + 1 \in 1 .. Len(lines)
         /\ lines'[position] = lines[position + 1]
         /\ lines'[position + 1] = lines[position]
         /\ \A i \in 1 .. Len(lines) \ {position, position + 1} : lines'[i] = lines[i]
<1>1. /\ lines \in Seq(Line) /\ Len(lines) \in Nat
      /\ position \in 1 .. Len(lines) /\ position + 1 \in 1 .. Len(lines)
  BY DEF TapeOK, Transpose, MorePairs
<1>2. lines' = [lines EXCEPT ![position] = lines[position + 1],
                            ![position + 1] = lines[position]]
  BY DEF Transpose, SwappedAt
<1>3. lines[position] \in Line /\ lines[position + 1] \in Line
  BY <1>1
<1>4. lines' \in Seq(Line) /\ Len(lines') = Len(lines)
  BY <1>1, <1>2, <1>3
<1>5. QED
  BY <1>1, <1>2, <1>4

LEMMA TapeKept ==
  ASSUME TapeOK, Damage
  PROVE  TapeOK'
<1>0. events' = events /\ Len(events) \in Nat
  <2>1. events \in Seq(ToSet(events))
    BY DEF TapeOK
  <2>2. QED
    BY <2>1 DEF Damage, DefectsNext, DropEvent, WriteEvent, StartSecondPass, Transpose,
                LeaveInPlace
<1>1. CASE DropEvent
  BY <1>0, <1>1 DEF TapeOK, DropEvent, MoreEvents
<1>2. CASE WriteEvent
  <2>1. lines' \in Seq(Line)
    BY <1>2, WrittenLines
  <2>2. QED
    BY <1>0, <1>2, <2>1 DEF TapeOK, WriteEvent, MoreEvents
<1>3. CASE StartSecondPass
  BY <1>0, <1>3 DEF TapeOK, StartSecondPass
<1>4. CASE Transpose
  BY <1>0, <1>4, SwappedLines DEF TapeOK, Transpose, MorePairs
<1>5. CASE LeaveInPlace
  BY <1>0, <1>5 DEF TapeOK, LeaveInPlace, MorePairs
<1>6. QED
  BY <1>1, <1>2, <1>3, <1>4, <1>5 DEF Damage, DefectsNext

LEMMA FeedTypeKept ==
  ASSUME FeedTypeOK, [FeedNext]_feedVars
  PROVE  FeedTypeOK'
<1>1. Buffer!TypeOK /\ Judge!GuardTypeOK /\ applied \in 0 .. Len(out) /\ TapeOK
      /\ Len(out) \in Nat
  BY DEF FeedTypeOK, Buffer!TypeOK
<1>2. ASSUME UNCHANGED Buffer!vars PROVE Buffer!TypeOK' /\ out' = out
  BY <1>1, <1>2 DEF Buffer!vars, Buffer!TypeOK
<1>3. ASSUME UNCHANGED Judge!guardVars PROVE Judge!GuardTypeOK'
  BY <1>1, <1>3 DEF Judge!guardVars, Judge!GuardTypeOK
<1>4. ASSUME UNCHANGED defectVars PROVE TapeOK'
  BY <1>1, <1>4 DEF defectVars, TapeOK
<1>5. ASSUME Buffer!Step
      PROVE  Buffer!TypeOK' /\ Len(out') \in Nat /\ Len(out') >= Len(out)
  <2>1. Buffer!TypeOK'
    BY <1>1, <1>5, StageAssumptions, Buffer!TypeKept
  <2>2. \/ out' = out
        \/ \E n : out' = Append(out, n)
    BY <1>5 DEF Buffer!Step, Buffer!PushLate, Buffer!PushHeld, Buffer!Drain, Buffer!PopReady,
                Buffer!PopOverflow, Buffer!DrainDone, Buffer!EndOfTape, Buffer!Flush,
                Buffer!PopFlush, Buffer!FlushDone, Buffer!Pop, Buffer!vars
  <2>3. Len(out') \in Nat /\ Len(out') >= Len(out)
    BY <1>1, <2>1, <2>2 DEF Buffer!TypeOK
  <2>4. QED
    BY <2>1, <2>3
<1>6. CASE Damage
  BY <1>1, <1>2, <1>3, <1>6, TapeKept, StepsApart DEF FeedTypeOK
<1>7. CASE Push \/ Drain \/ EndOfTape \/ Flush
  <2>1. Buffer!Step
    BY <1>7, PushIsStep, BufferIsStep
  <2>2. QED
    BY <1>1, <1>3, <1>4, <1>5, <1>7, <2>1, StepsApart DEF FeedTypeOK
<1>8. CASE Apply
  <2>1. Judge!GuardTypeOK'
    BY <1>1, <1>8, ApplyIsStep, StageAssumptions, Judge!GuardTypeKept
  <2>2. QED
    BY <1>1, <1>2, <1>4, <1>8, <2>1, ApplyIsStep, StepsApart DEF FeedTypeOK
<1>9. CASE UNCHANGED feedVars
  BY <1>1, <1>2, <1>3, <1>4, <1>9, StepsApart DEF FeedTypeOK
<1>10. QED
  BY <1>6, <1>7, <1>8, <1>9 DEF FeedNext

(***************************************************************************)
(* Type correctness of the tape, the two stages and the loop between them. *)
(***************************************************************************)
THEOREM FeedTypeCorrect == FeedSpec => []FeedTypeOK
<1>1. FeedInit => FeedTypeOK
  <2> SUFFICES ASSUME FeedInit PROVE FeedTypeOK
    OBVIOUS
  <2>1. Buffer!TypeOK /\ applied \in 0 .. Len(out)
    BY StagesInitially DEF Buffer!Init, Buffer!TypeOK, Buffer!MinTs
  <2>2. Judge!GuardTypeOK
    <3>1. /\ seen_order \in Seq({e.eid : e \in Line}) /\ admitted \in Seq(Line)
          /\ stats \in Judge!Stats
      BY StagesInitially DEF Judge!GuardInit, Judge!Stats
    <3>2. QED
      BY <3>1, StagesInitially DEF Judge!GuardInit, Judge!GuardTypeOK
  <2>3. TapeOK
    <3>1. events \in Tapes /\ lines = <<>> /\ taken = 0 /\ position = 0
      BY StagesInitially DEF DefectsInit
    <3>2. events \in Seq(ToSet(events))
      BY <3>1
    <3>3. Len(events) \in Nat
      BY <3>2
    <3>4. QED
      BY <3>1, <3>3 DEF TapeOK
  <2>4. QED
    BY <2>1, <2>2, <2>3 DEF FeedTypeOK
<1>2. FeedTypeOK /\ [FeedNext]_feedVars => FeedTypeOK'
  BY FeedTypeKept
<1>3. QED
  BY <1>1, <1>2, PTL DEF FeedSpec

-----------------------------------------------------------------------------
\* While the guard has counted no gap and no step back, it has admitted a
\* contiguous run; once it has, the feed is marked for good.
ContiguousInv ==
  /\ have_last <=> Len(admitted) > 0
  /\ ~have_last => last_seq = 0
  /\ stats.sequence_gaps + stats.sequence_backward = 0 =>
       /\ have_last => last_seq = admitted[Len(admitted)].seq
       /\ \A i \in Admitted \ {Len(admitted)} : admitted[i + 1].seq = admitted[i].seq + 1
  /\ stats.sequence_gaps + stats.sequence_backward > 0 => degraded_until # Guard!NoTs

LEMMA ContiguousKept ==
  ASSUME Judge!GuardTypeOK, ContiguousInv, Judge!GuardStep
  PROVE  ContiguousInv'
<1>1. /\ stats.sequence_gaps \in Nat /\ stats.sequence_backward \in Nat
      /\ degraded_until \in Nat \cup {Guard!NoTs} /\ last_seq \in Nat
      /\ Len(admitted) \in Nat /\ admitted \in Seq(Line) /\ have_last \in BOOLEAN
      /\ Guard!NoTs = -1
  BY DEF Judge!GuardTypeOK, Judge!Stats, Judge!NoTs, Guard!NoTs
<1>2. ASSUME NEW e \in Line PROVE Judge!Taint(e.ts) \in Nat
  BY <1>1, LineFields DEF Judge!Taint, Guard!NoTs
<1>3. ASSUME NEW e \in Line, Judge!Drop(e) PROVE ContiguousInv'
  <2>1. /\ stats'.sequence_gaps = stats.sequence_gaps
        /\ stats'.sequence_backward = stats.sequence_backward
        /\ degraded_until' \in Nat /\ admitted' = admitted
        /\ have_last' = have_last /\ last_seq' = last_seq
    BY <1>2, <1>3 DEF Judge!Drop, Judge!GuardTypeOK, Judge!Stats
  <2>2. QED
    BY <1>1, <2>1 DEF ContiguousInv, Admitted, Guard!NoTs
<1>4. ASSUME NEW e \in Line, Judge!Accept(e) PROVE ContiguousInv'
  <2> DEFINE N == Len(admitted)
             g == IF Judge!IsGap(e) THEN 1 ELSE 0
             b == IF Judge!IsBackward(e) THEN 1 ELSE 0
  <2>1. /\ stats'.sequence_gaps = stats.sequence_gaps + g
        /\ stats'.sequence_backward = stats.sequence_backward + b
    BY <1>4, StageAssumptions, Judge!AcceptStats
  <2>2. /\ N \in Nat /\ Len(admitted') = N + 1 /\ admitted'[N + 1] = e
        /\ \A i \in 1 .. N : admitted'[i] = admitted[i]
    BY <1>4, StageAssumptions, Judge!AcceptAppends
  <2>3. /\ have_last' = TRUE
        /\ last_seq' = IF e.seq >= last_seq THEN e.seq ELSE last_seq
        /\ degraded_until' = IF Judge!IsGap(e) \/ Judge!IsBackward(e)
                               THEN Judge!Taint(e.ts) ELSE degraded_until
    BY <1>4 DEF Judge!Accept
  <2>4. e.seq \in Nat
    BY LineFields
  <2>5. CASE stats.sequence_gaps + stats.sequence_backward > 0
    <3>1. degraded_until' # Guard!NoTs
      BY <1>1, <1>2, <2>3, <2>5 DEF ContiguousInv
    <3>2. stats'.sequence_gaps + stats'.sequence_backward # 0
      BY <1>1, <2>1, <2>5
    <3>3. QED
      BY <2>2, <2>3, <3>1, <3>2 DEF ContiguousInv
  <2>6. CASE stats.sequence_gaps + stats.sequence_backward = 0
    <3>1. CASE Judge!IsGap(e) \/ Judge!IsBackward(e)
      <4>1. degraded_until' # Guard!NoTs
        BY <1>1, <1>2, <2>3, <3>1
      <4>2. stats'.sequence_gaps + stats'.sequence_backward # 0
        BY <1>1, <2>1, <3>1
      <4>3. QED
        BY <2>2, <2>3, <4>1, <4>2 DEF ContiguousInv
    <3>2. CASE ~Judge!IsGap(e) /\ ~Judge!IsBackward(e)
      <4>1. stats'.sequence_gaps + stats'.sequence_backward = 0
        BY <1>1, <2>1, <2>6, <3>2
      <4>2. have_last => e.seq = last_seq + 1 /\ last_seq = admitted[N].seq
        BY <1>1, <2>4, <2>6, <3>2 DEF Judge!IsGap, Judge!IsBackward, ContiguousInv
      <4>3. last_seq' = e.seq
        <5>1. CASE have_last
          BY <1>1, <2>3, <2>4, <4>2, <5>1
        <5>2. CASE ~have_last
          BY <1>1, <2>3, <2>4, <5>2 DEF ContiguousInv
        <5>3. QED
          BY <1>1, <5>1, <5>2
      <4>4. ASSUME NEW i \in Admitted' \ {N + 1}
            PROVE  admitted'[i + 1].seq = admitted'[i].seq + 1
        <5>1. i \in 1 .. N /\ admitted'[i] = admitted[i]
          BY <2>2 DEF Admitted
        <5>2. CASE i = N
          BY <1>1, <2>2, <4>2, <5>1, <5>2 DEF ContiguousInv
        <5>3. CASE i # N
          <6>1. i \in Admitted \ {N} /\ i + 1 \in 1 .. N
            BY <1>1, <5>1, <5>3 DEF Admitted
          <6>2. admitted[i + 1].seq = admitted[i].seq + 1
            BY <2>6, <6>1 DEF ContiguousInv
          <6>3. admitted'[i + 1] = admitted[i + 1]
            BY <2>2, <6>1
          <6>4. QED
            BY <5>1, <6>2, <6>3
        <5>4. QED
          BY <5>2, <5>3
      <4>5. QED
        BY <2>2, <2>3, <4>1, <4>3, <4>4 DEF ContiguousInv
    <3>3. QED
      BY <3>1, <3>2
  <2>7. QED
    BY <1>1, <2>5, <2>6
<1>5. CASE UNCHANGED Judge!guardVars
  BY <1>5 DEF Judge!guardVars, ContiguousInv, Admitted
<1>6. QED
  BY <1>3, <1>4, <1>5 DEF Judge!GuardStep, Judge!Admit

(***************************************************************************)
(* Whatever damage the tape has, timestamps skewed included: if the events *)
(* applied do not run on without a break, that has been counted and the    *)
(* feed has been marked.                                                   *)
(***************************************************************************)
THEOREM DamageIsReportedCorrect == FeedSpec => []DamageIsReported
<1>1. FeedInit => ContiguousInv
  BY StagesInitially DEF Judge!GuardInit, ContiguousInv, Admitted
<1>2. FeedTypeOK /\ ContiguousInv /\ [FeedNext]_feedVars => ContiguousInv'
  <2> SUFFICES ASSUME FeedTypeOK, ContiguousInv, [FeedNext]_feedVars PROVE ContiguousInv'
    OBVIOUS
  <2>1. Judge!GuardStep
    BY ApplyIsStep, StepsApart DEF FeedNext, Judge!GuardStep
  <2>2. QED
    BY <2>1, ContiguousKept DEF FeedTypeOK
<1>3. FeedTypeOK /\ ContiguousInv => DamageIsReported
  <2> SUFFICES ASSUME FeedTypeOK, ContiguousInv PROVE DamageIsReported
    OBVIOUS
  <2>1. stats.sequence_gaps \in Nat /\ stats.sequence_backward \in Nat
    BY DEF FeedTypeOK, Judge!GuardTypeOK, Judge!Stats
  <2>2. QED
    BY <2>1 DEF ContiguousInv, DamageIsReported
<1>4. QED
  BY <1>1, <1>2, <1>3, FeedTypeCorrect, PTL DEF FeedSpec

-----------------------------------------------------------------------------
\* A line carries the number of an event of the clean tape, and only neighbours
\* are out of order: once the second pass is behind them, in pairs that do not
\* overlap.
NumberOrder ==
  /\ \A i \in 1 .. Len(lines) : lines[i].eid \in 1 .. taken /\ lines[i].seq = lines[i].eid
  /\ \A i, j \in 1 .. Len(lines) :
       i < j /\ (j >= i + 2 \/ j >= position) => lines[i].eid <= lines[j].eid

LEMMA NumberOrderKept ==
  ASSUME TapeOK, NumberOrder, Damage
  PROVE  NumberOrder'
<1>0. /\ events' = events /\ taken \in Nat /\ Len(lines) \in Nat /\ position \in Nat
      /\ Len(events) \in Nat
  <2>1. events \in Seq(ToSet(events))
    BY DEF TapeOK
  <2>2. QED
    BY <2>1 DEF TapeOK, Damage, DefectsNext, DropEvent, WriteEvent, StartSecondPass, Transpose,
                LeaveInPlace
<1>1. CASE DropEvent
  <2>1. lines' = lines /\ position' = position /\ taken' = taken + 1
    BY <1>1 DEF DropEvent
  <2>2. \A i \in 1 .. Len(lines) : lines[i].eid \in 1 .. taken'
    BY <1>0, <2>1 DEF NumberOrder
  <2>3. QED
    BY <1>0, <2>1, <2>2 DEF NumberOrder
<1>2. CASE WriteEvent
  <2>1. PICK e \in Line, copies \in {1, 2} :
           /\ Len(lines') = Len(lines) + copies
           /\ \A i \in 1 .. Len(lines) : lines'[i] = lines[i]
           /\ \A i \in Len(lines) + 1 .. Len(lines) + copies : lines'[i] = e
           /\ e.eid = taken + 1 /\ e.seq = taken + 1
    BY <1>2, WrittenLines
  <2>2. taken' = taken + 1 /\ position = 0 /\ position' = 0
    BY <1>2 DEF WriteEvent, MoreEvents
  <2>3. \A i \in 1 .. Len(lines') :
          \/ i \in 1 .. Len(lines) /\ lines'[i] = lines[i]
          \/ i > Len(lines) /\ lines'[i] = e
    BY <1>0, <2>1
  <2>4. \A i \in 1 .. Len(lines') :
          /\ lines'[i].eid \in 1 .. taken'
          /\ lines'[i].seq = lines'[i].eid
    BY <1>0, <2>1, <2>2, <2>3 DEF NumberOrder
  <2>5. ASSUME NEW i \in 1 .. Len(lines'), NEW j \in 1 .. Len(lines'), i < j
        PROVE  lines'[i].eid <= lines'[j].eid
    <3>1. CASE j > Len(lines) /\ lines'[j] = e
      BY <1>0, <2>1, <2>2, <2>4, <3>1
    <3>2. CASE j \in 1 .. Len(lines) /\ lines'[j] = lines[j]
      <4>1. i \in 1 .. Len(lines) /\ lines'[i] = lines[i]
        BY <1>0, <2>3, <2>5, <3>2
      <4>2. QED
        BY <1>0, <2>2, <2>5, <3>2, <4>1 DEF NumberOrder
    <3>3. QED
      BY <2>3, <3>1, <3>2
  <2>6. QED
    BY <2>4, <2>5 DEF NumberOrder
<1>3. CASE StartSecondPass \/ LeaveInPlace
  BY <1>0, <1>3 DEF NumberOrder, StartSecondPass, LeaveInPlace
<1>4. CASE Transpose
  <2> DEFINE p == position
  <2>1. /\ Len(lines') = Len(lines) /\ p \in 1 .. Len(lines) /\ p + 1 \in 1 .. Len(lines)
        /\ lines'[p] = lines[p + 1] /\ lines'[p + 1] = lines[p]
        /\ \A i \in 1 .. Len(lines) \ {p, p + 1} : lines'[i] = lines[i]
        /\ taken' = taken /\ position' = p + 2
    BY <1>4, SwappedLines DEF Transpose
  <2> HIDE DEF p
  <2>2. \A i, j \in 1 .. Len(lines) :
          i < j /\ (j >= i + 2 \/ j >= p) => lines[i].eid <= lines[j].eid
    BY DEF NumberOrder, p
  <2>3. \A i \in 1 .. Len(lines') :
          /\ lines'[i].eid \in 1 .. taken'
          /\ lines'[i].seq = lines'[i].eid
    BY <1>0, <2>1 DEF NumberOrder
  <2>4. ASSUME NEW i \in 1 .. Len(lines), NEW j \in 1 .. Len(lines), i < j,
               j >= i + 2 \/ j >= p + 2
        PROVE  lines'[i].eid <= lines'[j].eid
    <3> DEFINE from(k) == IF k = p THEN p + 1 ELSE IF k = p + 1 THEN p ELSE k
    <3>1. \A k \in 1 .. Len(lines) : lines'[k] = lines[from(k)] /\ from(k) \in 1 .. Len(lines)
      BY <1>0, <2>1
    <3>2. from(i) < from(j) /\ (from(j) >= from(i) + 2 \/ from(j) >= p)
      BY <1>0, <2>1, <2>4
    <3>3. lines[from(i)].eid <= lines[from(j)].eid
      BY <2>2, <3>1, <3>2
    <3>4. QED
      BY <3>1, <3>3
  <2>5. QED
    BY <2>1, <2>3, <2>4 DEF NumberOrder
<1>5. QED
  BY <1>1, <1>2, <1>3, <1>4 DEF Damage, DefectsNext

\* A line and its copy are the same, and there are never three of them.
Copies ==
  /\ \A i, j \in 1 .. Len(lines) : lines[i].eid = lines[j].eid => lines[i] = lines[j]
  /\ \A i, j, k \in 1 .. Len(lines) :
       lines[i].eid = lines[j].eid /\ lines[j].eid = lines[k].eid
         => i = j \/ j = k \/ i = k

LEMMA CopiesKept ==
  ASSUME TapeOK, NumberOrder, Copies, Damage
  PROVE  Copies'
<1>0. taken \in Nat /\ Len(lines) \in Nat
  <2>1. events \in Seq(ToSet(events))
    BY DEF TapeOK
  <2>2. QED
    BY <2>1 DEF TapeOK
<1>1. CASE WriteEvent
  <2>1. PICK e \in Line, copies \in {1, 2} :
           /\ Len(lines') = Len(lines) + copies
           /\ \A i \in 1 .. Len(lines) : lines'[i] = lines[i]
           /\ \A i \in Len(lines) + 1 .. Len(lines) + copies : lines'[i] = e
           /\ e.eid = taken + 1
    BY <1>1, WrittenLines
  <2>2. \A i \in 1 .. Len(lines') :
          \/ i \in 1 .. Len(lines) /\ lines'[i] = lines[i] /\ lines'[i].eid <= taken
          \/ i \in {Len(lines) + 1, Len(lines) + 2} /\ lines'[i] = e
    BY <1>0, <2>1 DEF NumberOrder
  <2>3. \A i, j \in 1 .. Len(lines') : lines'[i].eid = lines'[j].eid =>
          \/ i \in 1 .. Len(lines) /\ j \in 1 .. Len(lines)
             /\ lines'[i] = lines[i] /\ lines'[j] = lines[j]
          \/ i \in {Len(lines) + 1, Len(lines) + 2} /\ j \in {Len(lines) + 1, Len(lines) + 2}
             /\ lines'[i] = e /\ lines'[j] = e
    BY <1>0, <2>1, <2>2
  <2>4. \A i, j \in 1 .. Len(lines') : lines'[i].eid = lines'[j].eid => lines'[i] = lines'[j]
    BY <2>3 DEF Copies
  <2>5. ASSUME NEW i \in 1 .. Len(lines'), NEW j \in 1 .. Len(lines'),
               NEW k \in 1 .. Len(lines'),
               lines'[i].eid = lines'[j].eid, lines'[j].eid = lines'[k].eid
        PROVE  i = j \/ j = k \/ i = k
    <3>1. CASE /\ {i, j, k} \subseteq 1 .. Len(lines)
               /\ lines'[i] = lines[i] /\ lines'[j] = lines[j] /\ lines'[k] = lines[k]
      BY <2>5, <3>1 DEF Copies
    <3>2. CASE {i, j, k} \subseteq {Len(lines) + 1, Len(lines) + 2}
      BY <1>0, <3>2
    <3>3. QED
      BY <1>0, <2>3, <2>5, <3>1, <3>2
  <2>6. QED
    BY <2>4, <2>5 DEF Copies
<1>2. CASE Transpose
  <2> DEFINE p == position
             from(k) == IF k = p THEN p + 1 ELSE IF k = p + 1 THEN p ELSE k
  <2>1. /\ Len(lines') = Len(lines) /\ p \in 1 .. Len(lines) /\ p + 1 \in 1 .. Len(lines)
        /\ \A k \in 1 .. Len(lines) : lines'[k] = lines[from(k)] /\ from(k) \in 1 .. Len(lines)
    BY <1>0, <1>2, SwappedLines
  <2>2. \A i, j \in 1 .. Len(lines) : from(i) = from(j) => i = j
    BY <1>0, <2>1
  <2> HIDE DEF from, p
  <2>3. ASSUME NEW i \in 1 .. Len(lines), NEW j \in 1 .. Len(lines),
               lines'[i].eid = lines'[j].eid
        PROVE  lines'[i] = lines'[j]
    <3>1. lines[from(i)].eid = lines[from(j)].eid
      BY <2>1, <2>3
    <3>2. lines[from(i)] = lines[from(j)]
      BY <2>1, <3>1 DEF Copies
    <3>3. QED
      BY <2>1, <3>2
  <2>4. ASSUME NEW i \in 1 .. Len(lines), NEW j \in 1 .. Len(lines),
               NEW k \in 1 .. Len(lines),
               lines'[i].eid = lines'[j].eid, lines'[j].eid = lines'[k].eid
        PROVE  i = j \/ j = k \/ i = k
    <3>1. /\ lines[from(i)].eid = lines[from(j)].eid
          /\ lines[from(j)].eid = lines[from(k)].eid
      BY <2>1, <2>4
    <3>2. from(i) = from(j) \/ from(j) = from(k) \/ from(i) = from(k)
      BY <2>1, <3>1 DEF Copies
    <3>3. QED
      BY <2>2, <3>2
  <2>5. QED
    BY <2>1, <2>3, <2>4 DEF Copies
<1>3. CASE DropEvent \/ StartSecondPass \/ LeaveInPlace
  BY <1>3 DEF Copies, DropEvent, StartSecondPass, LeaveInPlace
<1>4. QED
  BY <1>1, <1>2, <1>3 DEF Damage, DefectsNext

(***************************************************************************)
(* A copy strays three lines at most, and what follows both has a later    *)
(* number.                                                                 *)
(***************************************************************************)
LEMMA CopiesAreNear ==
  ASSUME TapeOK, NumberOrder, Copies, NEW x \in 1 .. Len(lines), NEW y \in 1 .. Len(lines),
         x # y, lines[x].eid = lines[y].eid
  PROVE  /\ lines[y] = lines[x] /\ y <= x + 3
         /\ \A l \in 1 .. Len(lines) : lines[l].eid = lines[x].eid => l = x \/ l = y
         /\ \A l \in 1 .. Len(lines) : x < l /\ y < l => lines[x].eid < lines[l].eid
<1>1. Len(lines) \in Nat /\ \A i \in 1 .. Len(lines) : lines[i].eid \in Nat
  BY LineFields DEF TapeOK
<1>2. \A l \in 1 .. Len(lines) : lines[l].eid = lines[x].eid => l = x \/ l = y
  BY DEF Copies
<1>3. \A i, j \in 1 .. Len(lines) : j >= i + 2 => lines[i].eid <= lines[j].eid
  BY <1>1 DEF NumberOrder
<1>4. ASSUME NEW l \in 1 .. Len(lines), x < l, y < l PROVE lines[x].eid < lines[l].eid
  <2>1. lines[l].eid # lines[x].eid
    BY <1>1, <1>2, <1>4
  <2>2. l >= x + 2 \/ l >= y + 2
    BY <1>1, <1>4
  <2>3. QED
    BY <1>1, <1>3, <2>1, <2>2
<1>5. y <= x + 3
  <2> SUFFICES ASSUME y >= x + 4 PROVE FALSE
    BY <1>1
  <2>1. x + 2 \in 1 .. Len(lines) /\ y >= x + 2 + 2
    BY <1>1
  <2>2. lines[x + 2].eid = lines[x].eid
    BY <1>1, <1>3, <2>1
  <2>3. QED
    BY <1>1, <1>2, <2>1, <2>2
<1>6. QED
  BY <1>2, <1>4, <1>5 DEF Copies

-----------------------------------------------------------------------------
\* What the buffer keeps to whatever the timestamps say, on a tape that is
\* written before it is read.
ReadInv ==
  /\ fed \in 0 .. Len(lines)
  /\ fed > 0 \/ phase # "idle" => TapeWritten
  /\ phase \in {"flush", "done"} => fed = Len(lines)
  /\ Buffer!OrderInv /\ Buffer!SizeInv /\ Buffer!LineInv /\ Buffer!EarlyInv
  /\ \A n \in heap \cup Buffer!Released : n.event = lines[n.line]

LEMMA HeapSize == Cardinality(heap) = Buffer!Cardinality(heap)
BY DEF Cardinality, Buffer!Cardinality

\* The nodes of the buffer are lines of the tape that have been read.
LEMMA ReadNodes ==
  ASSUME FeedTypeOK, NumberOrder, ReadInv, NEW n \in heap \cup Buffer!Released
  PROVE  /\ n \in Buffer!Node /\ n.line \in 1 .. fed /\ n.line \in 1 .. Len(lines)
         /\ n.event = lines[n.line] /\ n.event \in Line
         /\ n.event.ts \in Nat /\ n.event.eid \in Nat /\ n.event.seq = n.event.eid
<1>1. n.line \in 1 .. fed /\ n.event = lines[n.line] /\ fed \in 0 .. Len(lines)
      /\ Len(lines) \in Nat /\ lines \in Seq(Line)
  BY DEF ReadInv, Buffer!LineInv, FeedTypeOK, TapeOK
<1>2. n.line \in 1 .. Len(lines)
  BY <1>1
<1>3. n \in Buffer!Node
  BY DEF FeedTypeOK, Buffer!TypeOK, Buffer!Released
<1>4. n.event \in Line /\ n.event.seq = n.event.eid
  BY <1>1, <1>2 DEF NumberOrder
<1>5. QED
  BY <1>1, <1>2, <1>3, <1>4, LineFields

LEMMA BufferKeepsItsWord ==
  ASSUME FeedTypeOK, ReadInv, Buffer!Step
  PROVE  Buffer!OrderInv' /\ Buffer!SizeInv' /\ Buffer!LineInv' /\ Buffer!EarlyInv'
<1>1. Buffer!TypeOK /\ Buffer!OrderInv /\ Buffer!SizeInv /\ Buffer!LineInv /\ Buffer!EarlyInv
  BY DEF FeedTypeOK, ReadInv
<1>2. Buffer!OrderInv'
  BY <1>1, StageAssumptions, Buffer!OrderKept
<1>3. Buffer!SizeInv'
  BY <1>1, StageAssumptions, Buffer!SizeKept
<1>4. Buffer!LineInv'
  BY <1>1, StageAssumptions, Buffer!LinesKept
<1>5. Buffer!EarlyInv'
  BY <1>1, StageAssumptions, Buffer!EarlyKept
<1>6. QED
  BY <1>2, <1>3, <1>4, <1>5

\* A drain or the flush moves nodes, or none, from the heap to the output.
LEMMA Pops ==
  ASSUME FeedTypeOK, Drain \/ EndOfTape \/ Flush
  PROVE  /\ \/ \E n \in Buffer!Top(heap) : Buffer!Pop(n) /\ phase \in {"drain", "flush"}
            \/ heap' = heap /\ out' = out
         /\ heap' \cup Buffer!Released' = heap \cup Buffer!Released
         /\ fed' = fed
         /\ phase' \in {"flush", "done"} => phase = "flush" \/ EndOfTape
         /\ phase # "idle" \/ EndOfTape
<1>1. Buffer!Drain \/ Buffer!EndOfTape \/ Buffer!Flush
  BY BufferIsStep
<1>2. /\ \/ \E n \in Buffer!Top(heap) : Buffer!Pop(n) /\ phase \in {"drain", "flush"}
         \/ heap' = heap /\ out' = out
      /\ fed' = fed
  BY <1>1 DEF Buffer!Drain, Buffer!EndOfTape, Buffer!Flush, Buffer!PopReady, Buffer!PopOverflow,
              Buffer!DrainDone, Buffer!PopFlush, Buffer!FlushDone, Buffer!Ready, Buffer!Pop
<1>3. heap' \cup Buffer!Released' = heap \cup Buffer!Released
  <2>1. ASSUME NEW n \in Buffer!Top(heap), Buffer!Pop(n)
        PROVE  heap' \cup Buffer!Released' = heap \cup Buffer!Released
    <3>1. n \in heap
      BY DEF Buffer!Top
    <3>2. heap' = heap \ {n} /\ Buffer!Released' = Buffer!Released \cup {n}
      BY <2>1, <3>1, StageAssumptions, Buffer!PopMoves DEF FeedTypeOK
    <3>3. QED
      BY <3>1, <3>2
  <2>2. QED
    BY <1>2, <2>1 DEF Buffer!Released
<1>4. /\ phase' \in {"flush", "done"} => phase = "flush" \/ EndOfTape
      /\ phase # "idle" \/ EndOfTape
  BY BufferIsStep
     DEF Buffer!Drain, Buffer!Flush, Buffer!PopReady, Buffer!PopOverflow,
         Buffer!DrainDone, Buffer!PopFlush, Buffer!FlushDone
<1>5. QED
  BY <1>2, <1>3, <1>4

LEMMA ReadKept ==
  ASSUME FeedTypeOK, ReadInv, [FeedNext]_feedVars
  PROVE  ReadInv'
<1>1. Buffer!Step
  BY PushIsStep, BufferIsStep, StepsApart DEF FeedNext, Buffer!Step
<1>2. Buffer!OrderInv' /\ Buffer!SizeInv' /\ Buffer!LineInv' /\ Buffer!EarlyInv'
  BY <1>1, BufferKeepsItsWord
<1>3. fed \in 0 .. Len(lines) /\ Len(lines) \in Nat
  BY DEF ReadInv, FeedTypeOK, TapeOK
<1>4. CASE Damage
  <2>0. UNCHANGED Buffer!vars
    BY <1>4, StepsApart
  <2>1. ~TapeWritten /\ UNCHANGED Buffer!vars
    BY <1>4, <2>0
       DEF Damage, DefectsNext, TapeWritten, DropEvent, WriteEvent, StartSecondPass, Transpose,
           LeaveInPlace, MoreEvents
  <2>2. fed' = 0 /\ phase' = "idle"
    BY <2>1 DEF ReadInv, Buffer!vars
  <2>3. heap' \cup Buffer!Released' = {}
    BY <1>2, <2>2 DEF Buffer!LineInv
  <2>4. Len(lines') \in Nat
    BY <1>4, TapeKept DEF FeedTypeOK, TapeOK
  <2>5. QED
    BY <1>2, <2>2, <2>3, <2>4 DEF ReadInv
<1>5. ASSUME UNCHANGED defectVars PROVE lines' = lines /\ TapeWritten' = TapeWritten
  BY <1>5 DEF defectVars, TapeWritten, MorePairs
<1>6. CASE Push
  <2> DEFINE n == [line |-> fed + 1, event |-> lines[fed + 1]]
  <2>1. /\ Buffer!PushLate(lines[fed + 1]) \/ Buffer!PushHeld(lines[fed + 1])
        /\ lines' = lines /\ TapeWritten' /\ fed + 1 \in 1 .. Len(lines)
    BY <1>5, <1>6, PushIsStep, StepsApart DEF Push
  <2>2. /\ fed' = fed + 1 /\ phase' \in {"idle", "drain"}
        /\ heap' \cup Buffer!Released' \subseteq heap \cup Buffer!Released \cup {n}
    BY <2>1 DEF Buffer!PushLate, Buffer!PushHeld, Buffer!Released
  <2>3. \A m \in heap' \cup Buffer!Released' : m.event = lines'[m.line]
    BY <2>1, <2>2 DEF ReadInv
  <2> HIDE DEF n
  <2>4. QED
    BY <1>2, <1>3, <2>1, <2>2, <2>3 DEF ReadInv
<1>7. CASE Drain \/ EndOfTape \/ Flush
  <2>1. lines' = lines /\ TapeWritten' = TapeWritten
    BY <1>5, <1>7, StepsApart
  <2>2. /\ heap' \cup Buffer!Released' = heap \cup Buffer!Released /\ fed' = fed
        /\ phase' \in {"flush", "done"} => phase = "flush" \/ EndOfTape
        /\ phase # "idle" \/ EndOfTape
    BY <1>7, Pops
  <2>3. EndOfTape => TapeWritten /\ fed = Len(lines)
    BY DEF EndOfTape
  <2>4. QED
    BY <1>2, <2>1, <2>2, <2>3 DEF ReadInv
<1>8. CASE Apply \/ UNCHANGED feedVars
  <2>1. lines' = lines /\ TapeWritten' = TapeWritten /\ UNCHANGED Buffer!vars
    BY <1>5, <1>8, StepsApart
  <2>2. QED
    BY <1>2, <2>1 DEF ReadInv, Buffer!vars, Buffer!Released
<1>9. QED
  BY <1>4, <1>6, <1>7, <1>8 DEF FeedNext

-----------------------------------------------------------------------------
\* How many more events can leave before line y is read, for the copy at
\* position p of the output.
LeavingBefore(p, y) == Len(out) - p + Cardinality(heap) + (y - fed - 1)

\* A copy follows its line within Capacity + 2 events: until it is read the
\* heap and the two lines that may lie between bound what can leave, and once
\* it is held nothing leaves before it.
CopyInv ==
  \A p \in 1 .. Len(out), y \in 1 .. Len(lines) :
    y # out[p].line /\ lines[y].eid = out[p].event.eid =>
      /\ y > fed => /\ LeavingBefore(p, y) <= Capacity + 2
                    /\ Tolerance = 0 => LeavingBefore(p, y) <= 2
      /\ \A n \in heap : n.line = y =>
           /\ Len(out) - p <= Capacity + 1
           /\ \A m \in heap \ {n} : Buffer!Later(m, n)
      /\ \A q \in 1 .. Len(out) : out[q].line = y => q <= p + Capacity + 2

\* Of the nodes of the buffer only a line's copy has its number.
LEMMA TellApart ==
  ASSUME FeedTypeOK, NumberOrder, Copies, ReadInv,
         NEW a \in heap \cup Buffer!Released, NEW b \in heap \cup Buffer!Released,
         NEW y \in 1 .. Len(lines), a # b, y # a.line, y # b.line,
         lines[y].eid = a.event.eid, ~Buffer!Later(a, b)
  PROVE  /\ lines[y] = a.event
         /\ \A c : c.event = a.event => Buffer!Later(b, c)
<1>1. /\ a.line \in 1 .. Len(lines) /\ a.event = lines[a.line]
      /\ b.line \in 1 .. Len(lines) /\ b.event = lines[b.line]
      /\ a.event.ts \in Nat /\ a.event.seq = a.event.eid /\ a.event.eid \in Nat
      /\ b.event.ts \in Nat /\ b.event.seq = b.event.eid /\ b.event.eid \in Nat
  BY ReadNodes
<1>2. a.line # b.line
  BY DEF ReadInv, Buffer!LineInv, Buffer!EachLineOnce
<1>3. lines[y] = a.event /\ b.event.eid # a.event.eid
  BY <1>1, <1>2 DEF Copies
<1>4. b.event.ts > a.event.ts \/ (b.event.ts = a.event.ts /\ b.event.seq > a.event.seq)
  BY <1>1, <1>3 DEF Buffer!Later
<1>5. \A c : c.event = a.event => Buffer!Later(b, c)
  BY <1>4 DEF Buffer!Later
<1>6. QED
  BY <1>3, <1>5

LEMMA PopKeepsCopies ==
  ASSUME FeedTypeOK, NumberOrder, Copies, ReadInv, CopyInv, NEW n \in Buffer!Top(heap),
         Buffer!Pop(n), phase \in {"drain", "flush"}, UNCHANGED defectVars
  PROVE  CopyInv'
<1> DEFINE N == Len(out)
<1>1. n \in heap /\ \A m \in heap : ~Buffer!Later(n, m)
  BY DEF Buffer!Top
<1>2. /\ heap' = heap \ {n} /\ fed' = fed /\ lines' = lines /\ N \in Nat
      /\ Len(out') = N + 1 /\ out'[N + 1] = n
      /\ \A i \in 1 .. N : out'[i] = out[i]
  BY DEF FeedTypeOK, Buffer!TypeOK, Buffer!Pop, defectVars
<1> HIDE DEF N
<1>3. /\ Cardinality(heap') = Cardinality(heap) - 1 /\ Cardinality(heap) \in Nat
      /\ Cardinality(heap) <= Capacity + 1
  <2>1. IsFiniteSet(heap) /\ Cardinality(heap) <= Capacity + 1
    BY HeapSize DEF ReadInv, Buffer!SizeInv, Buffer!IsFiniteSet, IsFiniteSet
  <2>2. Cardinality(heap \ {n}) = Cardinality(heap) - 1 /\ Cardinality(heap) \in Nat
    BY <1>1, <2>1, FS_RemoveElement, FS_CardinalityType
  <2>3. QED
    BY <1>2, <2>1, <2>2
<1>4. /\ n.line \in 1 .. fed /\ n.line \in 1 .. Len(lines) /\ n.event = lines[n.line]
      /\ fed \in 0 .. Len(lines) /\ Len(lines) \in Nat
  BY <1>1, ReadNodes DEF ReadInv, FeedTypeOK, TapeOK
<1>5. ASSUME NEW p \in Nat, p = N + 1,
             NEW y \in 1 .. Len(lines), y # n.line, lines[y].eid = n.event.eid
      PROVE  /\ y > fed => LeavingBefore(p, y)' <= Capacity + 2
                           /\ (Tolerance = 0 => LeavingBefore(p, y)' <= 2)
             /\ \A k \in heap' : k.line = y => \A m \in heap' \ {k} : Buffer!Later(m, k)
  <2>1. y <= n.line + 3
    BY <1>4, <1>5, CopiesAreNear DEF FeedTypeOK
  <2>2. y > fed => y - fed - 1 <= 2
    BY <1>4, <2>1
  <2>3. LeavingBefore(p, y)' = Cardinality(heap) - 1 + (y - fed - 1)
    BY <1>2, <1>3, <1>4, <1>5 DEF LeavingBefore
  <2>4. ASSUME y > fed, Tolerance = 0 PROVE Cardinality(heap) = 1
    <3>1. phase = "drain"
      BY <1>4, <2>4 DEF ReadInv
    <3>2. \A m \in heap : m.line = fed
      BY <2>4, <3>1 DEF ReadInv, Buffer!EarlyInv, Buffer!NothingWaits
    <3>3. heap = {n}
      BY <1>1, <3>2 DEF ReadInv, Buffer!LineInv, Buffer!EachLineOnce
    <3>4. QED
      BY <3>3, FS_Singleton
  <2>5. ASSUME NEW k \in heap', k.line = y, NEW m \in heap' \ {k} PROVE Buffer!Later(m, k)
    <3>1. k \in heap /\ m \in heap /\ m # n /\ k # n /\ ~Buffer!Later(n, m)
      BY <1>1, <1>2, <2>5
    <3>2. y # m.line
      BY <2>5, <3>1 DEF ReadInv, Buffer!LineInv, Buffer!EachLineOnce
    <3>3. lines[y] = n.event /\ k.event = lines[y]
      BY <1>1, <1>5, <2>5, <3>1, <3>2, TellApart, ReadNodes
    <3>4. QED
      BY <1>1, <1>5, <3>1, <3>2, <3>3, TellApart
  <2>6. QED
    BY <1>3, <1>4, <2>2, <2>3, <2>4, <2>5
<1>6. ASSUME NEW p \in 1 .. N, NEW y \in 1 .. Len(lines),
             y # out[p].line, lines[y].eid = out[p].event.eid
      PROVE  /\ y > fed => LeavingBefore(p, y)' <= Capacity + 2
                           /\ (Tolerance = 0 => LeavingBefore(p, y)' <= 2)
             /\ \A k \in heap' : k.line # y
             /\ \A q \in 1 .. N + 1 : out'[q].line = y => q <= p + Capacity + 2
  <2>1. /\ y > fed => LeavingBefore(p, y) <= Capacity + 2
                      /\ (Tolerance = 0 => LeavingBefore(p, y) <= 2)
        /\ \A k \in heap : k.line = y =>
             N - p <= Capacity + 1 /\ \A m \in heap \ {k} : Buffer!Later(m, k)
        /\ \A q \in 1 .. N : out[q].line = y => q <= p + Capacity + 2
    BY <1>6 DEF CopyInv, N
  <2>2. LeavingBefore(p, y)' = LeavingBefore(p, y)
    BY <1>2, <1>3, <1>4 DEF LeavingBefore, N
  <2>3. \A k \in heap' : k.line # y
    BY <1>1, <1>2, <2>1
  <2>4. ASSUME NEW q \in 1 .. N + 1, out'[q].line = y PROVE q <= p + Capacity + 2
    <3>1. CASE q = N + 1
      BY <1>1, <1>2, <2>1, <2>4, <3>1
    <3>2. CASE q \in 1 .. N
      BY <1>2, <2>1, <2>4, <3>2
    <3>3. QED
      BY <1>2, <3>1, <3>2
  <2>5. QED
    BY <2>1, <2>2, <2>3, <2>4
<1>7. SUFFICES ASSUME NEW p \in 1 .. Len(out'), NEW y \in 1 .. Len(lines'),
                      y # out'[p].line, lines'[y].eid = out'[p].event.eid
               PROVE  /\ y > fed' => /\ LeavingBefore(p, y)' <= Capacity + 2
                                     /\ Tolerance = 0 => LeavingBefore(p, y)' <= 2
                      /\ \A k \in heap' : k.line = y =>
                           /\ Len(out') - p <= Capacity + 1
                           /\ \A m \in heap' \ {k} : Buffer!Later(m, k)
                      /\ \A q \in 1 .. Len(out') : out'[q].line = y => q <= p + Capacity + 2
  BY DEF CopyInv, Buffer!Later
<1>8. CASE p = N + 1
  <2>1. y \in 1 .. Len(lines) /\ y # n.line /\ lines[y].eid = n.event.eid
    BY <1>2, <1>7, <1>8
  <2>2. /\ y > fed => LeavingBefore(p, y)' <= Capacity + 2
                      /\ (Tolerance = 0 => LeavingBefore(p, y)' <= 2)
        /\ \A k \in heap' : k.line = y => \A m \in heap' \ {k} : Buffer!Later(m, k)
    BY <1>2, <1>5, <1>8, <2>1
  <2>3. Len(out') - p <= Capacity + 1 /\ \A q \in 1 .. Len(out') : q <= p + Capacity + 2
    BY <1>2, <1>8
  <2>4. QED
    BY <1>2, <1>8, <2>2, <2>3
<1>9. CASE p \in 1 .. N
  <2>1. y \in 1 .. Len(lines) /\ y # out[p].line /\ lines[y].eid = out[p].event.eid
    BY <1>2, <1>7, <1>9
  <2>2. /\ y > fed => LeavingBefore(p, y)' <= Capacity + 2
                      /\ (Tolerance = 0 => LeavingBefore(p, y)' <= 2)
        /\ \A k \in heap' : k.line # y
        /\ \A q \in 1 .. N + 1 : out'[q].line = y => q <= p + Capacity + 2
    BY <1>6, <1>9, <2>1
  <2>3. QED
    BY <1>2, <2>2
<1>10. QED
  BY <1>2, <1>8, <1>9

LEMMA PushKeepsCopies ==
  ASSUME FeedTypeOK, NumberOrder, Copies, ReadInv, CopyInv, Push
  PROVE  CopyInv'
<1> DEFINE e == lines[fed + 1]
           n == [line |-> fed + 1, event |-> e]
           N == Len(out)
<1>1. /\ Buffer!PushLate(e) \/ Buffer!PushHeld(e)
      /\ fed + 1 \in 1 .. Len(lines) /\ e \in Line /\ lines' = lines
      /\ fed \in Nat /\ Len(lines) \in Nat /\ N \in Nat
      /\ e.ts \in Nat /\ e.eid \in Nat /\ e.seq = e.eid
  BY PushIsStep, StepsApart, LineFields
     DEF FeedTypeOK, TapeOK, Buffer!TypeOK, defectVars, NumberOrder
<1>2. fed' = fed + 1 /\ out' = out /\ phase = "idle"
  BY <1>1 DEF Buffer!PushLate, Buffer!PushHeld
<1>3. IsFiniteSet(heap) /\ Cardinality(heap) \in Nat
  BY FS_CardinalityType DEF ReadInv, Buffer!SizeInv, Buffer!IsFiniteSet, IsFiniteSet
<1>4. \A i \in 1 .. N : out[i] \in Buffer!Released
  BY DEF Buffer!Released, FeedTypeOK, Buffer!TypeOK
<1>5. \A m \in heap \cup Buffer!Released : m.line \in 1 .. fed
  BY DEF ReadInv, Buffer!LineInv
<1>6. n.line = fed + 1 /\ n.event = e /\ n \notin heap
  BY <1>1, <1>5
<1> HIDE DEF n
<1>7. ASSUME NEW p \in 1 .. N, NEW y \in 1 .. Len(lines),
             y # out[p].line, lines[y].eid = out[p].event.eid
      PROVE  /\ y > fed => LeavingBefore(p, y) <= Capacity + 2
                           /\ (Tolerance = 0 => LeavingBefore(p, y) <= 2)
             /\ \A k \in heap : k.line = y =>
                  N - p <= Capacity + 1 /\ \A m \in heap \ {k} : Buffer!Later(m, k)
             /\ \A q \in 1 .. N : out[q].line = y => q <= p + Capacity + 2
  BY <1>7 DEF CopyInv
<1>8. CASE Buffer!PushLate(e)
  <2>1. heap' = heap
    BY <1>8 DEF Buffer!PushLate
  <2>2. ASSUME NEW p \in 1 .. N, NEW y \in 1 .. Len(lines), y > fed + 1
        PROVE  LeavingBefore(p, y)' <= LeavingBefore(p, y) /\ LeavingBefore(p, y)' \in Int
               /\ LeavingBefore(p, y) \in Int
    BY <1>1, <1>2, <1>3, <2>1, <2>2 DEF LeavingBefore
  <2>3. ASSUME NEW p \in 1 .. N, NEW y \in 1 .. Len(lines),
               y # out[p].line, lines[y].eid = out[p].event.eid, y > fed + 1
        PROVE  LeavingBefore(p, y)' <= Capacity + 2
               /\ (Tolerance = 0 => LeavingBefore(p, y)' <= 2)
    <3>1. y > fed
      BY <1>1, <2>3
    <3>2. LeavingBefore(p, y) <= Capacity + 2 /\ (Tolerance = 0 => LeavingBefore(p, y) <= 2)
      BY <1>7, <2>3, <3>1
    <3>3. QED
      BY <2>2, <2>3, <3>2
  <2>4. QED
    BY <1>1, <1>2, <1>7, <2>1, <2>3 DEF CopyInv, Buffer!Later
<1>9. CASE Buffer!PushHeld(e)
  <2>1. heap' = heap \cup {n} /\ ~Buffer!Late(e)
    BY <1>1, <1>9 DEF Buffer!PushHeld, n
  <2>2. Cardinality(heap') = Cardinality(heap) + 1
    BY <1>3, <1>6, <2>1, FS_AddElement
  <2>3. ASSUME NEW p \in 1 .. N, NEW y \in 1 .. Len(lines)
        PROVE  LeavingBefore(p, y)' = LeavingBefore(p, y)
    BY <1>1, <1>2, <1>3, <2>2 DEF LeavingBefore
  <2>4. ASSUME NEW p \in 1 .. N, out[p].line # fed + 1, e.eid = out[p].event.eid
        PROVE  N - p <= Capacity + 1 /\ \A m \in heap : Buffer!Later(m, n)
    <3>1. /\ LeavingBefore(p, fed + 1) <= Capacity + 2
          /\ Tolerance = 0 => LeavingBefore(p, fed + 1) <= 2
      BY <1>1, <1>7, <2>4
    <3>2. LeavingBefore(p, fed + 1) = N - p + Cardinality(heap)
      BY <1>1, <1>3 DEF LeavingBefore
    <3>3. ASSUME Tolerance = 0 PROVE N - p <= Capacity + 1
      BY <1>1, <1>3, <3>1, <3>2, <3>3
    <3>4. ASSUME Tolerance > 0 PROVE N - p <= Capacity + 1
      <4>1. out[p] \in heap \cup Buffer!Released /\ out[p].event.ts \in Nat
        BY <1>4, ReadNodes
      <4>2. max_ts_seen # Buffer!MinTs
        BY <4>1 DEF ReadInv, Buffer!EarlyInv, Buffer!MinTs
      <4>3. PICK m \in heap : TRUE
        BY <1>2, <3>4, <4>2
           DEF ReadInv, Buffer!EarlyInv, Buffer!NewestIsHeld, Buffer!Running
      <4>4. Cardinality(heap) # 0
        BY <1>3, <4>3, FS_EmptySet
      <4>5. QED
        BY <1>1, <1>3, <3>1, <3>2, <4>4
    <3>5. ASSUME NEW m \in heap PROVE Buffer!Later(m, n)
      <4>1. ~Buffer!Later(out[p], m)
        BY <1>1, <1>2
           DEF ReadInv, Buffer!EarlyInv, Buffer!OnlyNewestBehind, Buffer!Running, FeedTypeOK,
               Buffer!TypeOK
      <4>2. out[p] \in Buffer!Released /\ out[p] # m /\ fed + 1 # m.line
        BY <1>1, <1>4, <1>5 DEF ReadInv, Buffer!LineInv, Buffer!EachLineOnce
      <4>3. lines[fed + 1] = out[p].event /\ \A c : c.event = out[p].event => Buffer!Later(m, c)
        BY <1>1, <2>4, <4>1, <4>2, TellApart
      <4>4. QED
        BY <1>6, <4>3
    <3>6. QED
      BY <3>3, <3>4, <3>5
  <2>5. ASSUME NEW p \in 1 .. N, NEW k \in heap, k.line # out[p].line,
               lines[k.line].eid = out[p].event.eid
        PROVE  Buffer!Later(n, k)
    <3>1. /\ k.line \in 1 .. fed /\ k.line \in 1 .. Len(lines) /\ k.event = lines[k.line]
          /\ out[p].line \in 1 .. fed /\ out[p].line \in 1 .. Len(lines)
          /\ out[p].event = lines[out[p].line]
          /\ k.event.ts \in Nat /\ k.event.seq = k.event.eid /\ k.event.eid \in Nat
      BY <1>4, ReadNodes
    <3>2. lines[k.line] = lines[out[p].line] /\ k.event.eid < e.eid
      <4>1. k.line < fed + 1 /\ out[p].line < fed + 1
            /\ lines[out[p].line].eid = lines[k.line].eid
        BY <1>1, <2>5, <3>1
      <4>2. /\ lines[k.line] = lines[out[p].line]
            /\ \A l \in 1 .. Len(lines) : out[p].line < l /\ k.line < l
                 => lines[out[p].line].eid < lines[l].eid
        BY <2>5, <3>1, <4>1, CopiesAreNear DEF FeedTypeOK
      <4>3. QED
        BY <1>1, <3>1, <4>1, <4>2
    <3>3. out[p].event.ts <= last_released_ts
      BY <1>1 DEF ReadInv, Buffer!OrderInv, FeedTypeOK, Buffer!TypeOK
    <3>4. last_released_ts <= e.ts
      BY <1>1, <2>1 DEF Buffer!Late, FeedTypeOK, Buffer!TypeOK, Buffer!MinTs
    <3>5. k.event.ts <= e.ts
      BY <1>1, <3>1, <3>2, <3>3, <3>4 DEF FeedTypeOK, Buffer!TypeOK, Buffer!MinTs
    <3>6. QED
      BY <1>1, <1>6, <3>1, <3>2, <3>5 DEF Buffer!Later
  <2>6. SUFFICES ASSUME NEW p \in 1 .. N, NEW y \in 1 .. Len(lines),
                        y # out[p].line, lines[y].eid = out[p].event.eid
                 PROVE  /\ y > fed + 1 => /\ LeavingBefore(p, y)' <= Capacity + 2
                                          /\ Tolerance = 0 => LeavingBefore(p, y)' <= 2
                        /\ \A k \in heap' : k.line = y =>
                             /\ N - p <= Capacity + 1
                             /\ \A m \in heap' \ {k} : Buffer!Later(m, k)
                        /\ \A q \in 1 .. N : out[q].line = y => q <= p + Capacity + 2
    BY <1>1, <1>2 DEF CopyInv, Buffer!Later
  <2>7. y > fed + 1 => /\ LeavingBefore(p, y)' <= Capacity + 2
                       /\ Tolerance = 0 => LeavingBefore(p, y)' <= 2
    BY <1>1, <1>7, <2>3, <2>6
  <2>8. ASSUME NEW k \in heap', k.line = y
        PROVE  N - p <= Capacity + 1 /\ \A m \in heap' \ {k} : Buffer!Later(m, k)
    <3>1. CASE k = n
      BY <1>6, <2>1, <2>4, <2>6, <2>8, <3>1
    <3>2. CASE k \in heap
      BY <1>7, <2>1, <2>5, <2>6, <2>8, <3>2
    <3>3. QED
      BY <2>1, <3>1, <3>2
  <2>9. QED
    BY <1>7, <2>6, <2>7, <2>8
<1>10. QED
  BY <1>1, <1>8, <1>9

LEMMA CopyKept ==
  ASSUME FeedTypeOK, NumberOrder, Copies, ReadInv, CopyInv, [FeedNext]_feedVars
  PROVE  CopyInv'
<1>1. ASSUME heap' = heap, out' = out, fed' = fed, lines' = lines PROVE CopyInv'
  BY <1>1 DEF CopyInv, LeavingBefore, Buffer!Later
<1>2. CASE Damage
  <2>1. UNCHANGED Buffer!vars
    BY <1>2, StepsApart
  <2>2. ~TapeWritten
    BY <1>2
       DEF Damage, DefectsNext, TapeWritten, DropEvent, WriteEvent, StartSecondPass, Transpose,
           LeaveInPlace, MoreEvents
  <2>3. fed = 0 /\ Buffer!Released = {}
    BY <2>2 DEF ReadInv, Buffer!LineInv
  <2>4. out' = <<>>
    <3>1. out = <<>>
      BY <2>3 DEF Buffer!Released, FeedTypeOK, Buffer!TypeOK
    <3>2. QED
      BY <2>1, <3>1 DEF Buffer!vars
  <2>5. QED
    BY <2>4 DEF CopyInv
<1>3. CASE Drain \/ EndOfTape \/ Flush
  <2>1. UNCHANGED defectVars /\ lines' = lines
    BY <1>3, StepsApart DEF defectVars
  <2>2. QED
    BY <1>1, <1>3, <2>1, Pops, PopKeepsCopies
<1>4. CASE Apply \/ UNCHANGED feedVars
  <2>1. UNCHANGED defectVars /\ UNCHANGED Buffer!vars
    BY <1>4, StepsApart
  <2>2. QED
    BY <1>1, <2>1 DEF defectVars, Buffer!vars
<1>5. QED
  BY <1>2, <1>3, <1>4, PushKeepsCopies DEF FeedNext

TapeInv == NumberOrder /\ Copies

LEMMA TapeInvKept ==
  ASSUME FeedTypeOK, TapeInv, [FeedNext]_feedVars
  PROVE  TapeInv'
<1>1. CASE UNCHANGED defectVars
  BY <1>1 DEF defectVars, TapeInv, NumberOrder, Copies
<1>2. QED
  BY <1>1, NumberOrderKept, CopiesKept, StepsApart DEF FeedNext, FeedTypeOK, TapeInv

(***************************************************************************)
(* Whatever the clocks say, the buffer releases a line and its copy within *)
(* Capacity + 2 events of one another.                                     *)
(***************************************************************************)
THEOREM CopiesLeaveTogetherCorrect == FeedSpec => [](TapeInv /\ ReadInv /\ CopyInv)
<1>1. FeedInit => TapeInv /\ ReadInv /\ CopyInv
  <2> SUFFICES ASSUME FeedInit PROVE TapeInv /\ ReadInv /\ CopyInv
    OBVIOUS
  <2>1. lines = <<>> /\ Buffer!Init
    BY StagesInitially DEF DefectsInit
  <2>2. TapeInv
    BY <2>1 DEF TapeInv, NumberOrder, Copies
  <2>3. Buffer!Released = {} /\ heap = {} /\ refused = {} /\ out = <<>> /\ fed = 0
        /\ phase = "idle" /\ max_ts_seen = Buffer!MinTs
    BY <2>1 DEF Buffer!Init, Buffer!Released
  <2>4. Buffer!OrderInv /\ Buffer!LineInv /\ Buffer!EarlyInv
    BY <2>3 DEF Buffer!OrderInv, Buffer!ReleasedInOrder, Buffer!LineInv, Buffer!EachLineOnce,
                Buffer!EarlyInv, Buffer!FullOrCaughtUp, Buffer!OnlyNewestBehind,
                Buffer!NewestIsHeld, Buffer!NothingWaits
  <2>5. Buffer!SizeInv
    <3>1. IsFiniteSet(heap) /\ Cardinality(heap) = 0
      BY <2>3, FS_EmptySet
    <3>2. QED
      BY <3>1, HeapSize DEF Buffer!SizeInv, Buffer!IsFiniteSet, IsFiniteSet
  <2>6. QED
    BY <2>1, <2>2, <2>3, <2>4, <2>5 DEF ReadInv, CopyInv
<1>2. FeedTypeOK /\ TapeInv /\ ReadInv /\ CopyInv /\ [FeedNext]_feedVars
        => TapeInv' /\ ReadInv' /\ CopyInv'
  BY TapeInvKept, ReadKept, CopyKept DEF TapeInv
<1>3. QED
  BY <1>1, <1>2, FeedTypeCorrect, PTL DEF FeedSpec

-----------------------------------------------------------------------------
\* The memory reaches as far back as a copy may stray.  pipeline.cpp makes it
\* four times the capacity of the buffer, which is at least one.
MemoryReaches == DedupCapacity >= Capacity + 2

\* What has been admitted has been released, and at least as long ago as
\* there are events admitted since.
AppliedInv ==
  /\ Judge!MemoryInv
  /\ \A k \in Admitted : \E p \in 1 .. applied :
       out[p].event = admitted[k] /\ Len(admitted) - k <= applied - p

\* Releases are appended.
LEMMA ReleasesStay ==
  ASSUME FeedTypeOK, Damage \/ Push \/ Drain \/ EndOfTape \/ Flush \/ UNCHANGED feedVars
  PROVE  \A i \in 1 .. applied : out'[i] = out[i]
<1>1. \/ out' = out
      \/ \E n : out' = Append(out, n)
  <2>1. UNCHANGED Buffer!vars \/ Buffer!Step
    BY StepsApart, PushIsStep, BufferIsStep
  <2>2. QED
    BY <2>1
       DEF Buffer!Step, Buffer!PushLate, Buffer!PushHeld, Buffer!Drain, Buffer!PopReady,
           Buffer!PopOverflow, Buffer!DrainDone, Buffer!EndOfTape, Buffer!Flush,
           Buffer!PopFlush, Buffer!FlushDone, Buffer!Pop, Buffer!vars
<1>2. out \in Seq(Buffer!Node) /\ applied \in 0 .. Len(out)
  BY DEF FeedTypeOK, Buffer!TypeOK
<1>3. QED
  BY <1>1, <1>2

LEMMA AppliedKept ==
  ASSUME FeedTypeOK, AppliedInv, [FeedNext]_feedVars
  PROVE  AppliedInv'
<1> DEFINE N == Len(admitted)
           e == out[applied + 1].event
<1>1. applied \in Nat /\ Len(out) \in Nat /\ N \in Nat /\ Admitted = 1 .. N
  BY DEF FeedTypeOK, Buffer!TypeOK, Judge!GuardTypeOK, Admitted
<1>2. Judge!MemoryInv'
  <2>1. Judge!GuardStep
    BY ApplyIsStep, StepsApart DEF FeedNext, Judge!GuardStep
  <2>2. QED
    BY <2>1, StageAssumptions, Judge!MemoryKept DEF FeedTypeOK, AppliedInv
<1>3. CASE Apply
  <2>1. /\ Judge!Drop(e) \/ Judge!Accept(e)
        /\ e \in Line /\ applied' = applied + 1 /\ out' = out
    BY <1>3, ApplyIsStep, StepsApart DEF Buffer!vars
  <2>2. CASE Judge!Drop(e)
    <3>1. admitted' = admitted /\ Admitted' = Admitted
      BY <2>2 DEF Judge!Drop, Admitted
    <3>2. ASSUME NEW k \in Admitted
          PROVE  \E p \in 1 .. applied' : out'[p].event = admitted'[k]
                                          /\ Len(admitted') - k <= applied' - p
      <4>1. PICK p \in 1 .. applied : out[p].event = admitted[k] /\ N - k <= applied - p
        BY DEF AppliedInv
      <4>2. p \in 1 .. applied' /\ Len(admitted') - k <= applied' - p
        BY <1>1, <2>1, <3>1, <4>1
      <4>3. QED
        BY <2>1, <3>1, <4>1, <4>2
    <3>3. QED
      BY <1>2, <3>1, <3>2 DEF AppliedInv
  <2>3. CASE Judge!Accept(e)
    <3>1. /\ Len(admitted') = N + 1 /\ admitted'[N + 1] = e
          /\ \A k \in 1 .. N : admitted'[k] = admitted[k]
      BY <2>1, <2>3, StageAssumptions, Judge!AcceptAppends DEF FeedTypeOK
    <3> HIDE DEF N
    <3>2. ASSUME NEW k \in 1 .. N + 1
          PROVE  \E p \in 1 .. applied' : out'[p].event = admitted'[k]
                                          /\ Len(admitted') - k <= applied' - p
      <4>1. CASE k = N + 1
        BY <1>1, <2>1, <3>1, <4>1
      <4>2. CASE k \in 1 .. N
        <5>1. PICK p \in 1 .. applied : out[p].event = admitted[k] /\ N - k <= applied - p
          BY <1>1, <4>2 DEF AppliedInv, N
        <5>2. p \in 1 .. applied' /\ Len(admitted') - k <= applied' - p
          BY <1>1, <2>1, <3>1, <4>2, <5>1
        <5>3. QED
          BY <2>1, <3>1, <4>2, <5>1, <5>2
      <4>3. QED
        BY <1>1, <4>1, <4>2
    <3>3. QED
      BY <1>2, <3>1, <3>2 DEF AppliedInv, Admitted
  <2>4. QED
    BY <2>1, <2>2, <2>3
<1>4. CASE Damage \/ Push \/ Drain \/ EndOfTape \/ Flush \/ UNCHANGED feedVars
  <2>1. /\ admitted' = admitted /\ Admitted' = Admitted /\ applied' = applied
        /\ \A p \in 1 .. applied : out'[p] = out[p]
    BY <1>4, ReleasesStay, StepsApart DEF Judge!guardVars, Admitted
  <2>2. ASSUME NEW k \in Admitted
        PROVE  \E p \in 1 .. applied' : out'[p].event = admitted'[k]
                                        /\ Len(admitted') - k <= applied' - p
    <3>1. PICK p \in 1 .. applied : out[p].event = admitted[k] /\ N - k <= applied - p
      BY DEF AppliedInv
    <3>2. QED
      BY <2>1, <3>1
  <2>3. QED
    BY <1>2, <2>1, <2>2 DEF AppliedInv
<1>5. QED
  BY <1>3, <1>4 DEF FeedNext

\* An event the guard accepts has not been admitted before.
LEMMA AcceptedIsNew ==
  ASSUME MemoryReaches, FeedTypeOK, TapeInv, ReadInv, CopyInv, AppliedInv, Apply,
         Judge!Accept(out[applied + 1].event), NEW k \in Admitted
  PROVE  admitted[k].eid # out[applied + 1].event.eid
<1> DEFINE e == out[applied + 1].event
           N == Len(admitted)
           q == applied + 1
<1>1. SUFFICES ASSUME admitted[k].eid = e.eid PROVE FALSE
  OBVIOUS
<1>2. /\ q \in 1 .. Len(out) /\ e \in Line /\ applied \in Nat /\ Len(out) \in Nat
      /\ N \in Nat /\ k \in 1 .. N /\ k \in Nat
  BY ApplyIsStep DEF FeedTypeOK, Buffer!TypeOK, Judge!GuardTypeOK, Admitted
<1>3. N + 1 - k > DedupCapacity
  BY <1>1, <1>2, StageAssumptions, Judge!AcceptedIsFresh
     DEF FeedTypeOK, AppliedInv, Judge!MemoryInv
<1>4. PICK p \in 1 .. applied : out[p].event = admitted[k] /\ N - k <= applied - p
  BY DEF AppliedInv
<1>5. p \in 1 .. Len(out) /\ p # q /\ out[p].event.eid = e.eid
  BY <1>1, <1>2, <1>4
<1>6. out[p] \in Buffer!Released /\ out[q] \in Buffer!Released
  BY <1>2, <1>5 DEF Buffer!Released, FeedTypeOK, Buffer!TypeOK
<1>7. out[p].line # out[q].line
  <2>1. p \in DOMAIN out /\ q \in DOMAIN out
    BY <1>2, <1>5 DEF FeedTypeOK, Buffer!TypeOK
  <2>2. QED
    BY <1>5, <1>6, <2>1 DEF ReadInv, Buffer!LineInv, Buffer!EachLineOnce
<1>8. /\ out[q].line \in 1 .. Len(lines) /\ out[q].event = lines[out[q].line]
  BY <1>6, ReadNodes DEF TapeInv
<1>9. q <= p + Capacity + 2
  BY <1>2, <1>5, <1>7, <1>8 DEF CopyInv
<1>10. DedupCapacity >= Capacity + 2 /\ DedupCapacity \in Nat /\ Capacity \in Nat
  BY DEF MemoryReaches
<1>11. N - k <= applied - p /\ applied + 1 <= p + Capacity + 2 /\ p \in Nat
  BY <1>4, <1>9
<1> HIDE DEF N, q, e
<1>12. QED
  BY <1>2, <1>3, <1>10, <1>11

(***************************************************************************)
(* No event is applied twice whatever the feed does, timestamps included,  *)
(* for every memory that holds two ids more than the buffer holds events.  *)
(***************************************************************************)
THEOREM NeverAppliedTwiceAnyClocks ==
  ASSUME MemoryReaches
  PROVE  FeedSpec => []NeverAppliedTwice
<1>1. FeedInit => AppliedInv /\ NeverAppliedTwice
  <2> SUFFICES ASSUME FeedInit PROVE AppliedInv /\ NeverAppliedTwice
    OBVIOUS
  <2>1. admitted = <<>> /\ seen = {} /\ seen_order = <<>>
    BY StagesInitially DEF Judge!GuardInit
  <2>2. Judge!MemoryInv
    BY <2>1 DEF Judge!MemoryInv, Judge!RemembersTheLatest, Judge!NoDuplicateInHorizon
  <2>3. QED
    BY <2>1, <2>2 DEF AppliedInv, NeverAppliedTwice, Admitted
<1>2. ASSUME FeedTypeOK, TapeInv, ReadInv, CopyInv, AppliedInv, NeverAppliedTwice,
             [FeedNext]_feedVars
      PROVE  NeverAppliedTwice'
  <2> DEFINE N == Len(admitted)
             e == out[applied + 1].event
  <2>1. CASE Apply /\ Judge!Accept(e)
    <3>1. e \in Line
      BY <1>2, <2>1, ApplyIsStep
    <3>2. /\ N \in Nat /\ Len(admitted') = N + 1 /\ admitted'[N + 1] = e
          /\ \A k \in 1 .. N : admitted'[k] = admitted[k]
      BY <1>2, <2>1, <3>1, StageAssumptions, Judge!AcceptAppends DEF FeedTypeOK
    <3>3. \A k \in 1 .. N : admitted[k].eid # e.eid
      BY <1>2, <2>1, AcceptedIsNew DEF Admitted
    <3> HIDE DEF N
    <3>4. QED
      BY <1>2, <3>2, <3>3 DEF NeverAppliedTwice, Admitted, N
  <2>2. CASE ~(Apply /\ Judge!Accept(e))
    <3>1. admitted' = admitted
      BY <1>2, <2>2, ApplyIsStep, StepsApart DEF FeedNext, Judge!Drop, Judge!guardVars
    <3>2. QED
      BY <1>2, <3>1 DEF NeverAppliedTwice, Admitted
  <2>3. QED
    BY <2>1, <2>2
<1>3. FeedTypeOK /\ TapeInv /\ ReadInv /\ CopyInv /\ AppliedInv /\ NeverAppliedTwice
        /\ [FeedNext]_feedVars => AppliedInv' /\ NeverAppliedTwice'
  BY <1>2, AppliedKept
<1>4. QED
  BY <1>1, <1>3, FeedTypeCorrect, CopiesLeaveTogetherCorrect, PTL DEF FeedSpec

-----------------------------------------------------------------------------
(***************************************************************************)
(* Below the feed may lose, double and exchange lines, but timestamps are  *)
(* right and the buffer waits at least a tick.                             *)
(***************************************************************************)
ClocksAgree == "skew" \notin Rates /\ Tolerance > 0

\* A line shows an event of the clean tape as it is.
LineOrder ==
  /\ NumberOrder
  /\ \A i \in 1 .. Len(lines) : lines[i].ts = events[lines[i].eid].ts

LEMMA LineOrderKept ==
  ASSUME ClocksAgree, TapeOK, LineOrder, Damage
  PROVE  LineOrder'
<1>1. NumberOrder' /\ events' = events /\ Len(lines) \in Nat
  <2>1. NumberOrder'
    BY NumberOrderKept DEF LineOrder
  <2>2. events' = events
    BY DEF Damage, DefectsNext, DropEvent, WriteEvent, StartSecondPass, Transpose, LeaveInPlace
  <2>3. QED
    BY <2>1, <2>2 DEF TapeOK
<1>2. CASE WriteEvent
  <2>1. PICK e \in Line, copies \in {1, 2} :
           /\ Len(lines') = Len(lines) + copies
           /\ \A i \in 1 .. Len(lines) : lines'[i] = lines[i]
           /\ \A i \in Len(lines) + 1 .. Len(lines) + copies : lines'[i] = e
           /\ e.eid = taken + 1
           /\ e.ts = events[taken + 1].ts
    BY <1>2, WrittenLines DEF ClocksAgree
  <2>2. \A i \in 1 .. Len(lines') :
          \/ i \in 1 .. Len(lines) /\ lines'[i] = lines[i]
          \/ i > Len(lines) /\ lines'[i] = e
    BY <1>1, <2>1
  <2>3. QED
    BY <1>1, <2>1, <2>2 DEF LineOrder
<1>3. CASE Transpose
  BY <1>1, <1>3, SwappedLines DEF LineOrder
<1>4. CASE DropEvent \/ StartSecondPass \/ LeaveInPlace
  BY <1>1, <1>4 DEF LineOrder, DropEvent, StartSecondPass, LeaveInPlace
<1>5. QED
  BY <1>2, <1>3, <1>4 DEF Damage, DefectsNext

\* On the tape, time goes with the number.
LEMMA TimeFollowsNumber ==
  ASSUME TapeOK, LineOrder, NEW i \in 1 .. Len(lines), NEW j \in 1 .. Len(lines)
  PROVE  /\ lines[i].eid \in Nat /\ lines[i].ts \in Nat /\ lines[i].seq = lines[i].eid
         /\ lines[i].eid <= lines[j].eid => lines[i].ts <= lines[j].ts
         /\ lines[i].ts < lines[j].ts => lines[i].eid < lines[j].eid
<1>1. lines \in Seq(Line) /\ Len(lines) \in Nat /\ events \in Tapes /\ taken \in 0 .. Len(events)
  BY DEF TapeOK
<1>2. Len(events) \in Nat
  <2>1. events \in Seq(ToSet(events))
    BY <1>1
  <2>2. QED
    BY <2>1
<1>3. \A k \in {i, j} : /\ lines[k].eid \in 1 .. Len(events)
                        /\ lines[k].ts = events[lines[k].eid].ts
                        /\ lines[k].seq = lines[k].eid
  BY <1>1, <1>2 DEF LineOrder, NumberOrder
<1>4. \A k \in {i, j} : lines[k].ts \in Nat
  BY <1>1, <1>3, EventFields
<1>5. ASSUME NEW k \in {i, j}, NEW l \in {i, j}, lines[k].eid <= lines[l].eid
      PROVE  lines[k].ts <= lines[l].ts
  <2> DEFINE a == lines[k].eid
             b == lines[l].eid
  <2>1. a \in 1 .. Len(events) /\ b \in 1 .. Len(events) /\ a <= b
        /\ lines[k].ts = events[a].ts /\ lines[l].ts = events[b].ts
    BY <1>3, <1>5
  <2> HIDE DEF a, b
  <2>2. events[a].ts <= events[b].ts
    BY <1>1, <2>1, EventFields
  <2>3. QED
    BY <2>1, <2>2
<1>6. QED
  BY <1>2, <1>3, <1>4, <1>5

-----------------------------------------------------------------------------
\* What has left the buffer is never overtaken: nothing held and nothing still
\* to come is older.
BufferInv ==
  /\ fed \in 0 .. Len(lines)
  /\ fed > 0 \/ phase # "idle" => TapeWritten
  /\ phase \in {"flush", "done"} => fed = Len(lines)
  /\ refused = {}
  /\ Buffer!LineInv
  /\ \A n \in heap \cup Buffer!Released : n.event = lines[n.line]
  /\ max_ts_seen = -1 \/ \E k \in 1 .. fed : max_ts_seen = lines[k].ts
  /\ IF out = <<>> THEN last_released_ts = -1
                   ELSE last_released_ts = out[Len(out)].event.ts
  /\ \A i \in 1 .. Len(out) :
       /\ \A m \in heap : out[i].event.eid <= m.event.eid
       /\ \A k \in fed + 1 .. Len(lines) : out[i].event.eid <= lines[k].eid
       /\ \A j \in 1 .. Len(out) : i <= j => out[i].event.eid <= out[j].event.eid

\* The guard has admitted each of the events applied once, in order.
JudgeInv ==
  /\ \A i \in 1 .. applied : \E k \in Admitted : admitted[k].eid = out[i].event.eid
  /\ \A k \in Admitted : \E i \in 1 .. applied : admitted[k] = out[i].event
  /\ \A j, k \in Admitted : j < k => admitted[j].eid < admitted[k].eid
  /\ Judge!MemoryInv /\ Judge!AccountInv
  /\ stats.sequence_backward = 0
  /\ stats.events_admitted = Len(admitted)
  /\ have_last => last_seq = admitted[Len(admitted)].seq

\* The nodes of the buffer are lines of the tape that have been read.
LEMMA Nodes ==
  ASSUME FeedTypeOK, LineOrder, BufferInv, NEW n \in heap \cup Buffer!Released
  PROVE  /\ n.line \in 1 .. fed /\ n.line \in 1 .. Len(lines)
         /\ n.event = lines[n.line] /\ n.event.eid \in Nat /\ n.event.ts \in Nat
         /\ n.event.seq = n.event.eid
<1>1. n.line \in 1 .. fed /\ n.event = lines[n.line] /\ fed \in 0 .. Len(lines)
      /\ Len(lines) \in Nat
  BY DEF BufferInv, Buffer!LineInv, FeedTypeOK, TapeOK
<1>2. n.line \in 1 .. Len(lines)
  BY <1>1
<1>3. QED
  BY <1>1, <1>2, TimeFollowsNumber DEF FeedTypeOK

(***************************************************************************)
(* A node that is popped while, if it is the last line read, an older line *)
(* lies behind it, is older than everything held or still to come.         *)
(***************************************************************************)
LEMMA TopIsOldest ==
  ASSUME FeedTypeOK, LineOrder, BufferInv, TapeWritten, NEW n \in Buffer!Top(heap),
         n.line = fed /\ fed < Len(lines) =>
           \E k \in 1 .. fed - 1 : n.event.eid <= lines[k].eid
  PROVE  /\ n \in heap
         /\ \A m \in heap : n.event.eid <= m.event.eid
         /\ \A k \in fed + 1 .. Len(lines) : n.event.eid <= lines[k].eid
<1>1. n \in heap /\ \A m \in heap : ~Buffer!Later(n, m)
  BY DEF Buffer!Top
<1>2. fed \in 0 .. Len(lines) /\ Len(lines) \in Nat
  BY DEF BufferInv, FeedTypeOK, TapeOK
<1>3. /\ n.line \in 1 .. fed /\ n.line \in 1 .. Len(lines)
      /\ n.event = lines[n.line] /\ n.event.eid \in Nat
  BY <1>1, Nodes
<1>4. ASSUME NEW m \in heap PROVE n.event.eid <= m.event.eid
  <2>1. /\ m.line \in 1 .. Len(lines) /\ m.event = lines[m.line] /\ m.event.eid \in Nat
        /\ m.event.ts \in Nat /\ n.event.ts \in Nat
        /\ m.event.seq = m.event.eid /\ n.event.seq = n.event.eid
    BY <1>1, Nodes
  <2>2. n.event.ts < m.event.ts => n.event.eid < m.event.eid
    <3>1. TapeOK
      BY DEF FeedTypeOK
    <3>2. lines[n.line].ts < lines[m.line].ts => lines[n.line].eid < lines[m.line].eid
      BY <1>3, <2>1, <3>1, TimeFollowsNumber
    <3>3. QED
      BY <1>3, <2>1, <3>2
  <2>3. ~Buffer!Later(n, m)
    BY <1>1
  <2>4. QED
    BY <1>3, <2>1, <2>2, <2>3 DEF Buffer!Later
<1>5. ASSUME NEW k \in fed + 1 .. Len(lines) PROVE n.event.eid <= lines[k].eid
  <2>1. ASSUME NEW i \in 1 .. Len(lines), i + 2 <= k PROVE lines[i].eid <= lines[k].eid
    <3>1. k \in 1 .. Len(lines) /\ i < k /\ k >= i + 2
      BY <1>2, <2>1
    <3>2. QED
      BY <3>1 DEF LineOrder, NumberOrder
  <2>2. CASE n.line + 2 <= k
    BY <1>3, <2>1, <2>2
  <2>3. CASE n.line = fed /\ k = fed + 1
    <3>1. PICK j \in 1 .. fed - 1 : n.event.eid <= lines[j].eid
      BY <1>2, <2>3
    <3>2. lines[j].eid <= lines[k].eid /\ j \in 1 .. Len(lines) /\ k \in 1 .. Len(lines)
      BY <1>2, <2>1, <2>3
    <3>3. lines[j].eid \in Nat /\ lines[k].eid \in Nat
      BY <3>2, TimeFollowsNumber DEF FeedTypeOK
    <3>4. QED
      BY <1>3, <3>1, <3>2, <3>3
  <2>4. QED
    BY <1>2, <1>3, <2>2, <2>3
<1>6. QED
  BY <1>1, <1>4, <1>5

LEMMA PopKeepsBuffer ==
  ASSUME FeedTypeOK, LineOrder, BufferInv, TapeWritten, NEW n \in Buffer!Top(heap),
         n.line = fed /\ fed < Len(lines) =>
           \E k \in 1 .. fed - 1 : n.event.eid <= lines[k].eid,
         Buffer!Pop(n), phase' = phase, UNCHANGED defectVars
  PROVE  BufferInv'
<1>1. n \in heap
  BY DEF Buffer!Top
<1>2. /\ Buffer!Released' = Buffer!Released \cup {n}
      /\ heap' = heap \ {n} /\ refused' = refused /\ fed' = fed
      /\ max_ts_seen' = max_ts_seen /\ last_released_ts' = n.event.ts
      /\ lines' = lines
      /\ TapeWritten' = TapeWritten
  BY <1>1, StageAssumptions, Buffer!PopMoves
     DEF FeedTypeOK, Buffer!Pop, defectVars, TapeWritten, MorePairs
<1>3. Buffer!LineInv'
  BY <1>1, StageAssumptions, Buffer!PopKeepsLines DEF FeedTypeOK, BufferInv
<1>4. /\ Len(out) \in Nat /\ Len(out') = Len(out) + 1 /\ out' # <<>>
      /\ out'[Len(out) + 1] = n
      /\ \A i \in 1 .. Len(out) : out'[i] = out[i]
  BY DEF FeedTypeOK, Buffer!TypeOK, Buffer!Pop
<1>5. last_released_ts' = out'[Len(out')].event.ts
  BY <1>2, <1>4
<1>6. ASSUME NEW i \in 1 .. Len(out')
      PROVE  /\ \A m \in heap' : out'[i].event.eid <= m.event.eid
             /\ \A k \in fed' + 1 .. Len(lines') : out'[i].event.eid <= lines'[k].eid
             /\ \A j \in 1 .. Len(out') : i <= j => out'[i].event.eid <= out'[j].event.eid
  <2>1. CASE i = Len(out) + 1
    <3>1. n.event.eid \in Nat
      BY <1>1, Nodes
    <3>2. \A j \in 1 .. Len(out') : i <= j => j = i
      BY <1>4, <2>1
    <3>3. QED
      BY <1>2, <1>4, <2>1, <3>1, <3>2, TopIsOldest
  <2>2. CASE i \in 1 .. Len(out)
    <3>1. /\ \A m \in heap : out[i].event.eid <= m.event.eid
          /\ \A k \in fed + 1 .. Len(lines) : out[i].event.eid <= lines[k].eid
          /\ \A j \in 1 .. Len(out) : i <= j => out[i].event.eid <= out[j].event.eid
      BY <2>2 DEF BufferInv
    <3>2. ASSUME NEW j \in 1 .. Len(out'), i <= j
          PROVE  out'[i].event.eid <= out'[j].event.eid
      <4>1. CASE j = Len(out) + 1
        BY <1>1, <1>4, <2>2, <3>1, <4>1
      <4>2. CASE j \in 1 .. Len(out)
        BY <1>4, <2>2, <3>1, <3>2, <4>2
      <4>3. QED
        BY <1>4, <4>1, <4>2
    <3>3. QED
      BY <1>2, <1>4, <2>2, <3>1, <3>2
  <2>3. QED
    BY <1>4, <2>1, <2>2
<1>7. /\ fed' \in 0 .. Len(lines')
      /\ fed' > 0 \/ phase' # "idle" => TapeWritten'
      /\ phase' \in {"flush", "done"} => fed' = Len(lines')
      /\ refused' = {}
      /\ max_ts_seen' = -1 \/ \E k \in 1 .. fed' : max_ts_seen' = lines'[k].ts
  BY <1>2 DEF BufferInv
<1>8. \A m \in heap' \cup Buffer!Released' : m.event = lines'[m.line]
  BY <1>1, <1>2 DEF BufferInv
<1>9. QED
  BY <1>3, <1>4, <1>5, <1>6, <1>7, <1>8 DEF BufferInv

(***************************************************************************)
(* drain_ready: what is ready is ready because a younger line has been     *)
(* read, and what is forced out leaves another behind.                     *)
(***************************************************************************)
LEMMA DrainKeepsBuffer ==
  ASSUME ClocksAgree, FeedTypeOK, LineOrder, BufferInv, Drain
  PROVE  BufferInv'
<1>1. /\ Buffer!Drain /\ UNCHANGED defectVars /\ phase = "drain" /\ TapeWritten
      /\ fed \in 0 .. Len(lines) /\ Len(lines) \in Nat
  BY BufferIsStep, StepsApart
     DEF Drain, Buffer!Drain, Buffer!PopReady, Buffer!PopOverflow, Buffer!DrainDone,
         BufferInv, FeedTypeOK, TapeOK
<1>2. CASE Buffer!PopReady
  <2>1. PICK n \in Buffer!Ready : Buffer!Pop(n)
    BY <1>2 DEF Buffer!PopReady
  <2>2. n \in Buffer!Top(heap) /\ n \in heap /\ n.event.ts <= max_ts_seen - Tolerance
    BY DEF Buffer!Ready, Buffer!Top, Buffer!Watermark
  <2>3. /\ n.line \in 1 .. fed /\ n.line \in 1 .. Len(lines) /\ n.event = lines[n.line]
        /\ n.event.ts \in Nat /\ n.event.eid \in Nat
    BY <2>2, Nodes
  <2>4. max_ts_seen \in Nat \cup {-1} /\ Tolerance \in Nat /\ Tolerance > 0
    BY DEF FeedTypeOK, Buffer!TypeOK, Buffer!MinTs, ClocksAgree
  <2>5. PICK k \in 1 .. fed : max_ts_seen = lines[k].ts
    BY <2>2, <2>3, <2>4 DEF BufferInv
  <2>6. k \in 1 .. Len(lines) /\ n.event.ts < lines[k].ts
    BY <1>1, <2>2, <2>3, <2>4, <2>5
  <2>7. n.event.eid < lines[k].eid /\ lines[k].eid \in Nat
    BY <2>3, <2>6, TimeFollowsNumber DEF FeedTypeOK
  <2>8. n.line = fed => k \in 1 .. fed - 1
    BY <1>1, <2>3, <2>7
  <2>9. n.line = fed => \E j \in 1 .. fed - 1 : n.event.eid <= lines[j].eid
    BY <2>3, <2>7, <2>8
  <2>10. QED
    BY <1>1, <1>2, <2>1, <2>2, <2>9, PopKeepsBuffer DEF Buffer!PopReady
<1>3. CASE Buffer!PopOverflow
  <2>1. PICK n \in Buffer!Top(heap) : Buffer!Pop(n)
    BY <1>3 DEF Buffer!PopOverflow
  <2>2. n \in heap /\ \A m \in heap : ~Buffer!Later(n, m)
    BY DEF Buffer!Top
  <2>3. PICK m \in heap : m # n
    <3>1. Cardinality(heap) > Capacity
      BY <1>3 DEF Buffer!PopOverflow, Buffer!OverCapacity, Buffer!Cardinality, Cardinality
    <3>2. heap # {n}
      <4>1. Cardinality({n}) = 1
        BY FS_Singleton
      <4>2. ~(1 > Capacity)
        OBVIOUS
      <4>3. QED
        BY <3>1, <4>1, <4>2
    <3>3. QED
      BY <2>2, <3>2
  <2>4. \A x \in {m, n} : /\ x.line \in 1 .. fed /\ x.line \in 1 .. Len(lines)
                         /\ x.event = lines[x.line] /\ x.event.eid \in Nat
                         /\ x.event.ts \in Nat /\ x.event.seq = x.event.eid
    BY <2>2, <2>3, Nodes
  <2>5. n.event.eid <= m.event.eid
    <3>1. n.event.ts < m.event.ts => n.event.eid < m.event.eid
      BY <2>4, TimeFollowsNumber DEF FeedTypeOK
    <3>2. ~Buffer!Later(n, m)
      BY <2>2, <2>3
    <3>3. QED
      BY <2>4, <3>1, <3>2 DEF Buffer!Later
  <2>6. m.line # n.line
    BY <2>2, <2>3 DEF BufferInv, Buffer!LineInv, Buffer!EachLineOnce
  <2>7. n.line = fed => m.line \in 1 .. fed - 1
    BY <1>1, <2>4, <2>6
  <2>8. n.line = fed => \E j \in 1 .. fed - 1 : n.event.eid <= lines[j].eid
    BY <2>4, <2>5, <2>7
  <2>9. QED
    BY <1>1, <1>3, <2>1, <2>8, PopKeepsBuffer DEF Buffer!PopOverflow
<1>4. CASE Buffer!DrainDone
  BY <1>1, <1>4 DEF Buffer!DrainDone, defectVars, TapeWritten, MorePairs, BufferInv,
                    Buffer!LineInv, Buffer!EachLineOnce, Buffer!Released
<1>5. QED
  BY <1>1, <1>2, <1>3, <1>4 DEF Buffer!Drain

LEMMA FlushKeepsBuffer ==
  ASSUME FeedTypeOK, LineOrder, BufferInv, Flush
  PROVE  BufferInv'
<1>1. Buffer!Flush /\ UNCHANGED defectVars /\ phase = "flush" /\ TapeWritten
      /\ fed = Len(lines) /\ Len(lines) \in Nat
  BY BufferIsStep, StepsApart
     DEF Buffer!Flush, Buffer!PopFlush, Buffer!FlushDone, BufferInv, FeedTypeOK, TapeOK
<1>2. CASE Buffer!PopFlush
  <2>1. PICK n \in Buffer!Top(heap) : Buffer!Pop(n)
    BY <1>2 DEF Buffer!PopFlush
  <2>2. ~(fed < Len(lines))
    BY <1>1
  <2>3. QED
    BY <1>1, <1>2, <2>1, <2>2, PopKeepsBuffer DEF Buffer!PopFlush
<1>3. CASE Buffer!FlushDone
  BY <1>1, <1>3 DEF Buffer!FlushDone, defectVars, TapeWritten, MorePairs, BufferInv,
                    Buffer!LineInv, Buffer!EachLineOnce, Buffer!Released
<1>4. QED
  BY <1>1, <1>2, <1>3 DEF Buffer!Flush

\* Nothing is refused: no line is older than what has been released.
LEMMA PushKeepsBuffer ==
  ASSUME FeedTypeOK, LineOrder, BufferInv, Push
  PROVE  BufferInv'
<1> DEFINE e == lines[fed + 1]
           n == [line |-> fed + 1, event |-> e]
<1>1. /\ Buffer!Step /\ UNCHANGED defectVars /\ TapeWritten
      /\ Buffer!PushLate(e) \/ Buffer!PushHeld(e)
      /\ fed \in 0 .. Len(lines) /\ Len(lines) \in Nat /\ fed + 1 \in 1 .. Len(lines)
      /\ e.eid \in Nat /\ e.ts \in Nat
  BY PushIsStep, StepsApart, TimeFollowsNumber DEF Push, BufferInv, FeedTypeOK, TapeOK
<1>2. ~Buffer!Late(e)
  <2>1. CASE out = <<>>
    BY <1>1, <2>1 DEF BufferInv, Buffer!Late
  <2>2. CASE out # <<>>
    <3> DEFINE l == out[Len(out)]
    <3>1. Len(out) \in 1 .. Len(out) /\ Len(out) \in Nat
      BY <2>2 DEF FeedTypeOK, Buffer!TypeOK
    <3>2. l \in Buffer!Released
      BY <3>1 DEF FeedTypeOK, Buffer!TypeOK, Buffer!Released
    <3>3. l.event.eid <= e.eid
      BY <1>1, <3>1 DEF BufferInv
    <3>4. l.event.ts <= e.ts /\ l.event.ts \in Nat
      <4>1. l.line \in 1 .. Len(lines) /\ l.event = lines[l.line] /\ l.event.ts \in Nat
        BY <3>2, Nodes
      <4> HIDE DEF l
      <4>2. QED
        BY <1>1, <3>3, <4>1, TimeFollowsNumber DEF FeedTypeOK
    <3>5. last_released_ts = l.event.ts
      BY <2>2 DEF BufferInv
    <3> HIDE DEF l, e
    <3>6. QED
      BY <1>1, <3>4, <3>5 DEF Buffer!Late
  <2>3. QED
    BY <2>1, <2>2
<1>3. Buffer!PushHeld(e)
  BY <1>1, <1>2 DEF Buffer!PushLate
<1>4. /\ fed' = fed + 1 /\ heap' = heap \cup {n} /\ out' = out /\ refused' = refused
      /\ max_ts_seen' = Buffer!Max2(max_ts_seen, e.ts) /\ phase' = "drain"
      /\ last_released_ts' = last_released_ts /\ lines' = lines
      /\ TapeWritten' = TapeWritten /\ Buffer!Released' = Buffer!Released
  BY <1>1, <1>3 DEF Buffer!PushHeld, defectVars, TapeWritten, MorePairs, Buffer!Released
<1>5. Buffer!LineInv'
  BY <1>1, StageAssumptions, Buffer!LinesKept DEF FeedTypeOK, BufferInv
<1>6. max_ts_seen' = -1 \/ \E k \in 1 .. fed' : max_ts_seen' = lines'[k].ts
  <2>1. fed + 1 \in 1 .. fed' /\ 1 .. fed \subseteq 1 .. fed'
    BY <1>1, <1>4
  <2>2. CASE max_ts_seen' = e.ts
    BY <1>4, <2>1, <2>2
  <2>3. CASE max_ts_seen' = max_ts_seen
    BY <1>4, <2>1, <2>3 DEF BufferInv
  <2>4. QED
    BY <1>4, <2>2, <2>3 DEF Buffer!Max2
<1>7. \A m \in heap' \cup Buffer!Released' : m.event = lines'[m.line]
  BY <1>4 DEF BufferInv
<1>8. ASSUME NEW i \in 1 .. Len(out')
      PROVE  /\ \A m \in heap' : out'[i].event.eid <= m.event.eid
             /\ \A k \in fed' + 1 .. Len(lines') : out'[i].event.eid <= lines'[k].eid
             /\ \A j \in 1 .. Len(out') : i <= j => out'[i].event.eid <= out'[j].event.eid
  <2>1. /\ \A m \in heap : out[i].event.eid <= m.event.eid
        /\ \A k \in fed + 1 .. Len(lines) : out[i].event.eid <= lines[k].eid
        /\ \A j \in 1 .. Len(out) : i <= j => out[i].event.eid <= out[j].event.eid
    BY <1>4 DEF BufferInv
  <2>2. fed + 1 \in fed + 1 .. Len(lines) /\ fed' + 1 .. Len(lines) \subseteq fed + 1 .. Len(lines)
    BY <1>1, <1>4
  <2>3. n.event.eid = lines[fed + 1].eid
    OBVIOUS
  <2> HIDE DEF n
  <2>4. QED
    BY <1>4, <2>1, <2>2, <2>3
<1>9. /\ fed' \in 0 .. Len(lines')
      /\ fed' > 0 \/ phase' # "idle" => TapeWritten'
      /\ phase' \in {"flush", "done"} => fed' = Len(lines')
      /\ refused' = {}
      /\ IF out' = <<>> THEN last_released_ts' = -1
                        ELSE last_released_ts' = out'[Len(out')].event.ts
  BY <1>1, <1>4 DEF BufferInv
<1>10. QED
  BY <1>5, <1>6, <1>7, <1>8, <1>9 DEF BufferInv

LEMMA BufferUnchanged ==
  ASSUME BufferInv, UNCHANGED Buffer!vars, UNCHANGED defectVars
  PROVE  BufferInv'
BY DEF Buffer!vars, defectVars, TapeWritten, MorePairs, BufferInv, Buffer!LineInv,
       Buffer!EachLineOnce, Buffer!Released

LEMMA DamageKeepsBuffer ==
  ASSUME FeedTypeOK, BufferInv, Damage
  PROVE  BufferInv'
<1>0. UNCHANGED Buffer!vars
  BY StepsApart
<1>1. ~TapeWritten /\ UNCHANGED Buffer!vars
  BY <1>0
     DEF Damage, DefectsNext, TapeWritten, DropEvent, WriteEvent, StartSecondPass, Transpose,
         LeaveInPlace, MoreEvents
<1>2. fed = 0 /\ phase = "idle"
  BY <1>1 DEF BufferInv
<1>3. Buffer!LineInv /\ heap = {} /\ Buffer!Released = {}
  BY <1>2 DEF BufferInv, Buffer!LineInv
<1>4. out = <<>>
  BY <1>3 DEF Buffer!Released, FeedTypeOK, Buffer!TypeOK
<1>5. Buffer!LineInv' /\ heap' = {} /\ Buffer!Released' = {}
  BY <1>1, <1>3 DEF Buffer!vars, Buffer!LineInv, Buffer!EachLineOnce, Buffer!Released
<1>6. Len(lines') \in Nat
  BY TapeKept DEF FeedTypeOK, TapeOK
<1>7. /\ fed' = 0 /\ phase' = "idle" /\ refused' = {} /\ out' = <<>>
      /\ max_ts_seen' = max_ts_seen /\ last_released_ts' = last_released_ts
  BY <1>1, <1>2, <1>4 DEF Buffer!vars, BufferInv
<1>8. max_ts_seen = -1 /\ last_released_ts = -1
  BY <1>2, <1>4 DEF BufferInv
<1>9. QED
  BY <1>5, <1>6, <1>7, <1>8 DEF BufferInv

LEMMA BufferKept ==
  ASSUME ClocksAgree, FeedTypeOK, LineOrder, BufferInv, [FeedNext]_feedVars
  PROVE  BufferInv'
<1>1. CASE EndOfTape
  BY <1>1, BufferIsStep, StepsApart
     DEF EndOfTape, Buffer!EndOfTape, defectVars, TapeWritten, MorePairs, BufferInv,
         Buffer!LineInv, Buffer!EachLineOnce, Buffer!Released
<1>2. CASE Apply \/ UNCHANGED feedVars
  BY <1>2, StepsApart, BufferUnchanged
<1>3. QED
  BY <1>1, <1>2, DamageKeepsBuffer, PushKeepsBuffer, DrainKeepsBuffer, FlushKeepsBuffer
     DEF FeedNext

LEMMA TapeOrderKept ==
  ASSUME ClocksAgree, FeedTypeOK, LineOrder, [FeedNext]_feedVars
  PROVE  LineOrder'
<1>1. CASE UNCHANGED defectVars
  BY <1>1 DEF defectVars, LineOrder, NumberOrder
<1>2. QED
  BY <1>1, LineOrderKept, StepsApart DEF FeedNext, FeedTypeOK

(***************************************************************************)
(* The buffer undoes every transposition: what it releases is in the       *)
(* venue's order, and no line comes too late for it.                       *)
(***************************************************************************)
THEOREM FeedOrderCorrect == ASSUME ClocksAgree PROVE FeedSpec => [](LineOrder /\ BufferInv)
<1>1. FeedInit => LineOrder /\ BufferInv
  <2> SUFFICES ASSUME FeedInit PROVE LineOrder /\ BufferInv
    OBVIOUS
  <2>1. lines = <<>> /\ position = 0
    BY StagesInitially DEF DefectsInit
  <2>2. LineOrder
    BY <2>1 DEF LineOrder, NumberOrder
  <2>3. Buffer!LineInv
    BY StagesInitially DEF Buffer!Init, Buffer!LineInv, Buffer!EachLineOnce, Buffer!Released
  <2>4. QED
    BY <2>1, <2>2, <2>3, StagesInitially
       DEF Buffer!Init, Buffer!MinTs, Buffer!Released, BufferInv
<1>2. FeedTypeOK /\ LineOrder /\ BufferInv /\ [FeedNext]_feedVars => LineOrder' /\ BufferInv'
  BY BufferKept, TapeOrderKept
<1>3. QED
  BY <1>1, <1>2, FeedTypeCorrect, PTL DEF FeedSpec

-----------------------------------------------------------------------------
\* The memory of the guard, read from outside.
LEMMA SeenIsAdmitted ==
  ASSUME Judge!GuardTypeOK, JudgeInv
  PROVE  /\ Len(admitted) \in Nat
         /\ \A x \in seen : \E k \in Admitted : admitted[k].eid = x
         /\ Len(admitted) > 0 => admitted[Len(admitted)].eid \in seen
<1> DEFINE N == Len(admitted)
           n == Len(seen_order)
           d == N - n
<1>1. N \in Nat /\ n \in Nat /\ DedupCapacity \in Nat \ {0}
  BY DEF Judge!GuardTypeOK
<1>2. /\ n = IF N < DedupCapacity THEN N ELSE DedupCapacity
      /\ \A k \in 1 .. n : seen_order[k] = admitted[d + k].eid
      /\ seen = {seen_order[k] : k \in 1 .. n}
  BY DEF JudgeInv, Judge!MemoryInv, Judge!RemembersTheLatest
<1>3. n <= N /\ (N > 0 => n \in 1 .. n)
  BY <1>1, <1>2
<1> HIDE DEF n, N
<1>4. \A k \in 1 .. n : d + k \in 1 .. N
  BY <1>1, <1>3
<1>5. ASSUME NEW x \in seen PROVE \E k \in Admitted : admitted[k].eid = x
  <2>1. PICK k \in 1 .. n : x = admitted[d + k].eid
    BY <1>2, <1>5
  <2>2. d + k \in Admitted
    BY <1>4 DEF Admitted, N
  <2>3. QED
    BY <2>1, <2>2
<1>6. ASSUME N > 0 PROVE admitted[N].eid \in seen
  <2>1. n \in 1 .. n /\ d + n = N
    BY <1>1, <1>3, <1>6
  <2>2. seen_order[n] = admitted[N].eid
    BY <1>2, <2>1
  <2>3. QED
    BY <1>2, <2>1, <2>2
<1>7. QED
  BY <1>1, <1>5, <1>6 DEF N

\* An event the guard accepts is younger than all it has accepted before.
LEMMA AcceptedIsYounger ==
  ASSUME FeedTypeOK, LineOrder, BufferInv, JudgeInv, Apply,
         Judge!Accept(out[applied + 1].event)
  PROVE  /\ out[applied + 1].event.eid \in Nat
         /\ out[applied + 1].event.seq = out[applied + 1].event.eid
         /\ \A k \in Admitted : /\ admitted[k].eid \in Nat /\ admitted[k].seq = admitted[k].eid
                               /\ admitted[k].eid < out[applied + 1].event.eid
<1> DEFINE e == out[applied + 1].event
<1>1. applied + 1 \in 1 .. Len(out) /\ applied \in Nat /\ Len(out) \in Nat
  BY ApplyIsStep DEF FeedTypeOK, Buffer!TypeOK
<1>2. \A i \in 1 .. Len(out) : out[i] \in Buffer!Released
  BY DEF FeedTypeOK, Buffer!TypeOK, Buffer!Released
<1>3. \A i \in 1 .. Len(out) : out[i].event.eid \in Nat /\ out[i].event.seq = out[i].event.eid
  BY <1>2, Nodes
<1>4. e.eid \notin seen
  BY DEF Judge!Accept, Judge!IsDuplicate
<1>5. ASSUME NEW k \in Admitted
      PROVE  admitted[k].eid \in Nat /\ admitted[k].seq = admitted[k].eid
             /\ admitted[k].eid <= e.eid
  <2>1. PICK i \in 1 .. applied : admitted[k] = out[i].event
    BY DEF JudgeInv
  <2>2. i \in 1 .. Len(out) /\ i <= applied + 1
    BY <1>1
  <2>3. out[i].event.eid <= out[applied + 1].event.eid
    BY <1>1, <2>2 DEF BufferInv
  <2>4. QED
    BY <1>3, <2>1, <2>2, <2>3
<1>6. e.eid \in Nat /\ e.seq = e.eid
  BY <1>1, <1>3
<1> HIDE DEF e
<1>7. ASSUME NEW k \in Admitted PROVE admitted[k].eid < e.eid
  <2> DEFINE N == Len(admitted)
  <2>1. N \in Nat /\ N \in Admitted /\ k <= N
    BY SeenIsAdmitted DEF Admitted, FeedTypeOK
  <2>2. admitted[N].eid \in seen
    BY <2>1, SeenIsAdmitted DEF Admitted, FeedTypeOK
  <2>3. admitted[N].eid < e.eid
    BY <1>4, <1>5, <1>6, <2>1, <2>2
  <2>4. k = N \/ admitted[k].eid < admitted[N].eid
    BY <2>1 DEF JudgeInv, Admitted
  <2>5. QED
    BY <1>5, <1>6, <2>1, <2>3, <2>4
<1>8. QED
  BY <1>5, <1>6, <1>7 DEF e

LEMMA ApplyKeepsJudge ==
  ASSUME FeedTypeOK, LineOrder, BufferInv, JudgeInv, Apply
  PROVE  JudgeInv'
<1> DEFINE e == out[applied + 1].event
           N == Len(admitted)
<1>1. /\ e \in Line /\ applied' = applied + 1 /\ applied \in Nat
      /\ Judge!GuardStep
      /\ Judge!Drop(e) \/ Judge!Accept(e)
      /\ out' = out /\ N \in Nat
  BY ApplyIsStep, StepsApart, SeenIsAdmitted DEF FeedTypeOK, Buffer!vars
<1>2. Judge!MemoryInv' /\ Judge!AccountInv'
  <2>1. Judge!GuardTypeOK /\ Judge!MemoryInv /\ Judge!AccountInv
    BY DEF FeedTypeOK, JudgeInv
  <2>2. Judge!GuardStep
    BY <1>1
  <2>3. Judge!MemoryInv'
    BY <2>1, <2>2, StageAssumptions, Judge!MemoryKept
  <2>4. Judge!AccountInv'
    BY <2>1, <2>2, StageAssumptions, Judge!AccountKept
  <2>5. QED
    BY <2>3, <2>4
<1>3. \A i \in 1 .. applied' : i \in 1 .. applied \/ i = applied + 1
  BY <1>1
<1>4. 1 .. applied \subseteq 1 .. applied' /\ applied + 1 \in 1 .. applied'
  BY <1>1
<1>5. CASE Judge!Drop(e)
  <2>1. /\ admitted' = admitted /\ Admitted' = Admitted
        /\ have_last' = have_last /\ last_seq' = last_seq
        /\ stats'.sequence_backward = stats.sequence_backward
        /\ stats'.events_admitted = stats.events_admitted
    BY <1>5 DEF Judge!Drop, Admitted, FeedTypeOK, Judge!GuardTypeOK, Judge!Stats
  <2>2. \E k \in Admitted : admitted[k].eid = e.eid
    BY <1>5, SeenIsAdmitted DEF Judge!Drop, Judge!IsDuplicate, FeedTypeOK
  <2>3. ASSUME NEW i \in 1 .. applied'
        PROVE  \E k \in Admitted' : admitted'[k].eid = out'[i].event.eid
    <3>1. CASE i = applied + 1
      BY <1>1, <2>1, <2>2, <3>1
    <3>2. CASE i \in 1 .. applied
      BY <1>1, <2>1, <3>2 DEF JudgeInv
    <3>3. QED
      BY <1>3, <3>1, <3>2
  <2>4. \A k \in Admitted' : \E i \in 1 .. applied' : admitted'[k] = out'[i].event
    BY <1>1, <1>4, <2>1 DEF JudgeInv
  <2>5. QED
    BY <1>2, <2>1, <2>3, <2>4 DEF JudgeInv
<1>6. CASE Judge!Accept(e)
  <2>1. /\ Len(admitted') = N + 1 /\ admitted'[N + 1] = e
        /\ \A i \in 1 .. N : admitted'[i] = admitted[i]
    BY <1>1, <1>6, StageAssumptions, Judge!AcceptAppends DEF FeedTypeOK
  <2>2. /\ Admitted = 1 .. N /\ Admitted' = 1 .. N + 1
        /\ \A k \in Admitted' : k \in Admitted \/ k = N + 1
        /\ Admitted \subseteq Admitted' /\ N + 1 \in Admitted'
    BY <1>1, <2>1 DEF Admitted
  <2>3. /\ e.eid \in Nat /\ e.seq = e.eid
        /\ \A k \in Admitted : /\ admitted[k].eid \in Nat /\ admitted[k].seq = admitted[k].eid
                              /\ admitted[k].eid < e.eid
    BY <1>6, AcceptedIsYounger
  <2>4. last_seq \in Nat /\ (have_last => last_seq < e.seq) /\ (~have_last => last_seq = 0)
        /\ have_last \in BOOLEAN
    <3>1. last_seq \in Nat /\ have_last \in BOOLEAN
      BY DEF FeedTypeOK, Judge!GuardTypeOK
    <3>2. ASSUME have_last PROVE last_seq < e.seq
      <4>1. N \in Admitted /\ last_seq = admitted[N].seq
        BY <1>1, <3>2 DEF JudgeInv, Judge!AccountInv, Admitted
      <4> HIDE DEF e, N
      <4>2. QED
        BY <2>3, <4>1
    <3>3. ~have_last => last_seq = 0
      BY DEF JudgeInv, Judge!AccountInv
    <3>4. QED
      BY <3>1, <3>2, <3>3
  <2>5. ~Judge!IsBackward(e)
    BY <2>3, <2>4 DEF Judge!IsBackward
  <2>6. /\ stats'.events_admitted = stats.events_admitted + 1
        /\ stats'.sequence_backward = stats.sequence_backward
    <3>1. /\ stats'.events_admitted = stats.events_admitted + 1
          /\ stats'.sequence_backward
               = stats.sequence_backward + (IF Judge!IsBackward(e) THEN 1 ELSE 0)
      BY <1>1, <1>6, StageAssumptions, Judge!AcceptStats
    <3>2. QED
      BY <2>5, <3>1 DEF JudgeInv
  <2>7. have_last' /\ last_seq' = e.seq
    <3>1. have_last' = TRUE /\ last_seq' = IF e.seq >= last_seq THEN e.seq ELSE last_seq
      BY <1>6 DEF Judge!Accept
    <3>2. QED
      BY <2>3, <2>4, <3>1
  <2> HIDE DEF N
  <2>8. ASSUME NEW i \in 1 .. applied'
        PROVE  \E k \in Admitted' : admitted'[k].eid = out'[i].event.eid
    <3>1. CASE i = applied + 1
      BY <1>1, <2>1, <2>2, <3>1
    <3>2. CASE i \in 1 .. applied
      <4>1. PICK k \in Admitted : admitted[k].eid = out[i].event.eid
        BY <3>2 DEF JudgeInv
      <4>2. k \in Admitted' /\ admitted'[k] = admitted[k]
        BY <2>1, <2>2
      <4>3. QED
        BY <1>1, <4>1, <4>2
    <3>3. QED
      BY <1>3, <3>1, <3>2
  <2>9. ASSUME NEW k \in Admitted'
        PROVE  \E i \in 1 .. applied' : admitted'[k] = out'[i].event
    <3>1. CASE k = N + 1
      BY <1>1, <1>4, <2>1, <3>1
    <3>2. CASE k \in Admitted
      <4>1. PICK i \in 1 .. applied : admitted[k] = out[i].event
        BY <3>2 DEF JudgeInv
      <4>2. i \in 1 .. applied' /\ admitted'[k] = admitted[k]
        BY <1>4, <2>1, <2>2, <3>2
      <4>3. QED
        BY <1>1, <4>1, <4>2
    <3>3. QED
      BY <2>2, <3>1, <3>2
  <2>10. ASSUME NEW j \in Admitted', NEW k \in Admitted', j < k
         PROVE  admitted'[j].eid < admitted'[k].eid
    <3>1. j \in Admitted
      BY <1>1, <2>2, <2>10
    <3>2. CASE k = N + 1
      BY <2>1, <2>2, <2>3, <3>1, <3>2
    <3>3. CASE k \in Admitted
      <4>1. admitted[j].eid < admitted[k].eid
        BY <2>10, <3>1, <3>3 DEF JudgeInv
      <4>2. admitted'[j] = admitted[j] /\ admitted'[k] = admitted[k]
        BY <2>1, <2>2, <3>1, <3>3
      <4>3. QED
        BY <4>1, <4>2
    <3>4. QED
      BY <2>2, <3>2, <3>3
  <2>11. /\ stats'.sequence_backward = 0 /\ stats'.events_admitted = Len(admitted')
         /\ last_seq' = admitted'[Len(admitted')].seq
    BY <2>1, <2>6, <2>7 DEF JudgeInv, N
  <2>12. QED
    BY <1>2, <2>8, <2>9, <2>10, <2>11 DEF JudgeInv
<1>7. QED
  BY <1>1, <1>5, <1>6

\* A stage that releases or stands still leaves what has been applied alone.
LEMMA JudgeUnchanged ==
  ASSUME FeedTypeOK, JudgeInv, UNCHANGED Judge!guardVars, applied' = applied,
         \A i \in 1 .. applied : out'[i] = out[i]
  PROVE  JudgeInv'
<1>1. Admitted' = Admitted /\ admitted' = admitted
  BY DEF Judge!guardVars, Admitted
<1>2. Judge!MemoryInv' /\ Judge!AccountInv'
  <2>1. /\ seen' = seen /\ seen_order' = seen_order /\ admitted' = admitted
        /\ stats' = stats /\ have_last' = have_last /\ last_seq' = last_seq
    BY DEF Judge!guardVars
  <2>2. Judge!RemembersTheLatest' /\ Judge!NoDuplicateInHorizon'
    <3>1. Judge!RemembersTheLatest /\ Judge!NoDuplicateInHorizon
      BY DEF JudgeInv, Judge!MemoryInv
    <3>2. Judge!RemembersTheLatest'
      BY <2>1, <3>1 DEF Judge!RemembersTheLatest
    <3>3. Judge!NoDuplicateInHorizon'
      BY <2>1, <3>1 DEF Judge!NoDuplicateInHorizon
    <3>4. QED
      BY <3>2, <3>3
  <2>3. Judge!AccountInv'
    BY <2>1 DEF JudgeInv, Judge!AccountInv, Judge!SequenceAccounted
  <2>4. QED
    BY <2>2, <2>3 DEF Judge!MemoryInv
<1>3. /\ \A i \in 1 .. applied' : \E k \in Admitted' : admitted'[k].eid = out'[i].event.eid
      /\ \A k \in Admitted' : \E i \in 1 .. applied' : admitted'[k] = out'[i].event
  <2>1. ASSUME NEW i \in 1 .. applied'
        PROVE  \E k \in Admitted' : admitted'[k].eid = out'[i].event.eid
    <3>1. i \in 1 .. applied /\ out'[i] = out[i]
      BY <2>1
    <3>2. \E k \in Admitted : admitted[k].eid = out[i].event.eid
      BY <3>1 DEF JudgeInv
    <3>3. QED
      BY <1>1, <3>1, <3>2
  <2>2. ASSUME NEW k \in Admitted'
        PROVE  \E i \in 1 .. applied' : admitted'[k] = out'[i].event
    <3>1. k \in Admitted
      BY <1>1, <2>2
    <3>2. PICK i \in 1 .. applied : admitted[k] = out[i].event
      BY <3>1 DEF JudgeInv
    <3>3. i \in 1 .. applied' /\ out'[i] = out[i]
      BY <3>2
    <3>4. QED
      BY <1>1, <3>2, <3>3
  <2>3. QED
    BY <2>1, <2>2
<1>4. QED
  BY <1>1, <1>2, <1>3 DEF JudgeInv, Judge!guardVars

LEMMA JudgeKept ==
  ASSUME FeedTypeOK, LineOrder, BufferInv, JudgeInv, [FeedNext]_feedVars
  PROVE  JudgeInv'
<1>1. CASE Apply
  BY <1>1, ApplyKeepsJudge
<1>2. CASE Damage \/ Push \/ Drain \/ EndOfTape \/ Flush \/ UNCHANGED feedVars
  BY <1>2, StepsApart, ReleasesStay, JudgeUnchanged
<1>3. QED
  BY <1>1, <1>2 DEF FeedNext

(***************************************************************************)
(* Behind the buffer the guard applies the events of the tape once each    *)
(* and in the venue's order, whatever is lost, doubled or exchanged.       *)
(***************************************************************************)
THEOREM FeedJudgeCorrect == ASSUME ClocksAgree PROVE FeedSpec => []JudgeInv
<1>1. FeedInit => JudgeInv
  <2> SUFFICES ASSUME FeedInit PROVE JudgeInv
    OBVIOUS
  <2>1. /\ admitted = <<>> /\ applied = 0 /\ seen = {} /\ seen_order = <<>> /\ ~have_last
        /\ stats.sequence_backward = 0 /\ stats.events_admitted = 0
        /\ stats.sequence_missing = 0 /\ last_seq = 0
    BY StagesInitially DEF Judge!GuardInit
  <2>2. Admitted = {}
    BY <2>1 DEF Admitted
  <2>3. Judge!MemoryInv
    BY <2>1 DEF Judge!MemoryInv, Judge!RemembersTheLatest, Judge!NoDuplicateInHorizon
  <2>4. Judge!AccountInv
    BY <2>1 DEF Judge!AccountInv, Judge!SequenceAccounted
  <2>5. QED
    BY <2>1, <2>2, <2>3, <2>4 DEF JudgeInv
<1>2. FeedTypeOK /\ LineOrder /\ BufferInv /\ JudgeInv /\ [FeedNext]_feedVars => JudgeInv'
  BY JudgeKept
<1>3. QED
  BY <1>1, <1>2, FeedTypeCorrect, FeedOrderCorrect, PTL DEF FeedSpec

(***************************************************************************)
(* No event is applied twice, for every capacity of the buffer and every   *)
(* size of the guard's memory, while timestamps are right.                 *)
(***************************************************************************)
THEOREM NeverAppliedTwiceCorrect == ASSUME ClocksAgree PROVE FeedSpec => []NeverAppliedTwice
<1>1. FeedTypeOK /\ JudgeInv => NeverAppliedTwice
  <2> SUFFICES ASSUME FeedTypeOK, JudgeInv, NEW i \in Admitted, NEW j \in Admitted,
                      admitted[i].eid = admitted[j].eid, i # j
               PROVE  FALSE
    BY DEF NeverAppliedTwice
  <2>1. admitted \in Seq(Line) /\ i \in Nat /\ j \in Nat
    BY DEF FeedTypeOK, Judge!GuardTypeOK, Admitted
  <2>2. admitted[i] \in Line /\ admitted[j] \in Line
    BY <2>1 DEF Admitted
  <2>3. admitted[i].eid \in Nat
    BY <2>2, LineFields
  <2>4. CASE i < j
    BY <2>3, <2>4 DEF JudgeInv
  <2>5. CASE j < i
    BY <2>3, <2>5 DEF JudgeInv
  <2>6. QED
    BY <2>1, <2>4, <2>5
<1>2. QED
  BY <1>1, FeedTypeCorrect, FeedJudgeCorrect, PTL

(***************************************************************************)
(* The loss reported is exactly the number of events between the first and *)
(* the last one applied that were not applied, while timestamps are right. *)
(***************************************************************************)
THEOREM MissingIsExactCorrect == ASSUME ClocksAgree PROVE FeedSpec => []MissingIsExact
<1>1. FeedTypeOK /\ JudgeInv => MissingIsExact
  <2> SUFFICES ASSUME FeedTypeOK, JudgeInv, have_last
               PROVE  stats.sequence_missing = (last_seq - admitted[1].seq + 1) - Len(admitted)
    BY DEF MissingIsExact
  <2>1. /\ stats.events_admitted = Len(admitted) /\ stats.sequence_backward = 0
        /\ stats.events_admitted - stats.sequence_backward + stats.sequence_missing
             = last_seq - admitted[1].seq + 1
    BY DEF JudgeInv, Judge!AccountInv, Judge!SequenceAccounted
  <2>2. stats.sequence_missing \in Nat /\ Len(admitted) \in Nat /\ last_seq \in Nat
    BY DEF FeedTypeOK, Judge!GuardTypeOK, Judge!Stats
  <2>3. admitted[1].seq \in Nat
    <3>1. admitted \in Seq(Line) /\ Len(admitted) > 0
      BY DEF FeedTypeOK, Judge!GuardTypeOK, JudgeInv, Judge!AccountInv
    <3>2. admitted[1] \in Line
      BY <3>1
    <3>3. QED
      BY <3>2, LineFields
  <2>4. QED
    BY <2>1, <2>2, <2>3
<1>2. QED
  BY <1>1, FeedTypeCorrect, FeedJudgeCorrect, PTL
-----------------------------------------------------------------------------
\* The events on the lines of the tape, and those applied.
Carried == {lines[i].eid : i \in 1 .. Len(lines)}
Applied == {admitted[i].eid : i \in Admitted}
Delivered == [i \in Admitted |-> admitted[i].eid]

LEMMA PendingIs ==
  /\ Pending = {k \in 1 .. Len(events) : (k <= taken => k \in Carried) /\ k \notin Applied}
  /\ Pending' = {k \in 1 .. Len(events') :
                   (k <= taken' => k \in Carried') /\ k \notin Applied'}
BY DEF Pending, Lost, Carried, Applied

LEMMA DeliveredUnchanged ==
  ASSUME admitted' = admitted
  PROVE  Delivered' = Delivered /\ Applied' = Applied
BY DEF Delivered, Applied, Admitted

\* Injecting damage loses at most one event at a time.
LEMMA DamageLoses ==
  ASSUME FeedTypeOK, LineOrder, BufferInv, JudgeInv, Damage
  PROVE  /\ Delivered' = Delivered
         /\ Pending' = Pending \/ \E k \in Pending : Pending' = Pending \ {k}
<1>1. /\ admitted' = admitted /\ events' = events /\ taken \in Nat /\ Len(events) \in Nat
      /\ Len(lines) \in Nat /\ taken \in 0 .. Len(events)
  <2>1. events \in Seq(ToSet(events))
    BY DEF FeedTypeOK, TapeOK
  <2>2. admitted' = admitted
    BY StepsApart DEF Judge!guardVars
  <2>3. QED
    BY <2>1, <2>2 DEF FeedTypeOK, TapeOK, Damage, DefectsNext, DropEvent, WriteEvent,
                      StartSecondPass, Transpose, LeaveInPlace
<1>2. Delivered' = Delivered /\ Applied' = Applied
  BY <1>1, DeliveredUnchanged
<1>3. Carried \subseteq 1 .. taken
  BY DEF Carried, LineOrder, NumberOrder
<1>4. CASE DropEvent
  <2>1. /\ lines' = lines /\ taken' = taken + 1 /\ taken + 1 \in 1 .. Len(events)
        /\ Carried' = Carried
    BY <1>1, <1>4 DEF DropEvent, MoreEvents, Carried
  <2>2. taken + 1 \notin Applied
    <3>1. SUFFICES ASSUME NEW i \in Admitted, admitted[i].eid = taken + 1 PROVE FALSE
      BY DEF Applied
    <3>2. PICK j \in 1 .. applied : admitted[i] = out[j].event
      BY DEF JudgeInv
    <3>3. out[j] \in Buffer!Released
      BY DEF FeedTypeOK, Buffer!TypeOK, Buffer!Released
    <3>4. out[j].line \in 1 .. Len(lines) /\ out[j].event = lines[out[j].line]
      BY <3>3, Nodes
    <3>5. taken + 1 \in Carried
      BY <3>1, <3>2, <3>4 DEF Carried
    <3>6. QED
      BY <1>1, <1>3, <3>5
  <2>3. taken + 1 \in Pending
    BY <1>1, <2>1, <2>2, PendingIs
  <2>4. \A k \in 1 .. Len(events) :
          k <= taken + 1 => k \in Carried <=> k # taken + 1 /\ (k <= taken => k \in Carried)
    BY <1>1, <1>3
  <2>5. Pending' = Pending \ {taken + 1}
    BY <1>1, <1>2, <2>1, <2>4, PendingIs
  <2>6. QED
    BY <1>2, <2>3, <2>5
<1>5. CASE WriteEvent
  <2>1. PICK e \in Line, copies \in {1, 2} :
           /\ Len(lines') = Len(lines) + copies
           /\ \A i \in 1 .. Len(lines) : lines'[i] = lines[i]
           /\ \A i \in Len(lines) + 1 .. Len(lines) + copies : lines'[i] = e
           /\ e.eid = taken + 1
    BY <1>5, WrittenLines DEF FeedTypeOK
  <2>2. taken' = taken + 1
    BY <1>5 DEF WriteEvent
  <2>3. Carried' = Carried \cup {taken + 1}
    <3>1. \A i \in 1 .. Len(lines') :
            \/ i \in 1 .. Len(lines) /\ lines'[i] = lines[i]
            \/ lines'[i] = e
      BY <1>1, <2>1
    <3>2. /\ 1 .. Len(lines) \subseteq 1 .. Len(lines')
          /\ Len(lines) + 1 \in 1 .. Len(lines') /\ lines'[Len(lines) + 1] = e
      BY <1>1, <2>1
    <3>3. Carried' = {lines'[i].eid : i \in 1 .. Len(lines')}
      BY DEF Carried
    <3>4. ASSUME NEW x \in Carried' PROVE x \in Carried \cup {taken + 1}
      BY <2>1, <3>1, <3>3 DEF Carried
    <3>5. ASSUME NEW x \in Carried PROVE x \in Carried'
      BY <2>1, <3>2, <3>3 DEF Carried
    <3>6. taken + 1 \in Carried'
      BY <2>1, <3>2, <3>3
    <3>7. QED
      BY <3>4, <3>5, <3>6
  <2>4. \A k \in 1 .. Len(events) :
          (k <= taken + 1 => k \in Carried \cup {taken + 1}) <=> (k <= taken => k \in Carried)
    BY <1>1, <1>3
  <2>5. Pending' = Pending
    BY <1>1, <1>2, <2>2, <2>3, <2>4, PendingIs
  <2>6. QED
    BY <1>2, <2>5
<1>6. CASE Transpose
  <2>1. /\ Len(lines') = Len(lines) /\ position \in 1 .. Len(lines)
        /\ position + 1 \in 1 .. Len(lines)
        /\ lines'[position] = lines[position + 1] /\ lines'[position + 1] = lines[position]
        /\ \A i \in 1 .. Len(lines) \ {position, position + 1} : lines'[i] = lines[i]
        /\ taken' = taken
    BY <1>6, SwappedLines DEF FeedTypeOK, Transpose
  <2>2. Carried' = Carried
    <3>1. Carried' = {lines'[i].eid : i \in 1 .. Len(lines)}
      BY <2>1 DEF Carried
    <3>2. \A i \in 1 .. Len(lines) : \E j \in 1 .. Len(lines) : lines'[i] = lines[j]
      BY <2>1
    <3>3. \A i \in 1 .. Len(lines) : \E j \in 1 .. Len(lines) : lines[i] = lines'[j]
      BY <2>1
    <3>4. ASSUME NEW x \in Carried' PROVE x \in Carried
      <4>1. PICK i \in 1 .. Len(lines) : x = lines'[i].eid
        BY <3>1
      <4>2. PICK j \in 1 .. Len(lines) : lines'[i] = lines[j]
        BY <3>2
      <4>3. QED
        BY <4>1, <4>2 DEF Carried
    <3>5. ASSUME NEW x \in Carried PROVE x \in Carried'
      <4>1. PICK i \in 1 .. Len(lines) : x = lines[i].eid
        BY DEF Carried
      <4>2. PICK j \in 1 .. Len(lines) : lines[i] = lines'[j]
        BY <3>3
      <4>3. QED
        BY <3>1, <4>1, <4>2
    <3>6. QED
      BY <3>4, <3>5
  <2>3. QED
    BY <1>1, <1>2, <2>1, <2>2, PendingIs
<1>7. CASE StartSecondPass \/ LeaveInPlace
  <2>1. lines' = lines /\ taken' = taken /\ Carried' = Carried
    BY <1>7 DEF StartSecondPass, LeaveInPlace, Carried
  <2>2. QED
    BY <1>1, <1>2, <2>1, PendingIs
<1>8. QED
  BY <1>4, <1>5, <1>6, <1>7 DEF Damage, DefectsNext

(***************************************************************************)
(* The event accepted next is the oldest that is neither lost nor applied. *)
(***************************************************************************)
LEMMA AcceptedIsNext ==
  ASSUME FeedTypeOK, LineOrder, BufferInv, JudgeInv, Apply,
         Judge!Accept(out[applied + 1].event)
  PROVE  /\ out[applied + 1].event.eid \in Pending
         /\ \A m \in Pending : out[applied + 1].event.eid <= m
<1> DEFINE x == out[applied + 1].event.eid
<1>1. applied + 1 \in 1 .. Len(out) /\ applied \in Nat /\ Len(out) \in Nat
  BY ApplyIsStep DEF FeedTypeOK, Buffer!TypeOK
<1>2. \A i \in 1 .. Len(out) : out[i] \in Buffer!Released
  BY DEF FeedTypeOK, Buffer!TypeOK, Buffer!Released
<1>3. /\ out[applied + 1].line \in 1 .. fed /\ out[applied + 1].line \in 1 .. Len(lines)
      /\ out[applied + 1].event = lines[out[applied + 1].line]
  BY <1>1, <1>2, Nodes
<1>4. fed \in 0 .. Len(lines) /\ Len(lines) \in Nat /\ fed > 0
  BY <1>3 DEF BufferInv, FeedTypeOK, TapeOK
<1>5. taken = Len(events) /\ Len(events) \in Nat
  <2>1. events \in Seq(ToSet(events))
    BY DEF FeedTypeOK, TapeOK
  <2>2. QED
    BY <1>4, <2>1 DEF BufferInv, TapeWritten, FeedTypeOK, TapeOK
<1>6. x \in Carried
  BY <1>3 DEF Carried
<1>7. x \notin Applied /\ x \in Nat
  BY AcceptedIsYounger DEF Applied
<1>8. x \in Pending
  BY <1>5, <1>6, <1>7, PendingIs DEF Carried, LineOrder, NumberOrder
<1>9. ASSUME NEW m \in Pending PROVE x <= m
  <2>1. m \in Carried /\ m \notin Applied
    BY <1>5, PendingIs
  <2>2. PICK l \in 1 .. Len(lines) : lines[l].eid = m
    BY <2>1 DEF Carried
  <2>3. CASE l \in fed + 1 .. Len(lines)
    BY <1>1, <2>2, <2>3 DEF BufferInv
  <2>4. CASE l \in 1 .. fed
    <3>1. PICK n \in heap \cup Buffer!Released : n.line = l
      BY <2>4 DEF BufferInv, Buffer!LineInv, Buffer!EachLineOnce
    <3>2. n.event.eid = m
      BY <2>2, <3>1 DEF BufferInv
    <3>3. CASE n \in heap
      BY <1>1, <3>2, <3>3 DEF BufferInv
    <3>4. CASE n \in Buffer!Released
      <4>1. PICK j \in 1 .. Len(out) : n = out[j]
        BY <3>4 DEF FeedTypeOK, Buffer!TypeOK, Buffer!Released
      <4>2. CASE j \in 1 .. applied
        <5>1. PICK k \in Admitted : admitted[k].eid = out[j].event.eid
          BY <4>2 DEF JudgeInv
        <5>2. m \in Applied
          BY <3>2, <4>1, <5>1 DEF Applied
        <5>3. QED
          BY <2>1, <5>2
      <4>3. CASE applied + 1 <= j
        BY <1>1, <3>2, <4>1, <4>3 DEF BufferInv
      <4>4. QED
        BY <1>1, <4>1, <4>2, <4>3
    <3>5. QED
      BY <3>1, <3>3, <3>4
  <2>5. QED
    BY <1>4, <2>2, <2>3, <2>4
<1>10. QED
  BY <1>8, <1>9

LEMMA AcceptDelivers ==
  ASSUME FeedTypeOK, LineOrder, BufferInv, JudgeInv, Apply,
         Judge!Accept(out[applied + 1].event)
  PROVE  /\ Delivered' = Append(Delivered, out[applied + 1].event.eid)
         /\ Pending' = Pending \ {out[applied + 1].event.eid}
<1> DEFINE e == out[applied + 1].event
           N == Len(admitted)
<1>1. e \in Line /\ UNCHANGED defectVars
  BY ApplyIsStep, StepsApart
<1>2. /\ N \in Nat /\ Len(admitted') = N + 1 /\ admitted'[N + 1] = e
      /\ \A i \in 1 .. N : admitted'[i] = admitted[i]
  BY <1>1, StageAssumptions, Judge!AcceptAppends DEF FeedTypeOK
<1> HIDE DEF e
<1>3. /\ Delivered = [i \in 1 .. N |-> admitted[i].eid]
      /\ Delivered' = [i \in 1 .. N + 1 |-> admitted'[i].eid]
  BY <1>2 DEF Delivered, Admitted
<1>4. Delivered' = Append(Delivered, e.eid)
  <2> HIDE DEF N
  <2>1. Append(Delivered, e.eid) = [i \in 1 .. N + 1 |-> IF i = N + 1 THEN e.eid
                                                         ELSE admitted[i].eid]
    BY <1>2, <1>3
  <2>2. \A i \in 1 .. N + 1 : admitted'[i].eid = IF i = N + 1 THEN e.eid ELSE admitted[i].eid
    BY <1>2
  <2>3. QED
    BY <1>3, <2>1, <2>2
<1>5. Applied' = Applied \cup {e.eid}
  <2>1. Applied = {admitted[i].eid : i \in 1 .. N} /\ Applied' = {admitted'[i].eid : i \in 1 .. N + 1}
    BY <1>2 DEF Applied, Admitted
  <2> HIDE DEF N
  <2>2. \A i \in 1 .. N + 1 : i \in 1 .. N \/ i = N + 1
    BY <1>2
  <2>3. 1 .. N \subseteq 1 .. N + 1 /\ N + 1 \in 1 .. N + 1
    BY <1>2
  <2>4. QED
    BY <1>2, <2>1, <2>2, <2>3
<1>6. Carried' = Carried /\ taken' = taken /\ events' = events
  BY <1>1 DEF defectVars, Carried
<1>7. Pending' = Pending \ {e.eid}
  BY <1>5, <1>6, PendingIs
<1>8. QED
  BY <1>4, <1>7 DEF e

(***************************************************************************)
(* The two stages keep their promise: every step of the composition loses  *)
(* an event, applies the oldest one still pending, or stutters.            *)
(***************************************************************************)
LEMMA StepKeepsPromise ==
  ASSUME FeedTypeOK, LineOrder, BufferInv, JudgeInv, [FeedNext]_feedVars
  PROVE  [Promise!Lose \/ Promise!Deliver]_(Promise!promiseVars)
<1>1. ASSUME Pending' = Pending, Delivered' = Delivered PROVE UNCHANGED Promise!promiseVars
  BY <1>1 DEF Promise!promiseVars, Delivered
<1>2. CASE Damage
  <2>1. Delivered' = Delivered
    BY <1>2, DamageLoses
  <2>2. CASE Pending' = Pending
    BY <1>1, <2>1, <2>2
  <2>3. CASE \E k \in Pending : Pending' = Pending \ {k}
    BY <2>1, <2>3 DEF Promise!Lose, Delivered
  <2>4. QED
    BY <1>2, <2>2, <2>3, DamageLoses
<1>3. ASSUME UNCHANGED defectVars, admitted' = admitted PROVE UNCHANGED Promise!promiseVars
  <2>1. Delivered' = Delivered /\ Applied' = Applied
    BY <1>3, DeliveredUnchanged
  <2>2. Carried' = Carried /\ taken' = taken /\ events' = events
    BY <1>3 DEF defectVars, Carried
  <2>3. QED
    BY <1>1, <2>1, <2>2, PendingIs
<1>4. CASE Push \/ Drain \/ EndOfTape \/ Flush \/ UNCHANGED feedVars
  BY <1>3, <1>4, StepsApart DEF Judge!guardVars
<1>5. CASE Apply
  <2> DEFINE e == out[applied + 1].event
  <2>1. CASE Judge!Drop(e)
    BY <1>3, <1>5, <2>1, StepsApart DEF Judge!Drop
  <2>2. CASE Judge!Accept(e)
    <3>1. e.eid \in Pending /\ \A m \in Pending : e.eid <= m
      BY <1>5, <2>2, AcceptedIsNext
    <3>2. Delivered' = Append(Delivered, e.eid) /\ Pending' = Pending \ {e.eid}
      BY <1>5, <2>2, AcceptDelivers
    <3> HIDE DEF e
    <3>3. QED
      BY <3>1, <3>2 DEF Promise!Deliver, Delivered
  <2>3. QED
    BY <1>5, <2>1, <2>2, ApplyIsStep
<1>6. QED
  BY <1>2, <1>4, <1>5 DEF FeedNext

(***************************************************************************)
(* Refinement: while timestamps are right, for every tape, every capacity  *)
(* of the buffer and every size of the guard's memory, the composition     *)
(* applies the surviving events in the venue's order and once each.        *)
(***************************************************************************)
THEOREM AppliesSurvivorsInOrderCorrect ==
  ASSUME ClocksAgree PROVE FeedSpec => AppliesSurvivorsInOrder
<1>1. FeedInit => Promise!PromiseInit
  BY StagesInitially DEF Judge!GuardInit, Promise!PromiseInit, Admitted
<1>2. FeedTypeOK /\ LineOrder /\ BufferInv /\ JudgeInv /\ [FeedNext]_feedVars
        => [Promise!Lose \/ Promise!Deliver]_(Promise!promiseVars)
  BY StepKeepsPromise
<1>3. QED
  BY <1>1, <1>2, FeedTypeCorrect, FeedOrderCorrect, FeedJudgeCorrect, PTL
     DEF FeedSpec, AppliesSurvivorsInOrder, Promise!PromiseSpec
=============================================================================
