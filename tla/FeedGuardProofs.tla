--------------------------- MODULE FeedGuardProofs ---------------------------
(***************************************************************************)
(* TLAPS proofs about the feed guard, for every set of events, every size  *)
(* of the id memory and streams of any length.                             *)
(*                                                                         *)
(* The memory invariant says the queue holds the ids of the latest events  *)
(* admitted; it is inductive only together with the absence of duplicates  *)
(* inside the horizon, for otherwise evicting the oldest id could forget a *)
(* younger event with the same id.                                         *)
(***************************************************************************)
EXTENDS FeedGuard, SequenceTheorems, TLAPS

USE GuardEventAssumption, DegradeAssumption, DedupAssumption DEF NoTs

(***************************************************************************)
(* What accepting an event does to each counter of FeedStats.              *)
(***************************************************************************)
LEMMA AcceptStats ==
  ASSUME NEW e \in Event, Accept(e)
  PROVE  /\ stats'.events_admitted = stats.events_admitted + 1
         /\ stats'.duplicate_event_ids = stats.duplicate_event_ids
         /\ stats'.sequence_gaps = stats.sequence_gaps + (IF IsGap(e) THEN 1 ELSE 0)
         /\ stats'.sequence_missing =
              stats.sequence_missing + (IF IsGap(e) THEN e.seq - last_seq - 1 ELSE 0)
         /\ stats'.sequence_backward =
              stats.sequence_backward + (IF IsBackward(e) THEN 1 ELSE 0)
         /\ stats'.degraded_events =
              stats.degraded_events + (IF e.ts < degraded_until' THEN 1 ELSE 0)
BY DEF Accept

\* A step of the guard, whatever stream it is shown.
GuardStep == (\E e \in Event : Admit(e)) \/ UNCHANGED guardVars

LEMMA NextIsGuardStep == [GuardNext]_guardVars => GuardStep
BY DEF GuardNext, GuardStep

LEMMA GuardTypeKept ==
  ASSUME GuardTypeOK, GuardStep
  PROVE  GuardTypeOK'
<1> DEFINE Eid == {e.eid : e \in Event}
<1>1. ASSUME NEW e \in Event PROVE Taint(e.ts) \in Nat
  BY DEF Taint, GuardTypeOK
<1>2. ASSUME NEW e \in Event, Drop(e) PROVE GuardTypeOK'
  <2>1. stats' \in Stats
    <3>1. stats \in Stats /\ stats.duplicate_event_ids + 1 \in Nat
      BY DEF GuardTypeOK, Stats
    <3>2. stats' = [stats EXCEPT !.duplicate_event_ids = stats.duplicate_event_ids + 1]
      BY <1>2 DEF Drop
    <3>3. QED
      BY <3>1, <3>2 DEF Stats
  <2>2. QED
    BY <1>1, <1>2, <2>1 DEF GuardTypeOK, Drop
<1>3. ASSUME NEW e \in Event, Accept(e) PROVE GuardTypeOK'
  <2>1. e.eid \in Eid /\ e.ts \in Nat /\ e.seq \in Nat
    OBVIOUS
  <2>2. seen_order' \in Seq(Eid) /\ seen' \in SUBSET Eid
    <3> DEFINE longer == Append(seen_order, e.eid)
    <3>1. longer \in Seq(Eid) /\ longer # <<>>
      BY <2>1 DEF GuardTypeOK
    <3>2. Tail(longer) \in Seq(Eid)
      BY <3>1
    <3>3. QED
      BY <1>3, <2>1, <3>1, <3>2 DEF Accept, Remember, GuardTypeOK
  <2>3. degraded_until' \in Nat \cup {NoTs}
    BY <1>1, <1>3 DEF Accept, GuardTypeOK
  <2>4. stats' \in Stats
    <3> DEFINE gap == IF IsGap(e) THEN 1 ELSE 0
               missing == IF IsGap(e) THEN e.seq - last_seq - 1 ELSE 0
               back == IF IsBackward(e) THEN 1 ELSE 0
               held == IF e.ts < degraded_until' THEN 1 ELSE 0
    <3>1. /\ stats.sequence_gaps \in Nat /\ stats.sequence_missing \in Nat
          /\ stats.sequence_backward \in Nat /\ stats.events_admitted \in Nat
          /\ stats.degraded_events \in Nat /\ stats.duplicate_event_ids \in Nat
      BY DEF GuardTypeOK, Stats
    <3>2. IsGap(e) => e.seq - last_seq - 1 \in Nat
      BY <2>1 DEF IsGap, GuardTypeOK
    <3>3. gap \in Nat /\ missing \in Nat /\ back \in Nat /\ held \in Nat
      BY <3>2
    <3>4. stats' = [events_admitted |-> stats.events_admitted + 1,
                    duplicate_event_ids |-> stats.duplicate_event_ids,
                    sequence_gaps |-> stats.sequence_gaps + gap,
                    sequence_missing |-> stats.sequence_missing + missing,
                    sequence_backward |-> stats.sequence_backward + back,
                    degraded_events |-> stats.degraded_events + held]
      BY <1>3 DEF Accept
    <3> HIDE DEF gap, missing, back, held
    <3>5. QED
      BY <3>1, <3>3, <3>4 DEF Stats
  <2>5. admitted' \in Seq(Event)
    BY <1>3 DEF Accept, GuardTypeOK
  <2>6. QED
    BY <1>3, <2>1, <2>2, <2>3, <2>4, <2>5 DEF Accept, GuardTypeOK
<1>4. CASE UNCHANGED guardVars
  BY <1>4 DEF guardVars, GuardTypeOK
<1>5. QED
  BY <1>2, <1>3, <1>4 DEF GuardStep, Admit

(***************************************************************************)
(* Type correctness of the guard.                                          *)
(***************************************************************************)
THEOREM GuardTypeCorrect == GuardSpec => []GuardTypeOK
<1> DEFINE Eid == {e.eid : e \in Event}
<1>1. GuardInit => GuardTypeOK
  <2> SUFFICES ASSUME GuardInit PROVE GuardTypeOK
    OBVIOUS
  <2>1. seen_order \in Seq(Eid) /\ admitted \in Seq(Event)
    BY DEF GuardInit
  <2>2. stats \in Stats
    BY DEF GuardInit, Stats
  <2>3. QED
    BY <2>1, <2>2 DEF GuardInit, GuardTypeOK
<1>2. GuardTypeOK /\ [GuardNext]_guardVars => GuardTypeOK'
  BY NextIsGuardStep, GuardTypeKept
<1>3. QED
  BY <1>1, <1>2, PTL DEF GuardSpec

-----------------------------------------------------------------------------
(***************************************************************************)
(* Accepting an event extends the history by one place at its end.         *)
(***************************************************************************)
LEMMA AcceptAppends ==
  ASSUME GuardTypeOK, NEW e \in Event, Accept(e)
  PROVE  /\ Len(admitted) \in Nat /\ Len(admitted') = Len(admitted) + 1
         /\ admitted'[Len(admitted) + 1] = e
         /\ \A i \in 1 .. Len(admitted) : admitted'[i] = admitted[i]
  BY DEF Accept, GuardTypeOK

(***************************************************************************)
(* An event whose id is not remembered repeats no event of the horizon.    *)
(***************************************************************************)
LEMMA AcceptedIsFresh ==
  ASSUME GuardTypeOK, RemembersTheLatest, NEW e \in Event, Accept(e),
         NEW i \in 1 .. Len(admitted), admitted[i].eid = e.eid
  PROVE  Len(admitted) + 1 - i > DedupCapacity
<1> DEFINE n == Len(seen_order)
           d == Len(admitted) - n
<1>1. n \in Nat /\ Len(admitted) \in Nat /\ i \in Nat
  BY DEF GuardTypeOK
<1>2. SUFFICES ASSUME Len(admitted) + 1 - i <= DedupCapacity PROVE FALSE
  BY <1>1
<1>3. i - d \in 1 .. n
  BY <1>1, <1>2 DEF RemembersTheLatest
<1>4. seen_order[i - d] = admitted[d + (i - d)].eid
  BY <1>3 DEF RemembersTheLatest
<1>5. d + (i - d) = i
  BY <1>1
<1>6. e.eid \in seen
  BY <1>3, <1>4, <1>5 DEF RemembersTheLatest
<1>7. QED
  BY <1>6 DEF Accept, IsDuplicate

MemoryInv == RemembersTheLatest /\ NoDuplicateInHorizon

LEMMA AcceptKeepsMemory ==
  ASSUME GuardTypeOK, MemoryInv, NEW e \in Event, Accept(e)
  PROVE  MemoryInv'
<1> DEFINE N == Len(admitted)
           n == Len(seen_order)
           d == N - n
           longer == Append(seen_order, e.eid)
<1>1. /\ N \in Nat /\ n \in Nat /\ DedupCapacity \in Nat \ {0} /\ d \in Nat
      /\ n = IF N < DedupCapacity THEN N ELSE DedupCapacity
  BY DEF GuardTypeOK, MemoryInv, RemembersTheLatest
<1>2. NoDuplicateInHorizon'
  <2> SUFFICES ASSUME NEW i \in 1 .. Len(admitted'), NEW j \in 1 .. Len(admitted'),
                      i < j, admitted'[i].eid = admitted'[j].eid
               PROVE  j - i > DedupCapacity
    BY DEF NoDuplicateInHorizon
  <2>1. i \in 1 .. N /\ admitted'[i] = admitted[i]
    BY <1>1, AcceptAppends
  <2>2. CASE j = N + 1
    BY <2>1, <2>2, AcceptAppends, AcceptedIsFresh DEF MemoryInv
  <2>3. CASE j \in 1 .. N
    BY <2>1, <2>3, AcceptAppends DEF MemoryInv, NoDuplicateInHorizon
  <2>4. QED
    BY <1>1, <2>2, <2>3, AcceptAppends
<1>3. /\ longer \in Seq({x.eid : x \in Event}) /\ Len(longer) = n + 1
      /\ longer[n + 1] = e.eid /\ \A k \in 1 .. n : longer[k] = seen_order[k]
  BY DEF GuardTypeOK
<1>4. \A k \in 1 .. n : seen_order[k] = admitted[d + k].eid
  BY DEF MemoryInv, RemembersTheLatest
<1>5. seen = {seen_order[k] : k \in 1 .. n}
  BY DEF MemoryInv, RemembersTheLatest
<1>6. CASE Len(longer) > DedupCapacity
  <2>1. n = DedupCapacity /\ n \in Nat \ {0} /\ N >= DedupCapacity
    BY <1>1, <1>3, <1>6
  <2>2. seen_order' = Tail(longer) /\ seen' = (seen \cup {e.eid}) \ {longer[1]}
    BY <1>3, <1>6 DEF Accept, Remember
  <2>3. Len(seen_order') = n /\ \A k \in 1 .. n : seen_order'[k] = longer[k + 1]
    BY <1>1, <1>3, <2>1, <2>2, HeadTailProperties
  <2>4. \A k \in 1 .. n : seen_order'[k] = admitted'[d + 1 + k].eid
    <3> SUFFICES ASSUME NEW k \in 1 .. n
                 PROVE  seen_order'[k] = admitted'[d + 1 + k].eid
      OBVIOUS
    <3>1. CASE k = n
      <4>1. seen_order'[k] = e.eid
        BY <1>3, <2>3, <3>1
      <4>2. d + 1 + k = N + 1
        BY <1>1, <3>1
      <4>3. QED
        BY <4>1, <4>2, AcceptAppends
    <3>2. CASE k + 1 \in 1 .. n
      <4>1. seen_order'[k] = admitted[d + (k + 1)].eid
        BY <1>3, <1>4, <2>3, <3>2
      <4>2. d + (k + 1) \in 1 .. N /\ d + (k + 1) = d + 1 + k
        BY <1>1, <3>2
      <4>3. admitted'[d + (k + 1)] = admitted[d + (k + 1)]
        BY <4>2, AcceptAppends
      <4>4. admitted'[d + (k + 1)] = admitted'[d + 1 + k]
        BY <4>2
      <4>5. QED
        BY <4>1, <4>3, <4>4
    <3>3. k = n \/ k + 1 \in 1 .. n
      <4> HIDE DEF n
      <4>1. QED
        BY <1>1
    <3>4. QED
      BY <3>1, <3>2, <3>3
  <2>5. seen' = {seen_order'[k] : k \in 1 .. n}
    <3>0. N \in Nat /\ n \in Nat /\ d \in Nat /\ d + n = N /\ 1 \in 1 .. n
      BY <1>1, <2>1
    <3>1. longer[1] = admitted[d + 1].eid /\ d + 1 \in 1 .. N
      <4>1. longer[1] = seen_order[1] /\ seen_order[1] = admitted[d + 1].eid
        BY <1>3, <1>4, <3>0
      <4> HIDE DEF N, n, d, longer
      <4>2. d + 1 \in 1 .. N
        BY <3>0
      <4>3. QED
        BY <4>1, <4>2
    <3>2. e.eid # longer[1]
      <4>1. longer[1] \in seen
        BY <1>3, <1>5, <2>1
      <4>2. QED
        BY <4>1 DEF Accept, IsDuplicate
    <3>3. ASSUME NEW k \in 1 .. n, k # 1 PROVE seen_order[k] # longer[1]
      <4>1. /\ d + k \in 1 .. N /\ d + 1 < d + k
            /\ ~(d + k - (d + 1) > DedupCapacity)
        <5> HIDE DEF N, n, d, longer
        <5>1. QED
          BY <1>1, <2>1, <3>0, <3>3
      <4>2. admitted[d + k].eid # admitted[d + 1].eid
        BY <3>1, <4>1 DEF MemoryInv, NoDuplicateInHorizon
      <4>3. QED
        BY <1>4, <3>1, <4>2
    <3>4. ASSUME NEW x \in seen' PROVE \E k \in 1 .. n : seen_order'[k] = x
      <4>1. CASE x = e.eid
        BY <1>3, <2>1, <2>3, <4>1
      <4>2. CASE x \in seen /\ x # longer[1]
        <5>1. PICK k \in 1 .. n : x = seen_order[k]
          BY <1>5, <4>2
        <5>2. k # 1
          BY <1>3, <2>1, <4>2, <5>1
        <5>3. k - 1 \in 1 .. n /\ (k - 1) + 1 = k
          BY <1>1, <5>2
        <5>4. QED
          BY <1>3, <2>3, <5>1, <5>3
      <4>3. QED
        BY <2>2, <4>1, <4>2
    <3>5. ASSUME NEW k \in 1 .. n PROVE seen_order'[k] \in seen'
      <4>1. CASE k = n
        BY <1>3, <2>2, <2>3, <3>2, <4>1
      <4>2. CASE k + 1 \in 1 .. n
        <5>1. seen_order'[k] = seen_order[k + 1] /\ seen_order[k + 1] \in seen
          BY <1>3, <1>5, <2>3, <4>2
        <5>2. seen_order[k + 1] # longer[1]
          BY <1>1, <3>3, <4>2
        <5>3. QED
          BY <2>2, <5>1, <5>2
      <4>3. QED
        BY <1>1, <4>1, <4>2
    <3>6. QED
      BY <3>4, <3>5
  <2>6. RemembersTheLatest'
    <3>1. Len(seen_order') = n /\ Len(admitted') = N + 1 /\ N + 1 - n = d + 1
      BY <1>1, <2>3, AcceptAppends
    <3>2. n = IF N + 1 < DedupCapacity THEN N + 1 ELSE DedupCapacity
      BY <1>1, <2>1
    <3>3. Len(seen_order') = IF Len(admitted') < DedupCapacity
                             THEN Len(admitted') ELSE DedupCapacity
      BY <3>1, <3>2
    <3>4. Len(admitted') - Len(seen_order') = d + 1
      BY <3>1
    <3> HIDE DEF N, n, d
    <3>5. \A k \in 1 .. Len(seen_order') :
            seen_order'[k] = admitted'[(Len(admitted') - Len(seen_order')) + k].eid
      BY <2>4, <3>1, <3>4
    <3>6. seen' = {seen_order'[k] : k \in 1 .. Len(seen_order')}
      BY <2>5, <3>1
    <3>7. QED
      BY <3>3, <3>5, <3>6 DEF RemembersTheLatest
  <2>7. QED
    BY <1>2, <2>6 DEF MemoryInv
<1>7. CASE ~(Len(longer) > DedupCapacity)
  <2>1. n = N /\ d = 0 /\ N < DedupCapacity
    BY <1>1, <1>3, <1>7
  <2>2. seen_order' = longer /\ seen' = seen \cup {e.eid}
    BY <1>7 DEF Accept, Remember
  <2>3. \A k \in 1 .. N + 1 : seen_order'[k] = admitted'[k].eid
    <3> SUFFICES ASSUME NEW k \in 1 .. N + 1
                 PROVE  seen_order'[k] = admitted'[k].eid
      OBVIOUS
    <3>1. CASE k = N + 1
      BY <1>3, <2>1, <2>2, <3>1, AcceptAppends
    <3>2. CASE k \in 1 .. N
      BY <1>3, <1>4, <2>1, <2>2, <3>2, AcceptAppends
    <3>3. QED
      BY <1>1, <3>1, <3>2
  <2>4. seen' = {seen_order'[k] : k \in 1 .. N + 1}
    <3>1. 1 .. N + 1 = (1 .. n) \cup {n + 1}
      BY <1>1, <2>1
    <3>2. QED
      BY <1>3, <1>5, <2>2, <3>1
  <2>5. Len(seen_order') = N + 1 /\ Len(admitted') = N + 1
    BY <1>3, <2>1, <2>2, AcceptAppends
  <2>6. RemembersTheLatest'
    <3>1. /\ Len(seen_order') = IF Len(admitted') < DedupCapacity
                                 THEN Len(admitted') ELSE DedupCapacity
          /\ Len(admitted') - Len(seen_order') = 0
      BY <1>1, <2>1, <2>5
    <3>2. \A k \in 1 .. Len(seen_order') : seen_order'[k] = admitted'[0 + k].eid
      BY <1>1, <2>3, <2>5
    <3>3. QED
      BY <2>4, <2>5, <3>1, <3>2 DEF RemembersTheLatest
  <2>7. QED
    BY <1>2, <2>6 DEF MemoryInv
<1>8. QED
  BY <1>6, <1>7

LEMMA MemoryKept ==
  ASSUME GuardTypeOK, MemoryInv, GuardStep
  PROVE  MemoryInv'
<1>1. ASSUME NEW e \in Event, Drop(e) PROVE MemoryInv'
  BY <1>1 DEF Drop, MemoryInv, RemembersTheLatest, NoDuplicateInHorizon
<1>2. CASE UNCHANGED guardVars
  BY <1>2 DEF guardVars, MemoryInv, RemembersTheLatest, NoDuplicateInHorizon
<1>3. QED
  BY <1>1, <1>2, AcceptKeepsMemory DEF GuardStep, Admit

LEMMA MemoryCorrect == GuardSpec => []MemoryInv
<1>1. GuardInit => MemoryInv
  BY DEF GuardInit, MemoryInv, RemembersTheLatest, NoDuplicateInHorizon
<1>2. GuardTypeOK /\ MemoryInv /\ [GuardNext]_guardVars => MemoryInv'
  BY NextIsGuardStep, MemoryKept
<1>3. QED
  BY <1>1, <1>2, GuardTypeCorrect, PTL DEF GuardSpec

(***************************************************************************)
(* The bounded memory of ids always holds the latest ids admitted.         *)
(***************************************************************************)
THEOREM RemembersTheLatestCorrect == GuardSpec => []RemembersTheLatest
<1>1. MemoryInv => RemembersTheLatest
  BY DEF MemoryInv
<1>2. QED
  BY <1>1, MemoryCorrect, PTL

(***************************************************************************)
(* No event id is admitted twice within the dedup horizon.                 *)
(***************************************************************************)
THEOREM NoDuplicateCorrect == GuardSpec => []NoDuplicateInHorizon
<1>1. MemoryInv => NoDuplicateInHorizon
  BY DEF MemoryInv
<1>2. QED
  BY <1>1, MemoryCorrect, PTL

-----------------------------------------------------------------------------
\* SequenceAccounted, with what ties the guard's flags to the history.
AccountInv ==
  /\ have_last <=> Len(admitted) > 0
  /\ ~have_last => /\ stats.events_admitted = 0 /\ stats.sequence_backward = 0
                   /\ stats.sequence_missing = 0 /\ last_seq = 0
  /\ SequenceAccounted

LEMMA AccountKept ==
  ASSUME GuardTypeOK, AccountInv, GuardStep
  PROVE  AccountInv'
<1> DEFINE a == stats.events_admitted
           b == stats.sequence_backward
           m == stats.sequence_missing
<1>0. a \in Nat /\ b \in Nat /\ m \in Nat /\ last_seq \in Nat
  BY DEF GuardTypeOK, Stats
<1>1. ASSUME NEW e \in Event, Drop(e) PROVE AccountInv'
  <2>1. a' = a /\ b' = b /\ m' = m
    BY <1>1 DEF Drop, GuardTypeOK, Stats
  <2>2. QED
    BY <1>1, <2>1 DEF Drop, AccountInv, SequenceAccounted
<1>2. ASSUME NEW e \in Event, Accept(e) PROVE AccountInv'
  <2>1. /\ a' = a + 1
        /\ b' = b + (IF IsBackward(e) THEN 1 ELSE 0)
        /\ m' = m + (IF IsGap(e) THEN e.seq - last_seq - 1 ELSE 0)
    BY <1>2, AcceptStats
  <2>2. have_last' /\ Len(admitted') > 0 /\ e.seq \in Nat
        /\ last_seq' = IF e.seq >= last_seq THEN e.seq ELSE last_seq
    BY <1>2, AcceptAppends DEF Accept
  <2>3. CASE have_last
    <3>1. admitted'[1] = admitted[1] /\ admitted[1].seq \in Nat
      BY <1>2, <2>3, AcceptAppends DEF AccountInv, GuardTypeOK
    <3>2. a' - b' + m' = last_seq' - admitted[1].seq + 1
      <4> DEFINE f == admitted[1].seq
                 A == a'
                 B == b'
                 M == m'
                 L == last_seq'
      <4>1. a - b + m = last_seq - f + 1
        BY <2>3 DEF AccountInv, SequenceAccounted
      <4>2. f \in Nat /\ e.seq \in Nat
        BY <2>2, <3>1
      <4>3. CASE e.seq > last_seq + 1
        <5>1. A = a + 1 /\ B = b /\ M = m + (e.seq - last_seq - 1) /\ L = e.seq
          BY <1>0, <2>1, <2>2, <2>3, <4>2, <4>3 DEF IsGap, IsBackward
        <5> HIDE DEF a, b, m, f, A, B, M, L
        <5>2. A - B + M = L - f + 1
          BY <1>0, <4>1, <4>2, <5>1
        <5>3. QED
          BY <5>2 DEF A, B, M, L, f
      <4>4. CASE e.seq = last_seq + 1
        <5>1. A = a + 1 /\ B = b /\ M = m /\ L = e.seq
          BY <1>0, <2>1, <2>2, <2>3, <4>2, <4>4 DEF IsGap, IsBackward
        <5> HIDE DEF a, b, m, f, A, B, M, L
        <5>2. A - B + M = L - f + 1
          BY <1>0, <4>1, <4>2, <4>4, <5>1
        <5>3. QED
          BY <5>2 DEF A, B, M, L, f
      <4>5. CASE e.seq <= last_seq
        <5>1. A = a + 1 /\ B = b + 1 /\ M = m /\ L = last_seq
          BY <1>0, <2>1, <2>2, <2>3, <4>2, <4>5 DEF IsGap, IsBackward
        <5> HIDE DEF a, b, m, f, A, B, M, L
        <5>2. A - B + M = L - f + 1
          BY <1>0, <4>1, <4>2, <5>1
        <5>3. QED
          BY <5>2 DEF A, B, M, L, f
      <4>6. QED
        BY <1>0, <4>2, <4>3, <4>4, <4>5
    <3>3. QED
      BY <2>2, <3>1, <3>2 DEF AccountInv, SequenceAccounted
  <2>4. CASE ~have_last
    <3>1. admitted'[1] = e
      BY <1>2, <2>4, AcceptAppends DEF AccountInv
    <3>2. a' = 1 /\ b' = 0 /\ m' = 0 /\ last_seq' = e.seq
      <4>1. a = 0 /\ b = 0 /\ m = 0 /\ last_seq = 0
        BY <2>4 DEF AccountInv
      <4>2. ~IsGap(e) /\ ~IsBackward(e)
        BY <2>4 DEF IsGap, IsBackward
      <4>3. QED
        BY <2>1, <2>2, <4>1, <4>2
    <3>3. QED
      BY <2>2, <3>1, <3>2 DEF AccountInv, SequenceAccounted
  <2>5. QED
    BY <2>3, <2>4
<1>3. CASE UNCHANGED guardVars
  BY <1>3 DEF guardVars, AccountInv, SequenceAccounted
<1>4. QED
  BY <1>1, <1>2, <1>3 DEF GuardStep, Admit

(***************************************************************************)
(* Admitted in sequence plus missing spans the sequence numbers from the   *)
(* first event to the highest, whatever the feed does.                     *)
(***************************************************************************)
THEOREM SequenceAccountedCorrect == GuardSpec => []SequenceAccounted
<1>1. GuardInit => AccountInv
  BY DEF GuardInit, AccountInv, SequenceAccounted, Stats
<1>2. GuardTypeOK /\ AccountInv /\ [GuardNext]_guardVars => AccountInv'
  BY NextIsGuardStep, AccountKept
<1>3. AccountInv => SequenceAccounted
  BY DEF AccountInv
<1>4. QED
  BY <1>1, <1>2, <1>3, GuardTypeCorrect, PTL DEF GuardSpec

-----------------------------------------------------------------------------
\* The mark is the latest anomaly plus the hold.
MarkInv ==
  /\ \A a \in anomalies : a + DegradeNs <= degraded_until
  /\ degraded_until # NoTs => \E a \in anomalies : degraded_until = a + DegradeNs

(***************************************************************************)
(* An event is counted as degraded exactly inside the hold of an anomaly.  *)
(***************************************************************************)
THEOREM DegradedCorrect == GuardSpec => DegradedExactly
<1>1. GuardInit => MarkInv
  BY DEF GuardInit, MarkInv
<1>2. ASSUME GuardTypeOK, MarkInv, NEW t \in Nat,
             degraded_until' = Taint(t), anomalies' = anomalies \cup {t}
      PROVE  MarkInv'
  BY <1>2 DEF MarkInv, Taint, GuardTypeOK
<1>3. GuardTypeOK /\ MarkInv /\ [GuardNext]_guardVars => MarkInv'
  <2>1. ASSUME GuardTypeOK, MarkInv, NEW e \in Event, Drop(e) PROVE MarkInv'
    BY <1>2, <2>1 DEF Drop
  <2>2. ASSUME GuardTypeOK, MarkInv, NEW e \in Event, Accept(e) PROVE MarkInv'
    <3>1. CASE IsGap(e) \/ IsBackward(e)
      BY <1>2, <2>2, <3>1 DEF Accept
    <3>2. CASE ~(IsGap(e) \/ IsBackward(e))
      BY <2>2, <3>2 DEF Accept, MarkInv
    <3>3. QED
      BY <3>1, <3>2
  <2>3. ASSUME MarkInv, UNCHANGED guardVars PROVE MarkInv'
    BY <2>3 DEF guardVars, MarkInv
  <2>4. QED
    BY <2>1, <2>2, <2>3 DEF GuardNext, Admit
<1>4. GuardTypeOK /\ GuardTypeOK' /\ MarkInv' /\ [GuardNext]_guardVars
        => [stats'.events_admitted # stats.events_admitted =>
              ( stats'.degraded_events # stats.degraded_events
                  <=> \E a \in anomalies' : last_ts' < a + DegradeNs )]_guardVars
  <2> SUFFICES ASSUME GuardTypeOK, GuardTypeOK', MarkInv', GuardNext,
                      stats'.events_admitted # stats.events_admitted
               PROVE  stats'.degraded_events # stats.degraded_events
                        <=> \E a \in anomalies' : last_ts' < a + DegradeNs
    BY DEF guardVars
  <2>1. PICK e \in Event : Accept(e)
    <3>1. ASSUME NEW e \in Event, Drop(e) PROVE FALSE
      BY <3>1 DEF Drop, GuardTypeOK, Stats
    <3>2. QED
      BY <3>1 DEF GuardNext, Admit
  <2>2. stats'.degraded_events # stats.degraded_events <=> e.ts < degraded_until'
    <3>1. stats.degraded_events \in Nat
      BY DEF GuardTypeOK, Stats
    <3>2. QED
      BY <2>1, <3>1, AcceptStats
  <2>3. last_ts' = e.ts /\ e.ts \in Nat
    BY <2>1 DEF Accept
  <2>4. e.ts < degraded_until' <=> \E a \in anomalies' : e.ts < a + DegradeNs
    BY <2>3 DEF MarkInv, GuardTypeOK
  <2>5. QED
    BY <2>2, <2>3, <2>4
<1>5. QED
  BY <1>1, <1>3, <1>4, GuardTypeCorrect, PTL DEF GuardSpec, DegradedExactly
=============================================================================
