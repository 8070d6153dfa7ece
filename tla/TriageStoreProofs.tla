-------------------------- MODULE TriageStoreProofs --------------------------
(***************************************************************************)
(* TLAPS proofs about the triage store, for any pool of threads, any       *)
(* requests, any detection runs and any statements that may fail.          *)
(*                                                                         *)
(* The argument: a transaction is open only while a thread is inside       *)
(* create_case, holding the mutex all along, or after a COMMIT failed      *)
(* (MutexInv).  Outside create_case a statement therefore writes the       *)
(* database itself or is adrift from the start, and no step of any process *)
(* takes back what is committed (Covers).  So what an analyst is told was  *)
(* committed when it was written, or is adrift until it is committed.      *)
(***************************************************************************)
EXTENDS TriageStore, FiniteSetTheorems, TLAPS

USE RequestAssumption, ThreadAssumption DEF NoThread, NoTx, Free

-----------------------------------------------------------------------------
\* What the columns of a case may hold.
CaseStatus == {"open"} \cup {r.status : r \in {q \in Request : q.kind = "update"}}
AlertSet == SUBSET Int

Case == [status : CaseStatus, version : Nat, asked : AlertSet]

\* A database whose tables are what the schema makes them.
DatabaseOK(v) ==
  /\ DOMAIN v = {"run", "state", "cases", "links"}
  /\ v.run \in Run
  /\ DOMAIN v.state \subseteq Int
  /\ \A a \in DOMAIN v.state : v.state[a].version \in Nat
  /\ v.cases \in Seq(Case)

LEMMA CaseRows ==
  ASSUME NEW v, DatabaseOK(v)
  PROVE  \A c \in DOMAIN v.cases : v.cases[c] \in Case /\ v.cases[c].version \in Nat
<1>1. \A c \in DOMAIN v.cases : v.cases[c] \in Case
  BY DEF DatabaseOK
<1>2. QED
  BY <1>1 DEF Case

LEMMA CoversItself ==
  ASSUME NEW v, DatabaseOK(v)
  PROVE  Covers(v, v)
BY CaseRows DEF DatabaseOK, Covers, HasCase

LEMMA CoversTransitive ==
  ASSUME NEW u, NEW v, NEW w, DatabaseOK(u), DatabaseOK(v), DatabaseOK(w),
         Covers(w, v), Covers(v, u)
  PROVE  Covers(w, u)
<1>1. \A x \in {u, v, w} : /\ \A c \in DOMAIN x.cases : x.cases[c].version \in Nat
                           /\ \A a \in DOMAIN x.state : x.state[a].version \in Nat
  BY CaseRows DEF DatabaseOK
<1>2. QED
  BY <1>1 DEF Covers, HasCase

(***************************************************************************)
(* Each of the four statements that write keeps the tables in order and    *)
(* takes nothing back.                                                     *)
(***************************************************************************)
LEMMA SaveStateKeeps ==
  ASSUME NEW v, DatabaseOK(v), NEW a \in Int, NEW status
  PROVE  /\ DatabaseOK(SaveState(v, a, status))
         /\ Covers(SaveState(v, a, status), v)
         /\ VersionOf(SaveState(v, a, status), a) = VersionOf(v, a) + 1
         /\ VersionOf(v, a) \in Nat
         /\ SaveState(v, a, status).cases = v.cases
         /\ SaveState(v, a, status).links = v.links
<1> DEFINE new == SaveState(v, a, status)
           table == [b \in DOMAIN v.state \cup {a} |->
                       IF b = a THEN [status |-> status, version |-> VersionOf(v, a) + 1]
                                ELSE v.state[b]]
<1>1. VersionOf(v, a) \in Nat
  BY DEF VersionOf, DatabaseOK
<1>2. /\ DOMAIN new = DOMAIN v /\ new.run = v.run /\ new.state = table
      /\ new.cases = v.cases /\ new.links = v.links
  BY DEF SaveState, DatabaseOK
<1>3. /\ DOMAIN table = DOMAIN v.state \cup {a}
      /\ table[a].version = VersionOf(v, a) + 1
      /\ \A b \in DOMAIN v.state : b # a => table[b] = v.state[b]
  OBVIOUS
<1> HIDE DEF new, table
<1>4. DatabaseOK(new)
  BY <1>1, <1>2, <1>3 DEF DatabaseOK, HasCase
<1>5. Covers(new, v)
  <2>1. \A c \in DOMAIN v.cases : v.cases[c].version \in Nat
    BY CaseRows
  <2>2. ASSUME NEW b \in DOMAIN v.state
        PROVE  b \in DOMAIN new.state /\ new.state[b].version >= v.state[b].version
    <3>1. CASE b = a
      BY <1>1, <1>2, <1>3, <3>1 DEF VersionOf
    <3>2. CASE b # a
      BY <1>2, <1>3, <3>2 DEF DatabaseOK
    <3>3. QED
      BY <3>1, <3>2
  <2>3. QED
    BY <1>2, <2>1, <2>2 DEF Covers, HasCase
<1>6. VersionOf(new, a) = VersionOf(v, a) + 1
  BY <1>2, <1>3 DEF VersionOf
<1>7. QED
  BY <1>1, <1>2, <1>4, <1>5, <1>6 DEF new

LEMMA SaveCaseKeeps ==
  ASSUME NEW v, DatabaseOK(v), NEW asked \in AlertSet
  PROVE  /\ DatabaseOK(SaveCase(v, asked))
         /\ Covers(SaveCase(v, asked), v)
         /\ HasCase(SaveCase(v, asked), Len(v.cases) + 1)
         /\ SaveCase(v, asked).cases[Len(v.cases) + 1].version = 1
         /\ DOMAIN SaveCase(v, asked).cases = DOMAIN v.cases \cup {Len(v.cases) + 1}
         /\ SaveCase(v, asked).links = v.links
<1> DEFINE new == SaveCase(v, asked)
           row == [status |-> "open", version |-> 1, asked |-> asked]
<1>1. /\ DOMAIN new = DOMAIN v /\ new.run = v.run
      /\ new.cases = Append(v.cases, row)
      /\ new.state = v.state /\ new.links = v.links
  BY DEF SaveCase, DatabaseOK
<1>2. row \in Case /\ row.version = 1
  BY DEF Case, CaseStatus
<1> HIDE DEF new, row
<1>3. v.cases \in Seq(Case)
  BY DEF DatabaseOK
<1>4. /\ new.cases \in Seq(Case) /\ DOMAIN new.cases = 1 .. Len(v.cases) + 1
      /\ DOMAIN v.cases = 1 .. Len(v.cases) /\ Len(v.cases) \in Nat
      /\ new.cases[Len(v.cases) + 1] = row
      /\ \A c \in 1 .. Len(v.cases) : new.cases[c] = v.cases[c]
  BY <1>1, <1>2, <1>3
<1>5. DatabaseOK(new)
  BY <1>1, <1>4 DEF DatabaseOK, HasCase
<1>6. Covers(new, v)
  <2>1. \A c \in DOMAIN v.cases : v.cases[c].version \in Nat
    BY CaseRows
  <2>2. QED
    BY <1>1, <1>4, <2>1 DEF Covers, HasCase, DatabaseOK
<1>7. DOMAIN new.cases = DOMAIN v.cases \cup {Len(v.cases) + 1}
  BY <1>4
<1>8. QED
  BY <1>1, <1>2, <1>4, <1>5, <1>6, <1>7 DEF new, HasCase

LEMMA ChangedRow ==
  ASSUME NEW r \in Case, NEW status \in CaseStatus
  PROVE  LET new == [r EXCEPT !.version = r.version + 1,
                              !.status = IF status = "" THEN r.status ELSE status]
         IN  new \in Case /\ new.version = r.version + 1 /\ r.version \in Nat
<1> DEFINE once == [r EXCEPT !.version = r.version + 1]
           kept == IF status = "" THEN once.status ELSE status
<1>1. /\ once \in Case /\ once.status = r.status
      /\ once.version = r.version + 1 /\ r.version \in Nat
  BY DEF Case
<1>2. kept \in CaseStatus
  BY <1>1 DEF Case
<1>3. [r EXCEPT !.version = r.version + 1, !.status = IF status = "" THEN r.status ELSE status]
        = [once EXCEPT !.status = kept]
  OBVIOUS
<1> HIDE DEF once, kept
<1>4. [once EXCEPT !.status = kept] \in Case
      /\ [once EXCEPT !.status = kept].version = once.version
  BY <1>1, <1>2 DEF Case
<1>5. QED
  BY <1>1, <1>3, <1>4

LEMMA ChangeCaseKeeps ==
  ASSUME NEW v, DatabaseOK(v), NEW c, HasCase(v, c), NEW status \in CaseStatus
  PROVE  /\ DatabaseOK(ChangeCase(v, c, status))
         /\ Covers(ChangeCase(v, c, status), v)
         /\ HasCase(ChangeCase(v, c, status), c)
         /\ ChangeCase(v, c, status).cases[c].version = v.cases[c].version + 1
         /\ v.cases[c].version \in Nat
         /\ DOMAIN ChangeCase(v, c, status).cases = DOMAIN v.cases
         /\ ChangeCase(v, c, status).links = v.links
<1> DEFINE new == ChangeCase(v, c, status)
           row == [v.cases[c] EXCEPT !.version = v.cases[c].version + 1,
                                     !.status = IF status = "" THEN v.cases[c].status
                                                               ELSE status]
<1>1. v.cases \in Seq(Case) /\ v.cases[c] \in Case /\ c \in DOMAIN v.cases
  BY CaseRows DEF DatabaseOK, HasCase
<1>2. row \in Case /\ row.version = v.cases[c].version + 1 /\ v.cases[c].version \in Nat
  BY <1>1, ChangedRow
<1>3. new = [v EXCEPT !.cases[c] = row]
  BY DEF ChangeCase
<1> HIDE DEF new, row
<1>4. /\ DOMAIN new = DOMAIN v /\ new.run = v.run
      /\ new.cases = [v.cases EXCEPT ![c] = row]
      /\ new.state = v.state /\ new.links = v.links
  BY <1>3 DEF DatabaseOK
<1>5. /\ new.cases \in Seq(Case) /\ DOMAIN new.cases = DOMAIN v.cases
      /\ new.cases[c] = row
      /\ \A d \in DOMAIN v.cases : d # c => new.cases[d] = v.cases[d]
  BY <1>1, <1>2, <1>4
<1>6. DatabaseOK(new)
  BY <1>4, <1>5 DEF DatabaseOK, HasCase
<1>7. Covers(new, v)
  <2>1. \A d \in DOMAIN v.cases : v.cases[d].version \in Nat
    BY CaseRows
  <2>2. ASSUME NEW d \in DOMAIN v.cases
        PROVE  HasCase(new, d) /\ new.cases[d].version >= v.cases[d].version
    BY <1>2, <1>5, <2>1 DEF HasCase
  <2>3. QED
    BY <1>4, <2>2 DEF Covers, DatabaseOK
<1>8. QED
  BY <1>1, <1>2, <1>4, <1>5, <1>6, <1>7 DEF new, HasCase

LEMMA LinkKeeps ==
  ASSUME NEW v, DatabaseOK(v), NEW c, NEW a
  PROVE  /\ DatabaseOK(Link(v, c, a))
         /\ Covers(Link(v, c, a), v)
         /\ Link(v, c, a).cases = v.cases
         /\ Link(v, c, a).links = v.links \cup {<<c, a>>}
<1> DEFINE new == Link(v, c, a)
<1>1. /\ DOMAIN new = DOMAIN v /\ new.run = v.run /\ new.cases = v.cases
      /\ new.state = v.state /\ new.links = v.links \cup {<<c, a>>}
  BY DEF Link, DatabaseOK
<1> HIDE DEF new
<1>2. DatabaseOK(new)
  BY <1>1 DEF DatabaseOK
<1>3. Covers(new, v)
  BY <1>1, CoversItself DEF Covers, HasCase
<1>4. QED
  BY <1>1, <1>2, <1>3 DEF new

-----------------------------------------------------------------------------
\* A write as a request remembers it.
WriteOK(w) ==
  /\ w[1] \in {"state", "case", "link"}
  /\ w[1] \in {"state", "case"} => w[3] \in Nat

\* The write w is in the database d, or is one of those that drift.
Kept(w, d, drifting) == WriteOK(w) /\ (Holds(d, w) \/ w \in drifting)

\* The case c is in the database d, or was lost.
Known(c, d, drifting) ==
  HasCase(d, c) \/ \E w \in drifting : w[1] = "case" /\ w[2] = c

LinksOK(v, drifting) == \A l \in v.links : Known(l[1], v, drifting)

\* What a thread with job j may rely on: d is the committed database, v what
\* the connection sees.
JobOK(j, d, v, drifting) ==
  /\ j.step \in {"idle", "state", "create", "insert", "link", "update", "attach", "read"}
  /\ j.step \in {"state", "create", "insert", "update"} =>
       DOMAIN j = {"step", "req"} /\ j.req \in Request
  /\ j.step = "state" => j.req.kind = "state"
  /\ j.step \in {"create", "insert"} => j.req.kind = "create"
  /\ j.step = "update" => j.req.kind = "update"
  /\ j.step = "link" => /\ DOMAIN j = {"step", "req", "case", "todo"}
                        /\ Kept(<<"case", j.case, 1>>, v, drifting)
  /\ j.step = "attach" =>
       /\ DOMAIN j = {"step", "req", "todo", "wrote"}
       /\ Known(j.req.id, d, drifting)
       /\ \A w \in j.wrote : /\ Kept(w, d, drifting)
                             /\ w[1] # "state"
                             /\ w[1] = "case" => w[2] = j.req.id
  /\ j.step = "read" =>
       /\ DOMAIN j = {"step", "req", "todo", "seen", "wrote"}
       /\ \E S : j.seen \in Seq(S)
       /\ \A w \in j.wrote : Kept(w, d, drifting)
       /\ j.seen = <<>> => \A w \in j.wrote :
            /\ w[1] = "state" => Head(j.todo) = "alert" /\ j.req.id = w[2]
            /\ w[1] = "case"  => Head(j.todo) = "case" /\ j.req.id = w[2]
       /\ j.seen # <<>> => \A w \in j.wrote \ drifting :
            w[1] \in {"state", "case"} => Head(j.seen)[3] >= w[3]

InCreate(t) == job[t].step \in {"insert", "link"}

InRead(t) == job[t].step = "read" /\ job[t].seen # <<>>

\* The mutex is held throughout create_case and between the SELECTs of an
\* answer.  A transaction is that of the thread in create_case, or one whose
\* COMMIT failed; it has everything the committed database has.
MutexInv ==
  /\ writer \in {"free", "api", "rebuild"}
  /\ tx # NoTx <=> writer = "api"
  /\ stuck \in BOOLEAN /\ (stuck => tx # NoTx)
  /\ \A t \in Thread : InCreate(t) \/ InRead(t) => mu = t
  /\ tx # NoTx => /\ stuck \/ \E t \in Thread : mu = t /\ InCreate(t)
                  /\ DatabaseOK(tx) /\ Covers(tx, db)

\* Every link has a case that is there or was lost, and so has every case the
\* connection sees, but for the one that is being created.
LinksInv ==
  /\ LinksOK(db, adrift) /\ LinksOK(View, adrift)
  /\ \A c \in DOMAIN View.cases :
       Known(c, db, adrift) \/ \E t \in Thread : job[t].step = "link" /\ job[t].case = c

StoreInv ==
  /\ DOMAIN job = Thread
  /\ DatabaseOK(db)
  /\ MutexInv
  /\ LinksInv
  /\ \A t \in Thread : JobOK(job[t], db, View, adrift)
  /\ \A w \in told : Kept(w, db, adrift)

\* What every step must do: keep the invariant and what is committed.
KeepsStore == StoreInv' /\ Covers(db', db)

-----------------------------------------------------------------------------
LEMMA ViewOK ==
  ASSUME StoreInv
  PROVE  DatabaseOK(View) /\ Covers(View, db)
BY CoversItself DEF StoreInv, MutexInv, View

LEMMA HoldsOn ==
  ASSUME NEW old, NEW new, DatabaseOK(old), DatabaseOK(new), Covers(new, old),
         NEW w, WriteOK(w), Holds(old, w)
  PROVE  Holds(new, w)
<1>1. /\ \A c \in DOMAIN old.cases : old.cases[c].version \in Nat
      /\ \A c \in DOMAIN new.cases : new.cases[c].version \in Nat
  BY CaseRows
<1>2. CASE w[1] = "state"
  <2>1. VersionOf(old, w[2]) >= w[3] /\ w[3] \in Nat
    BY <1>2 DEF Holds, WriteOK
  <2>2. CASE w[2] \in DOMAIN old.state
    BY <1>2, <2>1, <2>2 DEF Holds, Covers, VersionOf, DatabaseOK
  <2>3. CASE w[2] \notin DOMAIN old.state
    BY <1>2, <2>1, <2>3 DEF Holds, VersionOf, DatabaseOK
  <2>4. QED
    BY <2>2, <2>3
<1>3. CASE w[1] = "case"
  BY <1>1, <1>3 DEF Holds, WriteOK, Covers, HasCase
<1>4. CASE w[1] = "link"
  BY <1>4 DEF Holds, Covers
<1>5. QED
  BY <1>2, <1>3, <1>4 DEF WriteOK

\* What drifted may be stored in the end, in the database d; it is not forgotten.
Drifts(before, after, d) == \A w \in before : w \in after \/ Holds(d, w)

LEMMA HoldsCase ==
  ASSUME NEW d, NEW w, w[1] = "case", Holds(d, w)
  PROVE  HasCase(d, w[2])
BY DEF Holds

LEMMA KeptLasts ==
  ASSUME NEW old, NEW new, NEW d, DatabaseOK(old), DatabaseOK(new), DatabaseOK(d),
         Covers(new, old), Covers(new, d), NEW before, NEW after, Drifts(before, after, d)
  PROVE  /\ \A w : Kept(w, old, before) => Kept(w, new, after)
         /\ \A c : Known(c, old, before) => Known(c, new, after)
<1>1. ASSUME NEW w, Kept(w, old, before) PROVE Kept(w, new, after)
  <2>1. WriteOK(w) /\ (Holds(old, w) \/ Holds(d, w) \/ w \in after)
    BY <1>1 DEF Kept, Drifts
  <2>2. QED
    BY <2>1, HoldsOn DEF Kept
<1>2. ASSUME NEW c, Known(c, old, before) PROVE Known(c, new, after)
  <2>1. CASE HasCase(old, c)
    BY <2>1 DEF Known, Covers, HasCase
  <2>2. ASSUME NEW w \in before, w[1] = "case", w[2] = c PROVE Known(c, new, after)
    <3>1. CASE w \in after
      BY <2>2, <3>1 DEF Known
    <3>2. CASE Holds(d, w)
      <4>1. HasCase(d, c)
        BY <2>2, <3>2, HoldsCase
      <4>2. QED
        BY <4>1 DEF Known, Covers, HasCase
    <3>3. QED
      BY <2>2, <3>1, <3>2 DEF Drifts
  <2>3. QED
    BY <1>2, <2>1, <2>2 DEF Known
<1>3. QED
  BY <1>1, <1>2

(***************************************************************************)
(* A job's reliance survives whatever only adds to the database.           *)
(***************************************************************************)
LEMMA JobLasts ==
  ASSUME NEW old, NEW new, DatabaseOK(old), DatabaseOK(new), Covers(new, old),
         NEW v, NEW nv, DatabaseOK(v), DatabaseOK(nv), Covers(nv, new),
         NEW before, NEW after, Drifts(before, after, new),
         NEW j, JobOK(j, old, v, before),
         j.step = "link" => Covers(nv, v),
         j.step = "read" /\ j.seen # <<>> => after = before
  PROVE  JobOK(j, new, nv, after)
<1>1. /\ \A w : Kept(w, old, before) => Kept(w, new, after)
      /\ \A c : Known(c, old, before) => Known(c, new, after)
  <2>1. Covers(new, new)
    BY CoversItself
  <2>2. QED
    BY <2>1, KeptLasts
<1>2. j.step = "link" => Kept(<<"case", j.case, 1>>, nv, after)
  <2> SUFFICES ASSUME j.step = "link" PROVE Kept(<<"case", j.case, 1>>, nv, after)
    OBVIOUS
  <2>1. \A w : Kept(w, v, before) => Kept(w, nv, after)
    BY KeptLasts
  <2>2. QED
    BY <2>1 DEF JobOK
<1>3. j.step = "attach" =>
       /\ DOMAIN j = {"step", "req", "todo", "wrote"}
       /\ Known(j.req.id, new, after)
       /\ \A w \in j.wrote : /\ Kept(w, new, after)
                             /\ w[1] # "state"
                             /\ w[1] = "case" => w[2] = j.req.id
  BY <1>1 DEF JobOK
<1>4. j.step = "read" =>
       /\ DOMAIN j = {"step", "req", "todo", "seen", "wrote"}
       /\ \E S : j.seen \in Seq(S)
       /\ \A w \in j.wrote : Kept(w, new, after)
       /\ j.seen = <<>> => \A w \in j.wrote :
            /\ w[1] = "state" => Head(j.todo) = "alert" /\ j.req.id = w[2]
            /\ w[1] = "case"  => Head(j.todo) = "case" /\ j.req.id = w[2]
       /\ j.seen # <<>> => \A w \in j.wrote \ after :
            w[1] \in {"state", "case"} => Head(j.seen)[3] >= w[3]
  BY <1>1 DEF JobOK
<1>5. QED
  BY <1>2, <1>3, <1>4 DEF JobOK

(***************************************************************************)
(* A step of thread t that takes nothing back, leaves the mutex and the    *)
(* links in order and t with a job it may have keeps the invariant.        *)
(***************************************************************************)
LEMMA ThreadStep ==
  ASSUME StoreInv, NEW t \in Thread, NEW j, job' = [job EXCEPT ![t] = j],
         DatabaseOK(db'), Covers(db', db), MutexInv', LinksInv',
         Drifts(adrift, adrift', db'), Enters(t) \/ adrift' = adrift,
         JobOK(j, db', View', adrift'),
         \/ Covers(View', View)
         \/ \A u \in Thread \ {t} : job[u].step # "link",
         \A w \in told' \ told : Kept(w, db', adrift')
  PROVE  KeepsStore
<1>1. DOMAIN job' = Thread /\ job'[t] = j /\ \A u \in Thread \ {t} : job'[u] = job[u]
  BY DEF StoreInv
<1>2. /\ DatabaseOK(View') /\ DatabaseOK(View) /\ DatabaseOK(db)
      /\ Covers(View', db') /\ Covers(db', db')
  <2>1. Covers(db', db')
    BY CoversItself
  <2>2. DatabaseOK(View) /\ DatabaseOK(db)
    BY ViewOK DEF StoreInv
  <2>3. DatabaseOK(View') /\ Covers(View', db')
    BY <2>1 DEF View, MutexInv
  <2>4. QED
    BY <2>1, <2>2, <2>3
<1>3. ASSUME NEW u \in Thread \ {t} PROVE JobOK(job'[u], db', View', adrift')
  <2>1. JobOK(job[u], db, View, adrift)
    BY DEF StoreInv
  <2>2. job[u].step = "read" /\ job[u].seen # <<>> => adrift' = adrift
    BY DEF StoreInv, MutexInv, InRead, Enters
  <2>3. job[u].step = "link" => Covers(View', View)
    OBVIOUS
  <2>4. JobOK(job[u], db', View', adrift')
    BY <1>2, <2>1, <2>2, <2>3, JobLasts
  <2>5. QED
    BY <1>1, <2>4
<1>4. \A u \in Thread : JobOK(job'[u], db', View', adrift')
  BY <1>1, <1>3
<1>5. \A w \in told' : Kept(w, db', adrift')
  BY <1>2, KeptLasts DEF StoreInv
<1>6. QED
  BY <1>1, <1>4, <1>5 DEF StoreInv, KeepsStore

LEMMA TablesAreSomething ==
  ASSUME NEW v, DatabaseOK(v)
  PROVE  v # NoTx
<1>1. DOMAIN v # DOMAIN <<>>
  BY DEF DatabaseOK
<1>2. QED
  BY <1>1

\* A thread that may enter a method finds no other inside one, and no open
\* transaction but its own or one whose COMMIT failed.
LEMMA Alone ==
  ASSUME StoreInv, NEW t \in Thread, Enters(t)
  PROVE  /\ \A u \in Thread \ {t} : ~InCreate(u) /\ ~InRead(u)
         /\ ~InCreate(t) => tx = NoTx \/ stuck
BY DEF StoreInv, MutexInv, Enters

LEMMA InCreateEnters ==
  ASSUME StoreInv, NEW t \in Thread, InCreate(t)
  PROVE  mu = t /\ Enters(t)
BY DEF StoreInv, MutexInv, Enters

\* All cases the connection sees are known while nobody creates one.
LEMMA CasesKnown ==
  ASSUME StoreInv, \A u \in Thread : ~InCreate(u)
  PROVE  \A c \in DOMAIN View.cases : Known(c, db, adrift)
BY DEF StoreInv, LinksInv, InCreate

-----------------------------------------------------------------------------
(***************************************************************************)
(* Steps that leave the tables alone: they give a thread outside           *)
(* create_case another job.                                                *)
(***************************************************************************)
LEMMA NewJobKeeps ==
  ASSUME StoreInv, NEW t \in Thread, NEW j, job' = [job EXCEPT ![t] = j],
         ~InCreate(t), j.step \notin {"insert", "link"},
         JobOK(j, db, View, adrift),
         db' = db, tx' = tx, writer' = writer, stuck' = stuck, adrift' = adrift,
         \/ mu' = mu
         \/ mu = t /\ mu' = NoThread
         \/ Enters(t) /\ mu' \in {t, NoThread},
         j.step = "read" /\ j.seen # <<>> => mu' = t,
         \A w \in told' \ told : Kept(w, db, adrift)
  PROVE  KeepsStore
<1>1. View' = View
  BY DEF View
<1>2. job'[t] = j /\ \A u \in Thread \ {t} : job'[u] = job[u]
  BY DEF StoreInv
<1>3. MutexInv'
  <2>1. \A u \in Thread : InCreate(u)' \/ InRead(u)' => mu' = u
    <3>1. ASSUME NEW u \in Thread \ {t}, InCreate(u)' \/ InRead(u)'
          PROVE  mu' = u
      <4>1. InCreate(u) \/ InRead(u)
        BY <1>2, <3>1 DEF InCreate, InRead
      <4>2. mu = u /\ ~Enters(t)
        BY <4>1, Alone DEF StoreInv, MutexInv
      <4>3. QED
        BY <4>2
    <3>2. InCreate(t)' \/ InRead(t)' => mu' = t
      BY <1>2 DEF InCreate, InRead
    <3>3. QED
      BY <3>1, <3>2
  <2>2. ASSUME tx # NoTx, ~stuck PROVE \E u \in Thread : mu' = u /\ InCreate(u)'
    <3>1. PICK u \in Thread : mu = u /\ InCreate(u)
      BY <2>2 DEF StoreInv, MutexInv
    <3>2. u # t /\ InCreate(u)'
      BY <1>2, <3>1 DEF InCreate
    <3>3. QED
      BY <2>1, <3>2
  <2>3. QED
    BY <2>1, <2>2 DEF StoreInv, MutexInv
<1>4. LinksInv'
  <2>1. ASSUME NEW c, \E u \in Thread : job[u].step = "link" /\ job[u].case = c
        PROVE  \E u \in Thread : job'[u].step = "link" /\ job'[u].case = c
    BY <1>2, <2>1 DEF InCreate
  <2>2. QED
    BY <1>1, <2>1 DEF StoreInv, LinksInv
<1>5. Covers(db', db) /\ DatabaseOK(db') /\ Covers(View', View)
  BY <1>1, ViewOK, CoversItself DEF StoreInv
<1>6. Drifts(adrift, adrift', db')
  BY DEF Drifts
<1>7. QED
  BY <1>1, <1>3, <1>4, <1>5, <1>6, ThreadStep

LEMMA IdleOK ==
  /\ \A d, v, drifting : JobOK(Idle, d, v, drifting)
  /\ Idle.step \notin {"insert", "link"} /\ Idle.step # "read"
BY DEF Idle, JobOK

LEMMA QueriesBegin ==
  Head(Queries("alert")) = "alert" /\ Head(Queries("case")) = "case"
BY DEF Queries

\* A request about to read its answer back.
LEMMA ReadBackOK ==
  ASSUME NEW kind, NEW r, NEW wrote, NEW d, NEW v, NEW drifting,
         \A w \in wrote : /\ Kept(w, d, drifting)
                          /\ w[1] = "state" => kind = "alert" /\ r.id = w[2]
                          /\ w[1] = "case"  => kind = "case" /\ r.id = w[2]
  PROVE  LET j == [step |-> "read", req |-> r, todo |-> Queries(kind),
                   seen |-> <<>>, wrote |-> wrote]
         IN  JobOK(j, d, v, drifting)
<1> DEFINE j == [step |-> "read", req |-> r, todo |-> Queries(kind),
                 seen |-> <<>>, wrote |-> wrote]
<1>1. /\ DOMAIN j = {"step", "req", "todo", "seen", "wrote"} /\ j.step = "read"
      /\ j.seen = <<>> /\ j.todo = Queries(kind) /\ j.req = r /\ j.wrote = wrote
  OBVIOUS
<1> HIDE DEF j
<1>2. j.seen \in Seq({})
  BY <1>1
<1>3. \A w \in j.wrote :
        /\ w[1] = "state" => Head(j.todo) = "alert" /\ j.req.id = w[2]
        /\ w[1] = "case"  => Head(j.todo) = "case" /\ j.req.id = w[2]
  BY <1>1, QueriesBegin
<1>4. JobOK(j, d, v, drifting)
  BY <1>1, <1>2, <1>3 DEF JobOK
<1>5. QED
  BY <1>4 DEF j

LEMMA ReceiveKeeps ==
  ASSUME StoreInv, NEW t \in Thread, Receive(t)
  PROVE  KeepsStore
<1>1. /\ db' = db /\ tx' = tx /\ writer' = writer /\ mu' = mu /\ told' = told
      /\ stuck' = stuck /\ adrift' = adrift /\ ~InCreate(t)
  BY DEF Receive, InCreate
<1>2. PICK r \in Request :
        \/ Answer(t)
        \/ /\ r.kind \in {"state", "create", "update"}
           /\ job' = [job EXCEPT ![t] = [step |-> r.kind, req |-> r]]
        \/ ReadBack(t, r.kind, r, {})
  BY DEF Receive
<1>3. CASE Answer(t)
  BY <1>1, <1>3, IdleOK, NewJobKeeps DEF Answer
<1>4. CASE /\ r.kind \in {"state", "create", "update"}
           /\ job' = [job EXCEPT ![t] = [step |-> r.kind, req |-> r]]
  <2> DEFINE j == [step |-> r.kind, req |-> r]
  <2>1. /\ JobOK(j, db, View, adrift) /\ j.step \notin {"insert", "link"}
        /\ j.step # "read" /\ job' = [job EXCEPT ![t] = j]
    BY <1>4 DEF JobOK
  <2> HIDE DEF j
  <2>2. QED
    BY <1>1, <2>1, NewJobKeeps
<1>5. CASE ReadBack(t, r.kind, r, {})
  <2> DEFINE j == [step |-> "read", req |-> r, todo |-> Queries(r.kind),
                   seen |-> <<>>, wrote |-> {}]
  <2>1. JobOK(j, db, View, adrift)
    BY ReadBackOK
  <2>2. job' = [job EXCEPT ![t] = j] /\ j.step = "read" /\ j.seen = <<>>
    BY <1>5 DEF ReadBack
  <2> HIDE DEF j
  <2>3. QED
    BY <1>1, <2>1, <2>2, NewJobKeeps
<1>6. QED
  BY <1>2, <1>3, <1>4, <1>5

-----------------------------------------------------------------------------
(***************************************************************************)
(* A statement that writes, inside or outside create_case.                 *)
(***************************************************************************)
LEMMA WriteMoves ==
  ASSUME StoreInv, NEW new, DatabaseOK(new), Covers(new, View), NEW wrote,
         Write(new, wrote)
  PROVE  /\ View' = new /\ writer' = writer /\ stuck' = stuck
         /\ DatabaseOK(db') /\ Covers(db', db) /\ Covers(View', db')
         /\ \/ tx = NoTx /\ tx' = NoTx /\ db' = new
            \/ tx # NoTx /\ tx' = new /\ db' = db
         /\ Drifts(adrift, adrift', db')
         /\ tx = NoTx \/ stuck =>
              \A w \in wrote : WriteOK(w) /\ Holds(new, w) => Kept(w, db', adrift')
<1>1. /\ DatabaseOK(db) /\ DatabaseOK(View) /\ Covers(View, db)
      /\ Covers(db, db) /\ Covers(new, new) /\ new # NoTx
  BY ViewOK, CoversItself, TablesAreSomething DEF StoreInv
<1>2. Covers(new, db)
  BY <1>1, CoversTransitive
<1>3. /\ \/ tx = NoTx /\ tx' = NoTx /\ db' = new
         \/ tx # NoTx /\ tx' = new /\ db' = db
      /\ writer' = writer /\ stuck' = stuck
      /\ adrift' = {w \in adrift \cup IF stuck THEN wrote ELSE {} : ~Holds(db', w)}
  BY DEF Write
<1>4. View' = new
  BY <1>1, <1>3 DEF View
<1>5. DatabaseOK(db') /\ Covers(db', db) /\ Covers(View', db')
  BY <1>1, <1>2, <1>3, <1>4
<1>6. Drifts(adrift, adrift', db')
  BY <1>3 DEF Drifts
<1>7. ASSUME tx = NoTx \/ stuck, NEW w \in wrote, WriteOK(w), Holds(new, w)
      PROVE  Kept(w, db', adrift')
  <2>1. CASE stuck
    BY <1>3, <1>7, <2>1 DEF Kept
  <2>2. CASE tx = NoTx
    BY <1>3, <1>7, <2>2 DEF Kept
  <2>3. QED
    BY <1>7, <2>1, <2>2
<1>8. QED
  BY <1>3, <1>4, <1>5, <1>6, <1>7

LEMMA LinksLast ==
  ASSUME NEW old, NEW new, NEW d, DatabaseOK(old), DatabaseOK(new), DatabaseOK(d),
         Covers(new, old), Covers(new, d), NEW before, NEW after,
         Drifts(before, after, d), LinksOK(old, before),
         \A l \in new.links \ old.links : Known(l[1], new, after)
  PROVE  LinksOK(new, after)
<1>1. \A c : Known(c, old, before) => Known(c, new, after)
  BY KeptLasts
<1>2. QED
  BY <1>1 DEF LinksOK

\* The links stay in order when the cases of new links are known.
LEMMA WriteLinks ==
  ASSUME StoreInv, NEW new, DatabaseOK(new), Covers(new, View), NEW wrote,
         Write(new, wrote),
         \A l \in new.links \ View.links : Known(l[1], new, adrift')
  PROVE  LinksOK(db', adrift') /\ LinksOK(View', adrift')
<1>1. /\ View' = new /\ DatabaseOK(db') /\ Covers(db', db) /\ Covers(View', db')
      /\ \/ tx = NoTx /\ tx' = NoTx /\ db' = new
         \/ tx # NoTx /\ tx' = new /\ db' = db
      /\ Drifts(adrift, adrift', db')
  BY WriteMoves
<1>2. /\ DatabaseOK(db) /\ DatabaseOK(View) /\ Covers(db', db')
      /\ LinksOK(db, adrift) /\ LinksOK(View, adrift)
  BY <1>1, ViewOK, CoversItself DEF StoreInv, LinksInv
<1>3. LinksOK(new, adrift')
  BY <1>1, <1>2, LinksLast
<1>4. CASE db' = db
  <2>1. \A l \in db'.links \ db.links : Known(l[1], db', adrift')
    BY <1>4
  <2>2. QED
    BY <1>1, <1>2, <1>3, <2>1, LinksLast
<1>5. CASE db' = new
  BY <1>1, <1>3, <1>5
<1>6. QED
  BY <1>1, <1>4, <1>5

(***************************************************************************)
(* Outside create_case: no case is made, and a new link is that of a case  *)
(* which is known.                                                         *)
(***************************************************************************)
LEMMA OutsideWrites ==
  ASSUME StoreInv, NEW t \in Thread, Enters(t), ~InCreate(t), NEW j,
         job' = [job EXCEPT ![t] = j], j.step \notin {"insert", "link"},
         j.step = "read" => j.seen = <<>>,
         NEW new, DatabaseOK(new), Covers(new, View), NEW wrote, Write(new, wrote),
         DOMAIN new.cases = DOMAIN View.cases,
         \A l \in new.links \ View.links : Known(l[1], db, adrift),
         told' = told, JobOK(j, db', View', adrift')
  PROVE  KeepsStore
<1>1. /\ View' = new /\ writer' = writer /\ stuck' = stuck
      /\ DatabaseOK(db') /\ Covers(db', db) /\ Covers(View', db')
      /\ \/ tx = NoTx /\ tx' = NoTx /\ db' = new
         \/ tx # NoTx /\ tx' = new /\ db' = db
      /\ Drifts(adrift, adrift', db')
  BY WriteMoves
<1>2. /\ tx = NoTx \/ stuck
      /\ \A u \in Thread : ~InCreate(u)
      /\ \A u \in Thread \ {t} : ~InRead(u)
  BY Alone
<1>3. job'[t] = j /\ \A u \in Thread \ {t} : job'[u] = job[u]
  BY DEF StoreInv
<1>4. \A u \in Thread : ~InCreate(u)' /\ ~InRead(u)'
  BY <1>2, <1>3 DEF InCreate, InRead
<1>5. MutexInv'
  BY <1>1, <1>2, <1>4, TablesAreSomething DEF StoreInv, MutexInv
<1>6. DatabaseOK(db) /\ Covers(db', db') /\ Covers(new, db')
  BY <1>1, CoversItself DEF StoreInv
<1>7. \A c : Known(c, db, adrift) => Known(c, db', adrift') /\ Known(c, new, adrift')
  <2>1. \A c : Known(c, db, adrift) => Known(c, db', adrift')
    BY <1>1, <1>6, KeptLasts
  <2>2. \A c : HasCase(db', c) => HasCase(new, c)
    BY <1>6 DEF Covers, HasCase
  <2>3. QED
    BY <2>1, <2>2 DEF Known
<1>8. LinksInv'
  <2>1. LinksOK(db', adrift') /\ LinksOK(View', adrift')
    BY <1>7, WriteLinks
  <2>2. \A c \in DOMAIN View'.cases : Known(c, db', adrift')
    BY <1>1, <1>2, <1>7, CasesKnown
  <2>3. QED
    BY <2>1, <2>2 DEF LinksInv
<1>9. Covers(View', View)
  BY <1>1
<1>10. QED
  BY <1>1, <1>5, <1>8, <1>9, ThreadStep

(***************************************************************************)
(* A request ends in an error: its thread has nothing more to do, and the  *)
(* transaction, if there was one, is rolled back or left as it is.         *)
(***************************************************************************)
LEMMA GivesUp ==
  ASSUME StoreInv, NEW t \in Thread, Enters(t), Answer(t),
         db' = db, adrift' = adrift, told' = told,
         RollBack \/ (UNCHANGED <<tx, writer, stuck>> /\ ~InCreate(t))
  PROVE  KeepsStore
<1>1. job' = [job EXCEPT ![t] = Idle]
  BY DEF Answer
<1>2. job'[t] = Idle /\ \A u \in Thread \ {t} : job'[u] = job[u]
  BY <1>1 DEF StoreInv
<1>3. /\ \A u \in Thread \ {t} : ~InCreate(u) /\ ~InRead(u)
      /\ ~InCreate(t) => tx = NoTx \/ stuck
  BY Alone
<1>4. \A u \in Thread : ~InCreate(u)' /\ ~InRead(u)'
  BY <1>2, <1>3, IdleOK DEF InCreate, InRead
<1>5. DatabaseOK(db) /\ Covers(db, db) /\ Covers(View, View)
  BY ViewOK, CoversItself DEF StoreInv
<1>6. MutexInv' /\ LinksInv'
  <2>1. CASE RollBack
    <3>1. /\ tx' = NoTx /\ stuck' = FALSE /\ writer' \in {"free", "rebuild"}
          /\ View' = db
      BY <2>1 DEF RollBack, View, StoreInv, MutexInv
    <3>2. LinksInv'
      BY <3>1 DEF StoreInv, LinksInv, Known, HasCase
    <3>3. QED
      BY <1>4, <3>1, <3>2 DEF MutexInv
  <2>2. CASE UNCHANGED <<tx, writer, stuck>> /\ ~InCreate(t)
    <3>1. View' = View
      BY <2>2 DEF View
    <3>2. \A u \in Thread : ~InCreate(u)
      BY <1>3, <2>2
    <3>3. MutexInv'
      BY <1>3, <1>4, <2>2 DEF StoreInv, MutexInv
    <3>4. LinksInv'
      BY <3>1, <3>2, CasesKnown DEF StoreInv, LinksInv
    <3>5. QED
      BY <3>3, <3>4
  <2>3. QED
    BY <2>1, <2>2
<1>7. Drifts(adrift, adrift', db')
  BY DEF Drifts
<1>8. \A u \in Thread \ {t} : job[u].step # "link"
  BY <1>3 DEF InCreate
<1>9. QED
  BY <1>1, <1>5, <1>6, <1>7, <1>8, IdleOK, ThreadStep

LEMMA SetAlertStateKeeps ==
  ASSUME StoreInv, NEW t \in Thread, SetAlertState(t)
  PROVE  KeepsStore
<1> DEFINE r == job[t].req
           n == VersionOf(View, r.id) + 1
           w == <<"state", r.id, n>>
           new == SaveState(View, r.id, r.status)
<1>1. /\ job[t].step = "state" /\ Enters(t) /\ ~InCreate(t)
      /\ r \in Request /\ r.id \in Int /\ r.status \in STRING
      /\ told' = told
  BY DEF SetAlertState, InCreate, StoreInv, JobOK
<1>2. CASE Write(new, {w}) /\ ReadBack(t, "alert", r, {w})
  <2> DEFINE j == [step |-> "read", req |-> r, todo |-> Queries("alert"),
                   seen |-> <<>>, wrote |-> {w}]
  <2>1. /\ DatabaseOK(new) /\ Covers(new, View)
        /\ VersionOf(new, r.id) = n /\ n \in Nat
        /\ new.cases = View.cases /\ new.links = View.links
    BY <1>1, ViewOK, SaveStateKeeps
  <2>2. job' = [job EXCEPT ![t] = j] /\ j.step = "read" /\ j.seen = <<>>
    BY <1>2 DEF ReadBack
  <2> HIDE DEF n, new
  <2>3. WriteOK(w) /\ Holds(new, w) /\ w[1] = "state" /\ w[2] = r.id
    BY <2>1 DEF WriteOK, Holds
  <2> HIDE DEF w, r
  <2>4. Kept(w, db', adrift')
    BY <1>1, <1>2, <2>1, <2>3, Alone, WriteMoves
  <2>5. JobOK(j, db', View', adrift')
    BY <2>3, <2>4, ReadBackOK
  <2> HIDE DEF j
  <2>6. QED
    BY <1>1, <1>2, <2>1, <2>2, <2>5, OutsideWrites
<1>3. CASE Fails("state") /\ Answer(t) /\ UNCHANGED adrift
  BY <1>1, <1>3, GivesUp DEF Fails
<1>4. QED
  BY <1>2, <1>3 DEF SetAlertState

-----------------------------------------------------------------------------
\* create_case.
LEMMA BeginCaseKeeps ==
  ASSUME StoreInv, NEW t \in Thread, BeginCase(t)
  PROVE  KeepsStore
<1> DEFINE j == [job[t] EXCEPT !.step = "insert"]
<1>1. /\ job[t].step = "create" /\ Enters(t) /\ ~InCreate(t)
      /\ DOMAIN job[t] = {"step", "req"} /\ job[t].req \in Request
      /\ job[t].req.kind = "create"
      /\ db' = db /\ told' = told /\ mu' = t /\ stuck' = stuck /\ adrift' = adrift
  BY DEF BeginCase, InCreate, StoreInv, JobOK
<1>2. /\ tx = NoTx \/ stuck
      /\ \A u \in Thread : ~InCreate(u)
      /\ \A u \in Thread \ {t} : ~InRead(u)
  BY <1>1, Alone
<1>3. job' = [job EXCEPT ![t] = j]
  BY DEF BeginCase, StoreInv
<1>4. j.step = "insert" /\ \A v : JobOK(j, db, v, adrift)
  BY <1>1 DEF JobOK
<1> HIDE DEF j
<1>5. job'[t] = j /\ \A u \in Thread \ {t} : job'[u] = job[u]
  BY <1>3 DEF StoreInv
<1>6. InCreate(t)' /\ \A u \in Thread \ {t} : ~InCreate(u)' /\ ~InRead(u)'
  BY <1>2, <1>4, <1>5 DEF InCreate, InRead
<1>7. DatabaseOK(db) /\ Covers(db, db) /\ db # NoTx
  BY CoversItself, TablesAreSomething DEF StoreInv
<1>8. \/ tx = NoTx /\ tx' = db /\ writer' = "api"
      \/ tx' = tx /\ writer' = writer
  BY DEF BeginCase
<1>9. View' = View
  BY <1>1, <1>7, <1>8 DEF View
<1>10. MutexInv'
  <2>1. CASE tx = NoTx /\ tx' = db /\ writer' = "api"
    BY <1>1, <1>6, <1>7, <2>1 DEF StoreInv, MutexInv
  <2>2. CASE tx' = tx /\ writer' = writer
    BY <1>1, <1>6, <2>2 DEF StoreInv, MutexInv
  <2>3. QED
    BY <1>8, <2>1, <2>2
<1>11. LinksInv'
  <2>1. \A c \in DOMAIN View.cases : Known(c, db, adrift)
    BY <1>2, CasesKnown
  <2>2. QED
    BY <1>1, <1>9, <2>1 DEF StoreInv, LinksInv
<1>12. Drifts(adrift, adrift', db') /\ Covers(View', View)
  BY <1>1, <1>9, ViewOK, CoversItself DEF Drifts
<1>13. QED
  BY <1>1, <1>3, <1>4, <1>7, <1>10, <1>11, <1>12, ThreadStep

(***************************************************************************)
(* A statement that writes inside create_case: the only cases and links it *)
(* adds are those of the case being created.                               *)
(***************************************************************************)
LEMMA InsideWrites ==
  ASSUME StoreInv, NEW t \in Thread, InCreate(t), NEW j,
         job' = [job EXCEPT ![t] = j], j.step = "link",
         job[t].step = "link" => j.case = job[t].case,
         NEW new, DatabaseOK(new), Covers(new, View), Write(new, {}),
         DOMAIN new.cases \subseteq DOMAIN View.cases \cup {j.case},
         \A l \in new.links \ View.links : l[1] = j.case,
         JobOK(j, db', View', adrift'),
         mu' = mu, told' = told
  PROVE  KeepsStore
<1>1. /\ View' = new /\ writer' = writer /\ stuck' = stuck
      /\ DatabaseOK(db') /\ Covers(db', db) /\ Covers(View', db')
      /\ \/ tx = NoTx /\ tx' = NoTx /\ db' = new
         \/ tx # NoTx /\ tx' = new /\ db' = db
      /\ Drifts(adrift, adrift', db')
  BY WriteMoves
<1>2. /\ mu = t /\ Enters(t)
      /\ \A u \in Thread \ {t} : ~InCreate(u) /\ ~InRead(u)
  BY InCreateEnters, Alone
<1>3. job'[t] = j /\ \A u \in Thread \ {t} : job'[u] = job[u]
  BY DEF StoreInv
<1>4. InCreate(t)' /\ \A u \in Thread \ {t} : ~InCreate(u)' /\ ~InRead(u)'
  BY <1>2, <1>3 DEF InCreate, InRead
<1>5. MutexInv'
  BY <1>1, <1>2, <1>4, TablesAreSomething DEF StoreInv, MutexInv
<1>6. DatabaseOK(db) /\ Covers(db', db')
  BY <1>1, CoversItself DEF StoreInv
<1>7. Known(j.case, new, adrift')
  <2>1. Kept(<<"case", j.case, 1>>, new, adrift')
    BY <1>1 DEF JobOK
  <2>2. HasCase(new, j.case) \/ <<"case", j.case, 1>> \in adrift'
    BY <2>1 DEF Kept, Holds
  <2>3. QED
    BY <2>2 DEF Known
<1>8. LinksInv'
  <2>1. LinksOK(db', adrift') /\ LinksOK(View', adrift')
    BY <1>7, WriteLinks
  <2>2. \A c : Known(c, db, adrift) => Known(c, db', adrift')
    BY <1>1, <1>6, KeptLasts
  <2>3. ASSUME NEW c \in DOMAIN View'.cases
        PROVE  Known(c, db', adrift')
                 \/ \E u \in Thread : job'[u].step = "link" /\ job'[u].case = c
    <3>1. CASE c = j.case
      BY <1>3, <3>1
    <3>2. CASE c \in DOMAIN View.cases
      <4>1. CASE Known(c, db, adrift)
        BY <2>2, <4>1
      <4>2. ASSUME NEW u \in Thread, job[u].step = "link", job[u].case = c
            PROVE  c = j.case
        BY <1>2, <4>2 DEF InCreate
      <4>3. QED
        BY <3>1, <3>2, <4>1, <4>2 DEF StoreInv, LinksInv
    <3>3. QED
      BY <1>1, <2>3, <3>1, <3>2
  <2>4. QED
    BY <2>1, <2>3 DEF LinksInv
<1>9. QED
  BY <1>1, <1>2, <1>5, <1>8, ThreadStep

LEMMA InsertCaseKeeps ==
  ASSUME StoreInv, NEW t \in Thread, InsertCase(t)
  PROVE  KeepsStore
<1> DEFINE r == job[t].req
           c == Len(View.cases) + 1
           new == SaveCase(View, ToSet(r.ids))
           j == [step |-> "link", req |-> r, case |-> c, todo |-> r.ids]
<1>1. /\ InCreate(t) /\ job[t].step = "insert" /\ r \in Request /\ r.kind = "create"
      /\ mu' = mu /\ told' = told
  BY DEF InsertCase, InCreate, StoreInv, JobOK
<1>2. r.ids \in Seq(Int)
  BY <1>1
<1>3. ToSet(r.ids) \in AlertSet
  BY <1>2 DEF ToSet, AlertSet
<1>4. /\ DatabaseOK(new) /\ Covers(new, View)
      /\ HasCase(new, c) /\ new.cases[c].version = 1
      /\ DOMAIN new.cases = DOMAIN View.cases \cup {c} /\ new.links = View.links
  BY <1>3, ViewOK, SaveCaseKeeps
<1>5. Write(new, {}) /\ job' = [job EXCEPT ![t] = j]
  BY DEF InsertCase
<1>6. j.step = "link" /\ j.case = c /\ DOMAIN j = {"step", "req", "case", "todo"}
  OBVIOUS
<1> HIDE DEF new, r, j, c
<1>7. View' = new
  BY <1>4, <1>5, WriteMoves
<1>8. JobOK(j, db', View', adrift')
  BY <1>4, <1>6, <1>7 DEF JobOK, Kept, WriteOK, Holds
<1>9. QED
  BY <1>1, <1>4, <1>5, <1>6, <1>8, InsideWrites

LEMMA InsertCaseFailsKeeps ==
  ASSUME StoreInv, NEW t \in Thread, InsertCaseFails(t)
  PROVE  KeepsStore
<1>1. InCreate(t)
  BY DEF InsertCaseFails, InCreate
<1>2. Enters(t)
  BY <1>1, InCreateEnters
<1>3. QED
  BY <1>2, GivesUp DEF InsertCaseFails, Fails

(***************************************************************************)
(* The thread in create_case finds the transaction gone, or is done with   *)
(* it: what was in it is in the database or is not, and the case that was  *)
(* being created drifts if it is not.                                      *)
(***************************************************************************)
LEMMA CreationEnds ==
  ASSUME StoreInv, NEW t \in Thread, InCreate(t), job[t].step = "link",
         NEW j, job' = [job EXCEPT ![t] = j],
         j.step = "link" => mu' = mu,
         j.step = "insert" => FALSE, j.step = "read" => j.seen = <<>>,
         \/ RollBack /\ db' \in {db, View}
         \/ stuck' = TRUE /\ tx # NoTx /\ tx' = tx /\ writer' = writer /\ db' = db
         \/ j.step = "link" /\ UNCHANGED <<tx, writer, stuck, db>>,
         Drifts(adrift, adrift', db'),
         \/ HasCase(db', job[t].case) \/ <<"case", job[t].case, 1>> \in adrift'
         \/ j.step = "link" /\ j.case = job[t].case,
         JobOK(j, db', View', adrift'), told' = told
  PROVE  KeepsStore
<1>1. /\ mu = t /\ Enters(t)
      /\ \A u \in Thread \ {t} : ~InCreate(u) /\ ~InRead(u)
  BY InCreateEnters, Alone
<1>2. job'[t] = j /\ \A u \in Thread \ {t} : job'[u] = job[u]
  BY DEF StoreInv
<1>3. \A u \in Thread \ {t} : ~InCreate(u)' /\ ~InRead(u)'
  BY <1>1, <1>2 DEF InCreate, InRead
<1>4. ~InRead(t)' /\ (InCreate(t)' <=> j.step = "link")
  BY <1>2 DEF InCreate, InRead
<1>5. DatabaseOK(db) /\ DatabaseOK(View) /\ Covers(View, db) /\ Covers(db, db) /\ Covers(View, View)
  BY ViewOK, CoversItself DEF StoreInv
<1>6. /\ DatabaseOK(db') /\ Covers(db', db) /\ Covers(db', db')
      /\ View' = db' \/ (View' = View /\ db' = db)
      /\ DatabaseOK(View') /\ Covers(View', db')
  <2>1. CASE RollBack /\ db' \in {db, View}
    BY <1>5, <2>1 DEF RollBack, View
  <2>2. CASE tx' = tx /\ db' = db
    BY <1>5, <2>2 DEF View
  <2>3. QED
    BY <2>1, <2>2
<1>7. MutexInv'
  <2>1. \A u \in Thread : InCreate(u)' \/ InRead(u)' => mu' = u
    BY <1>1, <1>3, <1>4
  <2>2. CASE RollBack /\ db' \in {db, View}
    <3>1. tx' = NoTx /\ stuck' = FALSE /\ writer' \in {"free", "rebuild"}
      BY <2>2 DEF RollBack, StoreInv, MutexInv
    <3>2. QED
      BY <2>1, <3>1 DEF MutexInv
  <2>3. CASE stuck' = TRUE /\ tx # NoTx /\ tx' = tx /\ writer' = writer /\ db' = db
    BY <2>1, <2>3 DEF StoreInv, MutexInv
  <2>4. CASE j.step = "link" /\ UNCHANGED <<tx, writer, stuck, db>>
    <3>1. mu' = t /\ InCreate(t)'
      BY <1>1, <1>4, <2>4
    <3>2. QED
      BY <2>1, <2>4, <3>1 DEF StoreInv, MutexInv
  <2>5. QED
    BY <2>2, <2>3, <2>4
<1>8. \A c : Known(c, db, adrift) => Known(c, db', adrift') /\ Known(c, View', adrift')
  <2>1. \A c : Known(c, db, adrift) => Known(c, db', adrift')
    BY <1>5, <1>6, KeptLasts
  <2>2. \A c : HasCase(db', c) => HasCase(View', c)
    BY <1>6 DEF Covers, HasCase
  <2>3. QED
    BY <2>1, <2>2 DEF Known
<1>9. ASSUME NEW v \in {db, View}, Covers(v, v), DatabaseOK(v), LinksOK(v, adrift), Covers(v, db')
      PROVE  LinksOK(v, adrift')
  <2>1. \A l \in v.links \ v.links : Known(l[1], v, adrift')
    OBVIOUS
  <2>2. QED
    BY <1>6, <1>9, <2>1, LinksLast
<1>10. LinksInv'
  <2>1. LinksOK(db, adrift) /\ LinksOK(View, adrift)
    BY DEF StoreInv, LinksInv
  <2>2. db' \in {db, View} /\ View' \in {db, View}
    <3>1. db' \in {db, View}
      OBVIOUS
    <3>2. QED
      BY <1>6, <3>1
  <2>3. LinksOK(db', adrift') /\ LinksOK(View', adrift')
    BY <1>5, <1>6, <1>9, <2>1, <2>2
  <2>4. ASSUME NEW c \in DOMAIN View'.cases
        PROVE  Known(c, db', adrift')
                 \/ \E u \in Thread : job'[u].step = "link" /\ job'[u].case = c
    <3>1. CASE View' = db'
      BY <2>4, <3>1 DEF Known, HasCase
    <3>2. CASE View' = View /\ db' = db
      <4>1. CASE Known(c, db, adrift)
        BY <1>8, <4>1
      <4>2. ASSUME NEW u \in Thread, job[u].step = "link", job[u].case = c
            PROVE  c = job[t].case
        BY <1>1, <4>2 DEF InCreate
      <4>3. CASE c = job[t].case
        <5>1. CASE HasCase(db', c)
          BY <5>1 DEF Known
        <5>2. CASE <<"case", c, 1>> \in adrift'
          BY <5>2 DEF Known
        <5>3. CASE j.step = "link" /\ j.case = c
          BY <1>2, <5>3
        <5>4. QED
          BY <4>3, <5>1, <5>2, <5>3
      <4>4. QED
        BY <2>4, <3>2, <4>1, <4>2, <4>3 DEF StoreInv, LinksInv
    <3>3. QED
      BY <1>6, <3>1, <3>2
  <2>5. QED
    BY <2>3, <2>4 DEF LinksInv
<1>11. \A u \in Thread \ {t} : job[u].step # "link"
  BY <1>1 DEF InCreate
<1>12. QED
  BY <1>1, <1>6, <1>7, <1>10, <1>11, ThreadStep

LEMMA LinkCaseKeeps ==
  ASSUME StoreInv, NEW t \in Thread, LinkCase(t)
  PROVE  KeepsStore
<1> DEFINE j == [job[t] EXCEPT !.todo = Tail(job[t].todo)]
           c == job[t].case
           a == Head(job[t].todo)
           w == <<"case", c, 1>>
           new == Link(View, c, a)
<1>1. /\ InCreate(t) /\ job[t].step = "link" /\ mu' = mu /\ told' = told
  BY DEF LinkCase, InCreate
<1>2. /\ DOMAIN job[t] = {"step", "req", "case", "todo"}
      /\ Kept(w, View, adrift)
  BY <1>1 DEF StoreInv, JobOK
<1>3. job' = [job EXCEPT ![t] = j]
  BY DEF LinkCase, StoreInv
<1>4. \/ Write(new, {})
      \/ Fails("link") /\ adrift' = IF tx' = tx THEN adrift ELSE adrift \cup {w}
  BY DEF LinkCase
<1>5. DOMAIN j = DOMAIN job[t] /\ j.step = "link" /\ j.case = c
  BY <1>1, <1>2
<1>6. DatabaseOK(View) /\ DatabaseOK(db) /\ Covers(View, db) /\ Covers(View, View)
  BY ViewOK, CoversItself DEF StoreInv
<1>7. /\ DatabaseOK(new) /\ Covers(new, View)
      /\ new.cases = View.cases /\ new.links = View.links \cup {<<c, a>>}
  BY <1>6, LinkKeeps
<1>8. w = <<"case", j.case, 1>>
  BY <1>5
<1> HIDE DEF j, new
<1>9. CASE Write(new, {})
  <2>1. /\ View' = new /\ DatabaseOK(db') /\ Covers(View', db')
        /\ Drifts(adrift, adrift', db')
    BY <1>7, <1>9, WriteMoves
  <2>2. Kept(w, View', adrift')
    BY <1>2, <1>6, <1>7, <2>1, KeptLasts
  <2>3. JobOK(j, db', View', adrift')
    BY <1>2, <1>5, <1>8, <2>2 DEF JobOK
  <2>4. /\ DOMAIN new.cases \subseteq DOMAIN View.cases \cup {j.case}
        /\ \A l \in new.links \ View.links : l[1] = j.case
    BY <1>5, <1>7
  <2>5. QED
    BY <1>1, <1>3, <1>5, <1>7, <1>9, <2>3, <2>4, InsideWrites
<1>10. CASE Fails("link") /\ adrift' = IF tx' = tx THEN adrift ELSE adrift \cup {w}
  <2>1. /\ db' = db
        /\ \/ RollBack /\ db' \in {db, View}
           \/ UNCHANGED <<tx, writer, stuck, db>>
    BY <1>10 DEF Fails
  <2>2. Drifts(adrift, adrift', db')
    BY <1>10 DEF Drifts
  <2>3. Kept(w, View', adrift')
    <3>1. CASE tx' = tx
      <4>1. View' = View /\ adrift' = adrift
        BY <1>10, <2>1, <3>1 DEF View
      <4>2. QED
        BY <1>2, <4>1
    <3>2. CASE tx' # tx
      BY <1>2, <1>10, <3>2 DEF Kept
    <3>3. QED
      BY <3>1, <3>2
  <2>4. JobOK(j, db', View', adrift')
    BY <1>2, <1>5, <1>8, <2>3 DEF JobOK
  <2>5. QED
    BY <1>1, <1>3, <1>5, <2>1, <2>2, <2>4, CreationEnds
<1>11. QED
  BY <1>4, <1>9, <1>10

\* The case is read back, stored or adrift.
LEMMA CreatedKeeps ==
  ASSUME StoreInv, NEW t \in Thread, job[t].step = "link", Created(t),
         \/ RollBack /\ db' \in {db, View}
         \/ stuck' = TRUE /\ tx # NoTx /\ tx' = tx /\ writer' = writer /\ db' = db,
         Drifts(adrift, adrift', db'),
         Kept(<<"case", job[t].case, 1>>, db', adrift')
  PROVE  KeepsStore
<1> DEFINE c == job[t].case
           r == [id |-> c]
           w == <<"case", c, 1>>
           j == [step |-> "read", req |-> r, todo |-> Queries("case"),
                 seen |-> <<>>, wrote |-> {w}]
<1>1. /\ InCreate(t) /\ told' = told /\ job' = [job EXCEPT ![t] = j]
      /\ j.step = "read" /\ j.seen = <<>>
  BY DEF Created, InCreate, ReadBack
<1>2. w[1] = "case" /\ w[2] = c /\ r.id = c
  OBVIOUS
<1>3. JobOK(j, db', View', adrift')
  <2> HIDE DEF w, r, c
  <2>1. Kept(w, db', adrift')
    BY DEF w, c
  <2>2. QED
    BY <1>2, <2>1, ReadBackOK
<1>4. HasCase(db', c) \/ w \in adrift'
  BY DEF Kept, Holds
<1> HIDE DEF j
<1>5. QED
  BY <1>1, <1>3, <1>4, CreationEnds

LEMMA CommitCaseKeeps ==
  ASSUME StoreInv, NEW t \in Thread, CommitCase(t) \/ CommitCaseFails(t)
  PROVE  KeepsStore
<1> DEFINE w == <<"case", job[t].case, 1>>
<1>1. job[t].step = "link" /\ Created(t)
  BY DEF CommitCase, CommitCaseFails
<1>2. Kept(w, View, adrift) /\ WriteOK(w)
  BY <1>1 DEF StoreInv, JobOK, Kept
<1>3. CASE CommitCase(t)
  <2>1. /\ db' = View /\ RollBack /\ adrift' = {x \in adrift : ~Holds(db', x)}
    BY <1>3 DEF CommitCase
  <2>2. Drifts(adrift, adrift', db') /\ Kept(w, db', adrift')
    BY <1>2, <2>1 DEF Drifts, Kept
  <2>3. QED
    BY <1>1, <2>1, <2>2, CreatedKeeps
<1>4. CASE CommitCaseFails(t)
  <2>1. /\ \/ RollBack /\ db' \in {db, View}
           \/ stuck' = TRUE /\ tx # NoTx /\ tx' = tx /\ writer' = writer /\ db' = db
        /\ adrift' = adrift \cup {w}
    BY <1>4 DEF CommitCaseFails
  <2>2. Drifts(adrift, adrift', db') /\ Kept(w, db', adrift')
    BY <1>2, <2>1 DEF Drifts, Kept
  <2>3. QED
    BY <1>1, <2>1, <2>2, CreatedKeeps
<1>5. QED
  BY <1>3, <1>4

-----------------------------------------------------------------------------
\* Update and attach, and the reading methods.
LEMMA UpdateCaseKeeps ==
  ASSUME StoreInv, NEW t \in Thread, UpdateCase(t)
  PROVE  KeepsStore
<1> DEFINE r == job[t].req
           n == View.cases[r.id].version + 1
           w == <<"case", r.id, n>>
           new == ChangeCase(View, r.id, r.status)
<1>1. /\ ~InCreate(t) /\ Enters(t) /\ r \in Request /\ r.kind = "update"
      /\ told' = told
  BY DEF UpdateCase, InCreate, StoreInv, JobOK
<1>2. r.status \in CaseStatus
  BY <1>1 DEF CaseStatus
<1>3. CASE /\ HasCase(View, r.id)
           /\ Write(new, {w})
           /\ Attaching(t, r, {w})
  <2> DEFINE j == [step |-> "attach", req |-> r, todo |-> r.ids, wrote |-> {w}]
  <2>1. /\ DatabaseOK(new) /\ Covers(new, View) /\ HasCase(new, r.id)
        /\ new.cases[r.id].version = n /\ n \in Nat
        /\ DOMAIN new.cases = DOMAIN View.cases /\ new.links = View.links
    BY <1>2, <1>3, ViewOK, ChangeCaseKeeps
  <2>2. /\ job' = [job EXCEPT ![t] = j] /\ j.step = "attach" /\ j.req = r
        /\ DOMAIN j = {"step", "req", "todo", "wrote"} /\ j.wrote = {w}
    BY <1>3 DEF Attaching
  <2> HIDE DEF n, new
  <2>3. WriteOK(w) /\ Holds(new, w) /\ w[1] = "case" /\ w[2] = r.id
    BY <2>1 DEF WriteOK, Holds
  <2> HIDE DEF w, j, r
  <2>4. /\ DatabaseOK(db') /\ Covers(db', db) /\ Drifts(adrift, adrift', db')
        /\ Kept(w, db', adrift')
    BY <1>1, <1>3, <2>1, <2>3, Alone, WriteMoves
  <2>5. Known(r.id, db', adrift')
    <3>1. \A u \in Thread : ~InCreate(u)
      BY <1>1, Alone
    <3>2. Known(r.id, db, adrift)
      BY <1>3, <3>1, CasesKnown DEF HasCase
    <3>3. DatabaseOK(db) /\ Covers(db', db')
      BY <2>4, CoversItself DEF StoreInv
    <3>4. QED
      BY <2>4, <3>2, <3>3, KeptLasts
  <2>6. JobOK(j, db', View', adrift')
    BY <2>2, <2>3, <2>4, <2>5 DEF JobOK
  <2>7. \A l \in new.links \ View.links : Known(l[1], db, adrift)
    BY <2>1
  <2>8. QED
    BY <1>1, <1>3, <2>1, <2>2, <2>6, <2>7, OutsideWrites
<1>4. CASE Answer(t) /\ UNCHANGED <<db, tx, writer, stuck, adrift>>
  BY <1>1, <1>4, GivesUp
<1>5. CASE Fails("update") /\ Answer(t) /\ UNCHANGED adrift
  BY <1>1, <1>5, GivesUp DEF Fails
<1>6. QED
  BY <1>3, <1>4, <1>5 DEF UpdateCase

LEMMA AttachAlertKeeps ==
  ASSUME StoreInv, NEW t \in Thread, AttachAlert(t)
  PROVE  KeepsStore
<1> DEFINE c == job[t].req.id
           a == Head(job[t].todo)
           w == <<"link", c, a>>
           new == Link(View, c, a)
<1>1. /\ ~InCreate(t) /\ Enters(t) /\ job[t].step = "attach" /\ told' = told
  BY DEF AttachAlert, InCreate
<1>2. /\ DOMAIN job[t] = {"step", "req", "todo", "wrote"}
      /\ Known(c, db, adrift)
      /\ \A x \in job[t].wrote : /\ Kept(x, db, adrift) /\ x[1] # "state"
                                 /\ x[1] = "case" => x[2] = c
  BY <1>1 DEF StoreInv, JobOK
<1>3. CASE /\ Write(new, {w})
           /\ job' = [job EXCEPT ![t].todo = Tail(@), ![t].wrote = @ \cup {w}]
  <2> DEFINE k == [job[t] EXCEPT !.todo = Tail(job[t].todo)]
             j == [k EXCEPT !.wrote = k.wrote \cup {w}]
  <2>1. /\ DatabaseOK(new) /\ Covers(new, View)
        /\ new.cases = View.cases /\ new.links = View.links \cup {<<c, a>>}
    BY ViewOK, LinkKeeps
  <2>2. /\ DOMAIN k = DOMAIN job[t] /\ k.step = "attach" /\ k.wrote = job[t].wrote
        /\ k.req = job[t].req
    BY <1>1, <1>2
  <2>3. job' = [job EXCEPT ![t] = j]
    BY <1>2, <1>3 DEF StoreInv
  <2> HIDE DEF new
  <2>4. WriteOK(w) /\ Holds(new, w) /\ w[1] = "link"
    BY <2>1 DEF WriteOK, Holds
  <2> HIDE DEF w, k
  <2>5. /\ DatabaseOK(db') /\ Covers(db', db) /\ Drifts(adrift, adrift', db')
        /\ Kept(w, db', adrift')
    BY <1>1, <1>3, <2>1, <2>4, Alone, WriteMoves
  <2>6. DatabaseOK(db) /\ Covers(db', db')
    BY <2>5, CoversItself DEF StoreInv
  <2>7. /\ Known(c, db', adrift')
        /\ \A x \in job[t].wrote : Kept(x, db', adrift')
    BY <1>2, <2>5, <2>6, KeptLasts
  <2>8. /\ DOMAIN j = DOMAIN k /\ j.step = "attach" /\ j.req = job[t].req
        /\ j.wrote = job[t].wrote \cup {w}
    BY <1>2, <2>2
  <2> HIDE DEF j
  <2>9. JobOK(j, db', View', adrift')
    BY <1>2, <2>2, <2>4, <2>5, <2>7, <2>8 DEF JobOK
  <2>10. \A l \in new.links \ View.links : Known(l[1], db, adrift)
    BY <1>2, <2>1
  <2>11. DOMAIN new.cases = DOMAIN View.cases
    BY <2>1
  <2>12. QED
    BY <1>1, <1>3, <2>1, <2>3, <2>8, <2>9, <2>10, <2>11, OutsideWrites
<1>4. CASE Fails("attach") /\ Answer(t) /\ UNCHANGED adrift
  BY <1>1, <1>4, GivesUp DEF Fails
<1>5. QED
  BY <1>3, <1>4 DEF AttachAlert

LEMMA AttachedKeeps ==
  ASSUME StoreInv, NEW t \in Thread, Attached(t)
  PROVE  KeepsStore
<1> DEFINE r == job[t].req
           wrote == job[t].wrote
           j == [step |-> "read", req |-> r, todo |-> Queries("case"),
                 seen |-> <<>>, wrote |-> wrote]
<1>1. /\ ~InCreate(t) /\ job[t].step = "attach"
      /\ db' = db /\ tx' = tx /\ writer' = writer /\ told' = told
      /\ stuck' = stuck /\ adrift' = adrift
      /\ mu' = IF mu = t THEN NoThread ELSE mu
      /\ job' = [job EXCEPT ![t] = j] /\ j.step = "read" /\ j.seen = <<>>
  BY DEF Attached, InCreate, ReadBack
<1>2. \A w \in wrote : /\ Kept(w, db, adrift) /\ w[1] # "state"
                       /\ w[1] = "case" => w[2] = r.id
  BY <1>1 DEF StoreInv, JobOK
<1>3. JobOK(j, db, View, adrift)
  <2> HIDE DEF r, wrote
  <2>1. QED
    BY <1>2, ReadBackOK
<1> HIDE DEF j
<1>4. QED
  BY <1>1, <1>3, NewJobKeeps

\* The first row that is read back shows what was written, or it drifts.
LEMMA RowShowsTheWrite ==
  ASSUME StoreInv, NEW w, Kept(w, db, adrift), w \notin adrift, NEW q, NEW r,
         w[1] \in {"state", "case"}, r.id = w[2],
         w[1] = "state" => q = "alert", w[1] = "case" => q = "case",
         Select(q, View, r) # <<>>
  PROVE  Select(q, View, r)[3] >= w[3]
<1>1. WriteOK(w) /\ Holds(db, w)
  BY DEF Kept
<1>2. Holds(View, w)
  BY <1>1, ViewOK, HoldsOn DEF StoreInv
<1>3. CASE w[1] = "state"
  <2>1. Select(q, View, r) = AlertRow(View, r.id)
    BY <1>3 DEF Select
  <2>2. AlertRow(View, r.id)[3] = VersionOf(View, r.id)
    BY <2>1 DEF AlertRow
  <2>3. VersionOf(View, w[2]) >= w[3]
    BY <1>2, <1>3 DEF Holds
  <2>4. QED
    BY <2>1, <2>2, <2>3
<1>4. CASE w[1] = "case"
  <2>1. Select(q, View, r) = CaseRow(View, r.id)
    BY <1>4 DEF Select
  <2>2. CaseRow(View, r.id)[3] = View.cases[r.id].version
    BY <2>1 DEF CaseRow
  <2>3. View.cases[w[2]].version >= w[3]
    BY <1>2, <1>4 DEF Holds
  <2>4. QED
    BY <2>1, <2>2, <2>3
<1>5. QED
  BY <1>3, <1>4

LEMMA Appended ==
  ASSUME NEW S, NEW s \in Seq(S), NEW x
  PROVE  /\ Append(s, x) \in Seq(S \cup {x}) /\ Append(s, x) # <<>>
         /\ s # <<>> => Head(Append(s, x)) = Head(s)
         /\ s = <<>> => Head(Append(s, x)) = x /\ Last(Append(s, x)) = x
<1>1. s \in Seq(S \cup {x}) /\ x \in S \cup {x} /\ Len(s) \in Nat
  OBVIOUS
<1>2. Append(s, x) \in Seq(S \cup {x}) /\ Len(Append(s, x)) = Len(s) + 1
  BY <1>1
<1>3. Append(s, x) # <<>>
  BY <1>1, <1>2
<1>4. s # <<>> => Head(Append(s, x)) = Head(s)
  BY <1>1
<1>5. s = <<>> => Head(Append(s, x)) = x /\ Last(Append(s, x)) = x
  BY DEF Last
<1>6. QED
  BY <1>2, <1>3, <1>4, <1>5

LEMMA ReadKeeps ==
  ASSUME StoreInv, NEW t \in Thread, Read(t)
  PROVE  KeepsStore
<1> DEFINE row == Select(Head(job[t].todo), View, job[t].req)
           seen == Append(job[t].seen, row)
<1>1. /\ ~InCreate(t) /\ Enters(t) /\ job[t].step = "read"
      /\ db' = db /\ tx' = tx /\ writer' = writer
      /\ stuck' = stuck /\ adrift' = adrift /\ mu' \in {t, NoThread}
  BY DEF Read, InCreate
<1>2. /\ DOMAIN job[t] = {"step", "req", "todo", "seen", "wrote"}
      /\ \A w \in job[t].wrote : Kept(w, db, adrift)
      /\ JobOK(job[t], db, View, adrift)
  BY <1>1 DEF StoreInv, JobOK
<1>3. \/ /\ Last(seen) # <<>>
         /\ job' = [job EXCEPT ![t].seen = seen, ![t].todo = Tail(@)]
         /\ told' = told /\ mu' = t
      \/ told' = told \cup job[t].wrote /\ Answer(t)
  BY DEF Read
<1>4. CASE /\ Last(seen) # <<>>
           /\ job' = [job EXCEPT ![t].seen = seen, ![t].todo = Tail(@)]
           /\ told' = told /\ mu' = t
  <2> DEFINE k == [job[t] EXCEPT !.seen = seen]
             j == [k EXCEPT !.todo = Tail(k.todo)]
  <2>1. PICK S : job[t].seen \in Seq(S)
    BY <1>1, <1>2 DEF JobOK
  <2>2. /\ seen \in Seq(S \cup {row}) /\ seen # <<>>
        /\ job[t].seen # <<>> => Head(seen) = Head(job[t].seen)
        /\ job[t].seen = <<>> => Head(seen) = row /\ row # <<>>
    <3> HIDE DEF row, k, j
    <3>1. /\ seen \in Seq(S \cup {row}) /\ seen # <<>>
          /\ job[t].seen # <<>> => Head(seen) = Head(job[t].seen)
          /\ job[t].seen = <<>> => Head(seen) = row /\ Last(seen) = row
      BY <2>1, Appended
    <3>2. QED
      BY <1>4, <3>1
  <2> HIDE DEF seen
  <2>3. /\ DOMAIN k = DOMAIN job[t] /\ k.step = "read" /\ k.wrote = job[t].wrote
        /\ k.todo = job[t].todo /\ k.seen = seen
    BY <1>1, <1>2
  <2>4. job' = [job EXCEPT ![t] = j]
    BY <1>2, <1>4, <2>3 DEF StoreInv
  <2> HIDE DEF k
  <2>5. /\ DOMAIN j = DOMAIN k /\ j.step = "read" /\ j.wrote = job[t].wrote
        /\ j.seen = seen
    BY <1>2, <2>3
  <2>6. ASSUME NEW w \in job[t].wrote \ adrift, w[1] \in {"state", "case"}
        PROVE  Head(seen)[3] >= w[3]
    <3>1. CASE job[t].seen # <<>>
      BY <1>1, <1>2, <2>2, <2>6, <3>1 DEF JobOK
    <3>2. CASE job[t].seen = <<>>
      <4>1. /\ w[1] = "state" => Head(job[t].todo) = "alert"
            /\ w[1] = "case" => Head(job[t].todo) = "case"
            /\ job[t].req.id = w[2] /\ Kept(w, db, adrift)
        BY <1>1, <1>2, <2>6, <3>2 DEF JobOK
      <4>2. row # <<>> /\ Head(seen) = row
        BY <2>2, <3>2
      <4>3. row[3] >= w[3]
        BY <2>6, <4>1, <4>2, RowShowsTheWrite
      <4>4. QED
        BY <4>2, <4>3
    <3>3. QED
      BY <3>1, <3>2
  <2> HIDE DEF j
  <2>7. JobOK(j, db, View, adrift)
    BY <1>2, <2>2, <2>3, <2>5, <2>6 DEF JobOK
  <2>8. QED
    BY <1>1, <1>4, <2>4, <2>5, <2>7, NewJobKeeps
<1>5. CASE told' = told \cup job[t].wrote /\ Answer(t)
  BY <1>1, <1>2, <1>5, IdleOK, NewJobKeeps DEF Answer
<1>6. QED
  BY <1>3, <1>4, <1>5

-----------------------------------------------------------------------------
\* The rebuild and the deaths.
LEMMA RebuildKeeps ==
  ASSUME StoreInv, RebuildBegins \/ RebuildCommits \/ RebuildDies
  PROVE  KeepsStore
<1>1. /\ tx' = tx /\ mu' = mu /\ job' = job /\ told' = told
      /\ stuck' = stuck /\ adrift' = adrift
      /\ writer # "api" /\ writer' \in {"free", "rebuild"}
  BY DEF RebuildBegins, RebuildCommits, RebuildDies
<1>2. tx = NoTx /\ View = db /\ View' = db'
  BY <1>1 DEF StoreInv, MutexInv, View
<1>3. \/ db' = db
      \/ \E run \in Run : db' = [db EXCEPT !.run = run]
  BY DEF RebuildBegins, RebuildCommits, RebuildDies
<1>4. /\ DOMAIN db' = DOMAIN db /\ db'.run \in Run /\ db'.state = db.state
      /\ db'.cases = db.cases /\ db'.links = db.links
  BY <1>3 DEF StoreInv, DatabaseOK
<1>5. DatabaseOK(db) /\ DatabaseOK(db') /\ Covers(db', db) /\ Covers(db', db')
  <2>1. DatabaseOK(db') /\ DatabaseOK(db)
    BY <1>4 DEF StoreInv, DatabaseOK
  <2>2. Covers(db', db)
    BY <1>4, <2>1, CoversItself DEF Covers, HasCase
  <2>3. QED
    BY <2>1, <2>2, CoversItself
<1>6. Drifts(adrift, adrift', db')
  BY <1>1 DEF Drifts
<1>7. \A t \in Thread : JobOK(job'[t], db', View', adrift')
  BY <1>1, <1>2, <1>5, <1>6, JobLasts DEF StoreInv
<1>8. \A w \in told' : Kept(w, db', adrift')
  BY <1>1, <1>5, <1>6, KeptLasts DEF StoreInv
<1>9. MutexInv'
  BY <1>1, <1>2 DEF StoreInv, MutexInv, InCreate, InRead
<1>10. LinksInv'
  BY <1>1, <1>2, <1>4 DEF StoreInv, LinksInv, LinksOK, Known, HasCase
<1>11. QED
  BY <1>1, <1>5, <1>7, <1>8, <1>9, <1>10 DEF StoreInv, KeepsStore

LEMMA ServerRestartsKeeps ==
  ASSUME StoreInv, ServerRestarts
  PROVE  KeepsStore
<1>1. /\ db' = db /\ told' = told /\ adrift' = adrift
      /\ job' = [t \in Thread |-> Idle]
      /\ tx' = NoTx /\ stuck' = FALSE /\ writer' \in {"free", "rebuild"}
  BY DEF ServerRestarts, RollBack, StoreInv, MutexInv
<1>2. View' = db /\ Covers(db', db)
  BY <1>1, CoversItself DEF View, StoreInv
<1>3. \A t \in Thread : JobOK(job'[t], db', View', adrift')
  BY <1>1, IdleOK
<1>4. MutexInv'
  BY <1>1, IdleOK DEF MutexInv, InCreate, InRead
<1>5. LinksInv'
  BY <1>1, <1>2 DEF StoreInv, LinksInv, Known, HasCase
<1>6. QED
  BY <1>1, <1>2, <1>3, <1>4, <1>5 DEF StoreInv, KeepsStore

-----------------------------------------------------------------------------
LEMMA StoreInvInitially == StoreInit => StoreInv
<1> SUFFICES ASSUME StoreInit PROVE StoreInv
  OBVIOUS
<1>1. PICK run \in Run : db = EmptyStore(run)
  BY DEF StoreInit
<1>2. DatabaseOK(db) /\ View = db
  BY <1>1 DEF StoreInit, View, EmptyStore, DatabaseOK
<1>3. \A t \in Thread : JobOK(job[t], db, View, adrift)
  BY IdleOK DEF StoreInit
<1>4. MutexInv
  BY IdleOK DEF StoreInit, MutexInv, InCreate, InRead
<1>5. LinksInv
  BY <1>1, <1>2 DEF EmptyStore, LinksInv, LinksOK
<1>6. QED
  BY <1>2, <1>3, <1>4, <1>5 DEF StoreInit, StoreInv

LEMMA StoreSteps ==
  ASSUME StoreInv, [StoreNext]_storeVars
  PROVE  KeepsStore
<1>1. ASSUME NEW t \in Thread,
             \/ Receive(t) \/ SetAlertState(t)
             \/ BeginCase(t) \/ InsertCase(t) \/ InsertCaseFails(t)
             \/ LinkCase(t) \/ CommitCase(t) \/ CommitCaseFails(t)
             \/ UpdateCase(t) \/ AttachAlert(t) \/ Attached(t) \/ Read(t)
      PROVE  KeepsStore
  BY <1>1, ReceiveKeeps, SetAlertStateKeeps, BeginCaseKeeps, InsertCaseKeeps,
     InsertCaseFailsKeeps, LinkCaseKeeps, CommitCaseKeeps, UpdateCaseKeeps,
     AttachAlertKeeps, AttachedKeeps, ReadKeeps
<1>2. CASE UNCHANGED storeVars
  <2>1. Covers(db', db)
    BY <1>2, CoversItself DEF storeVars, StoreInv
  <2>2. QED
    BY <1>2, <2>1 DEF storeVars, StoreInv, MutexInv, LinksInv, InCreate, InRead, View,
                      KeepsStore
<1>3. QED
  BY <1>1, <1>2, RebuildKeeps, ServerRestartsKeeps DEF StoreNext

\* The inductive invariant of the store.
THEOREM StoreInvariant == StoreSpec => []StoreInv
<1>1. StoreInv /\ [StoreNext]_storeVars => StoreInv'
  BY StoreSteps DEF KeepsStore
<1>2. QED
  BY <1>1, StoreInvInitially, PTL DEF StoreSpec

(***************************************************************************)
(* Nothing analysts wrote leaves the database again, whatever is rebuilt,  *)
(* rolled back or restarted.                                               *)
(***************************************************************************)
THEOREM CommittedWorkStaysCorrect == StoreSpec => CommittedWorkStays
<1>1. StoreInv /\ [StoreNext]_storeVars => [Covers(db', db)]_storeVars
  BY StoreSteps DEF KeepsStore
<1>2. QED
  BY <1>1, StoreInvariant, PTL DEF StoreSpec, CommittedWorkStays

(***************************************************************************)
(* No link dangles but of a case that was lost in its creation, whichever  *)
(* statement fails and wherever a process dies, for any number of threads  *)
(* and any requests.                                                       *)
(***************************************************************************)
THEOREM LinksHaveTheirCaseCorrect == StoreSpec => []LinksHaveTheirCase
<1>1. StoreInv => LinksHaveTheirCase
  BY DEF StoreInv, LinksInv, LinksOK, Known, LinksHaveTheirCase
<1>2. QED
  BY <1>1, StoreInvariant, PTL

(***************************************************************************)
(* A write an analyst was told is stored is in the database ever after,    *)
(* unless it went into a transaction whose end nobody looked at: a COMMIT  *)
(* that failed, or a link that took the transaction with it.               *)
(***************************************************************************)
THEOREM AnsweredWritesLastCorrect == StoreSpec => []AnsweredWritesLast
<1>1. StoreInv => AnsweredWritesLast
  BY DEF StoreInv, Kept, AnsweredWritesLast
<1>2. QED
  BY <1>1, StoreInvariant, PTL

(***************************************************************************)
(* The row a POST answers with shows what the request wrote or something   *)
(* later, with the same exception.                                         *)
(***************************************************************************)
THEOREM AnswersShowTheWriteCorrect == StoreSpec => []AnswersShowTheWrite
<1>1. StoreInv => AnswersShowTheWrite
  BY DEF StoreInv, JobOK, AnswersShowTheWrite
<1>2. QED
  BY <1>1, StoreInvariant, PTL

(***************************************************************************)
(* The server holds the write lock only inside create_case, or after a     *)
(* COMMIT that failed.                                                     *)
(***************************************************************************)
THEOREM NoLockLeftBehindCorrect == StoreSpec => []NoLockLeftBehind
<1>1. StoreInv => NoLockLeftBehind
  BY DEF StoreInv, MutexInv, InCreate, NoLockLeftBehind
<1>2. QED
  BY <1>1, StoreInvariant, PTL
=============================================================================
