----------------------------- MODULE TriageStore -----------------------------
(***************************************************************************)
(* The triage store and the API server in front of it: class Store of      *)
(* store.hpp / store.cpp and the handlers of api_main.cpp, together with   *)
(* the two things that move the database under them, the rebuild by        *)
(* python/eval/store.py and the death of a process.                        *)
(*                                                                         *)
(* The server answers from a pool of threads over one SQLite connection.   *)
(* A Store method holds the store's mutex from its first statement to its  *)
(* last; a statement is a step.  Outside a transaction each statement      *)
(* commits on its own, and a SELECT sees what is committed when it starts. *)
(*                                                                         *)
(* The derived tables (alerts, episodes, participants, meta) are written   *)
(* only by the rebuild, in one transaction, so they are one value: which   *)
(* detection run they were built from.                                     *)
(*                                                                         *)
(* A statement that fails leaves nothing of itself behind.  What becomes   *)
(* of the transaction it was part of is SQLite's to say, by the kind of    *)
(* error: it stays open, or it is rolled back.                             *)
(***************************************************************************)
EXTENDS Integers, Sequences, FiniteSets, SequencesExt

CONSTANTS
  Thread,        \* the threads of the server's pool
  Run,           \* detection runs the store can be built from
  AlertsOf(_),   \* the alerts of a run: alert id -> rank in the queue
  Request,       \* the requests analysts send
  FaultyKinds,   \* statements that may fail: "state", "insert", "commit", ...
  SlowRebuild,   \* may a rebuild outlast the busy timeout?
  MaxRequests, MaxRebuilds, MaxCrashes     \* bounds

ASSUME SlowRebuildAssumption == SlowRebuild \in BOOLEAN
ASSUME BoundsAssumption ==
  MaxRequests \in Nat /\ MaxRebuilds \in Nat /\ MaxCrashes \in Nat
\* What the handlers read out of a body once it has been parsed.
ASSUME RequestAssumption ==
  \A r \in Request :
    /\ r.kind \in {"state", "update"} => r.id \in Int /\ r.status \in STRING
    /\ r.kind \in {"create", "update"} => r.ids \in Seq(Int)
ASSUME ThreadAssumption == "none" \notin Thread
\* alert_id is the key of a table, and so a number and one of finitely many.
ASSUME AlertsAssumption ==
  \A r \in Run : DOMAIN AlertsOf(r) \subseteq Int /\ IsFiniteSet(DOMAIN AlertsOf(r))

VARIABLES
  db,        \* the committed database
  tx,        \* what the connection's open transaction would commit, or NoTx
  writer,    \* who holds SQLite's write lock: Free, "api" or "rebuild"
  mu,        \* mu_: the thread inside a Store method, or NoThread
  job,       \* each thread's request and how far it has got
  stuck,     \* the open transaction is one whose COMMIT failed
  told,      \* history: the writes analysts were told are stored
  adrift,    \* history: the writes that are not in the database, because SQLite
             \* said so only in the result of a COMMIT or of a case's link
  requests, rebuilds, crashes              \* how many there have been

storeVars == <<db, tx, writer, mu, job, stuck, told, adrift, requests, rebuilds, crashes>>

NoTx == <<>>
Free == "free"
NoThread == "none"
Idle == [step |-> "idle"]

Statuses == {"open", "reviewing", "closed"}

-----------------------------------------------------------------------------
\* The tables.  An analyst's word on an alert counts how often it was given
\* (`version`); a case remembers the alerts it was asked for; a link is a row
\* of case_alerts.  Case ids are AUTOINCREMENT and no case is ever deleted, so
\* an id is a position.

EmptyStore(run) ==
  [run |-> run, state |-> <<>>, cases |-> <<>>, links |-> {}]

\* What the connection reads and writes: its own transaction, if one is open.
View == IF tx = NoTx THEN db ELSE tx

StatusOf(v, a) == IF a \in DOMAIN v.state THEN v.state[a].status ELSE "open"

VersionOf(v, a) == IF a \in DOMAIN v.state THEN v.state[a].version ELSE 0

\* Mutant of SaveState: ON CONFLICT DO NOTHING.
SaveStateOnce(v, a, status) ==
  IF a \in DOMAIN v.state THEN v
  ELSE [v EXCEPT !.state = [b \in DOMAIN v.state \cup {a} |->
          IF b = a THEN [status |-> status, version |-> 1] ELSE v.state[b]]]

\* The upsert of set_alert_state: whatever an earlier analyst wrote is replaced.
SaveState(v, a, status) ==
  [v EXCEPT !.state = [b \in DOMAIN v.state \cup {a} |->
     IF b = a THEN [status |-> status, version |-> VersionOf(v, a) + 1]
              ELSE v.state[b]]]

SaveCase(v, asked) ==
  [v EXCEPT !.cases = Append(@, [status |-> "open", version |-> 1, asked |-> asked])]

HasCase(v, c) == c \in DOMAIN v.cases

\* UPDATE cases: an empty value keeps the old one.
ChangeCase(v, c, status) ==
  LET row == v.cases[c] IN
  [v EXCEPT !.cases[c] = [row EXCEPT !.version = row.version + 1,
                                     !.status = IF status = "" THEN row.status ELSE status]]

\* INSERT OR IGNORE; the schema declares no foreign keys, so any pair will do.
Link(v, c, a) == [v EXCEPT !.links = @ \cup {<<c, a>>}]

\* The alerts of a queue that stand above one of them: by rank, and among
\* equals in the order of the table.
Above(alerts, wanted, a) ==
  {b \in wanted : alerts[b] > alerts[a] \/ (alerts[b] = alerts[a] /\ b < a)}

\* alerts_json: the alerts that pass the filter, best first, one page of them.
Queue(v, f) ==
  LET alerts == AlertsOf(v.run)
      wanted == {a \in DOMAIN alerts :
                   /\ f.status # "" => StatusOf(v, a) = f.status
                   /\ f.hide_closed => StatusOf(v, a) # "closed"}
      ranked == [k \in 1 .. Cardinality(wanted) |->
                   CHOOSE a \in wanted : Cardinality(Above(alerts, wanted, a)) = k - 1]
  IN SubSeq(ranked, f.offset + 1,
            IF f.offset + f.limit < Len(ranked) THEN f.offset + f.limit ELSE Len(ranked))

\* summary_json: the alerts nobody has taken up yet.
OpenCount(v) ==
  Cardinality({a \in DOMAIN AlertsOf(v.run) : StatusOf(v, a) = "open"})

\* alert_json: nothing at all if the alert is not in the store.
AlertRow(v, a) ==
  IF a \in DOMAIN AlertsOf(v.run)
    THEN <<AlertsOf(v.run)[a], StatusOf(v, a), VersionOf(v, a)>> ELSE <<>>

\* The cases an alert is in, as alert_json lists them.
CasesOf(v, a) == {c \in DOMAIN v.cases : <<c, a>> \in v.links}

CaseRow(v, c) ==
  IF HasCase(v, c) THEN <<c, v.cases[c].status, v.cases[c].version>> ELSE <<>>

\* case_json joins the alerts: a link to an alert that is gone does not show.
CaseAlerts(v, c) ==
  {a \in DOMAIN AlertsOf(v.run) : <<c, a>> \in v.links}

\* cases_json counts the links, newest case first.
CaseList(v) ==
  Reverse([c \in DOMAIN v.cases |->
             <<c, v.cases[c].status, Cardinality({l \in v.links : l[1] = c})>>])

\* participants_json and by_detector: the derived tables alone.
Derived(v) == <<v.run, Cardinality(DOMAIN AlertsOf(v.run))>>

\* The SELECTs a reading method runs, one after the other.
Queries(kind) ==
  CASE kind = "summary"      -> <<"derived", "open", "cases", "derived">>
    [] kind = "alerts"       -> <<"queue">>
    [] kind = "alert"        -> <<"alert", "derived", "casesof">>
    [] kind = "participants" -> <<"derived">>
    [] kind = "cases"        -> <<"caselist">>
    [] kind = "case"         -> <<"case", "casealerts">>

Select(q, v, r) ==
  CASE q = "derived"    -> Derived(v)
    [] q = "open"       -> <<OpenCount(v)>>
    [] q = "cases"      -> <<Len(v.cases)>>
    [] q = "queue"      -> Queue(v, r.filter)
    [] q = "alert"      -> AlertRow(v, r.id)
    [] q = "casesof"    -> CasesOf(v, r.id)
    [] q = "caselist"   -> CaseList(v)
    [] q = "case"       -> CaseRow(v, r.id)
    [] q = "casealerts" -> CaseAlerts(v, r.id)

\* The write w, as a request remembers it, is in the database d: the word on an
\* alert or the version of a case, or a later one; a link of a case.
Holds(d, w) ==
  CASE w[1] = "state" -> VersionOf(d, w[2]) >= w[3]
    [] w[1] = "case"  -> HasCase(d, w[2]) /\ d.cases[w[2]].version >= w[3]
    [] w[1] = "link"  -> <<w[2], w[3]>> \in d.links

-----------------------------------------------------------------------------
\* The handlers.

StoreInit ==
  /\ \E run \in Run : db = EmptyStore(run)
  /\ tx = NoTx
  /\ writer = Free
  /\ mu = NoThread
  /\ job = [t \in Thread |-> Idle]
  /\ stuck = FALSE
  /\ told = {}
  /\ adrift = {}
  /\ requests = 0
  /\ rebuilds = 0
  /\ crashes = 0

counters == <<requests, rebuilds, crashes>>

Enters(t) == mu \in {NoThread, t}

\* The thread goes on to the reading method `kind` about `id`; `wrote` is what
\* the request has stored, to be acknowledged by the answer.
ReadBack(t, kind, r, wrote) ==
  job' = [job EXCEPT ![t] = [step |-> "read", req |-> r, todo |-> Queries(kind),
                             seen |-> <<>>, wrote |-> wrote]]

\* The request is answered: 200 or 201, or a problem (404, 422, 500).
Answer(t) == job' = [job EXCEPT ![t] = Idle]

\* The request is parsed and checked; a bad one is answered at once.
Receive(t) ==
  /\ job[t].step = "idle"
  /\ requests < MaxRequests
  /\ requests' = requests + 1
  /\ \E r \in Request :
       IF \/ r.kind = "state" /\ r.status \notin Statuses
          \/ r.kind = "create" /\ r.title = ""
         THEN Answer(t)
       ELSE IF r.kind \in {"state", "create", "update"}
         THEN job' = [job EXCEPT ![t] = [step |-> r.kind, req |-> r]]
       ELSE ReadBack(t, r.kind, r, {})
  /\ UNCHANGED <<db, tx, writer, mu, stuck, told, adrift, rebuilds, crashes>>

\* A statement writes into the open transaction or commits by itself, for
\* which nobody else may hold the write lock.
MayWrite == tx # NoTx \/ writer = Free

\* The database becomes or will become `new`.  What the request is about to
\* report, `wrote`, is adrift if the COMMIT it would have needed is past.
Write(new, wrote) ==
  /\ IF tx # NoTx THEN tx' = new /\ UNCHANGED db ELSE db' = new /\ UNCHANGED tx
  /\ adrift' = {w \in adrift \cup IF stuck THEN wrote ELSE {} : ~Holds(db', w)}
  /\ UNCHANGED <<writer, stuck>>

\* Mutant of RollBack: the early return leaves the transaction open.
RollBackForgotten == UNCHANGED <<tx, writer, stuck>>

RollBack ==
  /\ tx' = NoTx
  /\ writer' = IF writer = "api" THEN Free ELSE writer
  /\ stuck' = FALSE

\* A statement does not go through: the lock was not given up within the busy
\* timeout, or the file could not be written.
Fails(kind) ==
  /\ \/ ~MayWrite /\ SlowRebuild
     \/ MayWrite /\ kind \in FaultyKinds
  /\ RollBack \/ UNCHANGED <<tx, writer, stuck>>
  /\ UNCHANGED db

\* POST alerts/<id>/state: set_alert_state; the answer is read back afterwards.
SetAlertState(t) ==
  LET r == job[t].req
      w == <<"state", r.id, VersionOf(View, r.id) + 1>> IN
  /\ job[t].step = "state"
  /\ Enters(t)
  /\ \/ /\ MayWrite
        /\ Write(SaveState(View, r.id, r.status), {w})
        /\ ReadBack(t, "alert", r, {w})
     \/ /\ Fails("state")
        /\ Answer(t)
        /\ UNCHANGED adrift
  /\ UNCHANGED <<mu, told, counters>>

\* create_case: BEGIN IMMEDIATE, whose result is not looked at.
BeginCase(t) ==
  /\ job[t].step = "create"
  /\ Enters(t)
  /\ mu' = t
  /\ job' = [job EXCEPT ![t].step = "insert"]
  /\ IF tx = NoTx /\ writer = Free
       THEN tx' = db /\ writer' = "api"
       ELSE (tx # NoTx \/ SlowRebuild) /\ UNCHANGED <<tx, writer>>
  /\ UNCHANGED <<db, stuck, told, adrift, counters>>

\* The case's row; last_insert_rowid is its id.
InsertCase(t) ==
  LET r == job[t].req IN
  /\ job[t].step = "insert"
  /\ MayWrite
  /\ Write(SaveCase(View, ToSet(r.ids)), {})
  /\ job' = [job EXCEPT ![t] = [step |-> "link", req |-> r, case |-> Len(View.cases) + 1,
                                todo |-> r.ids]]
  /\ UNCHANGED <<mu, told, counters>>

\* The row could not be written: ROLLBACK, and the analyst is told.
InsertCaseFails(t) ==
  /\ job[t].step = "insert"
  /\ Fails("insert")
  /\ RollBack
  /\ mu' = NoThread
  /\ Answer(t)
  /\ UNCHANGED <<told, adrift, counters>>

\* One alert of the case.  The result of the step is not looked at: if the
\* transaction went with it, the case is gone and nobody has noticed.
LinkCase(t) ==
  LET j == job[t] IN
  /\ j.step = "link"
  /\ j.todo # <<>>
  /\ \/ MayWrite /\ Write(Link(View, j.case, Head(j.todo)), {})
     \/ /\ Fails("link")
        /\ adrift' = IF tx' = tx THEN adrift ELSE adrift \cup {<<"case", j.case, 1>>}
  /\ job' = [job EXCEPT ![t].todo = Tail(@)]
  /\ UNCHANGED <<mu, told, counters>>

\* The method returns the id, and the handler reads the case back.
Created(t) ==
  LET c == job[t].case IN
  /\ mu' = NoThread
  /\ ReadBack(t, "case", [id |-> c], {<<"case", c, 1>>})
  /\ UNCHANGED <<told, counters>>

\* COMMIT; without a transaction it does nothing.
CommitCase(t) ==
  /\ job[t].step = "link"
  /\ job[t].todo = <<>>
  /\ db' = View
  /\ RollBack
  /\ adrift' = {w \in adrift : ~Holds(db', w)}
  /\ Created(t)

\* The COMMIT does not go through.  Its result is not looked at either: the
\* transaction is gone, or is left for whatever the connection does next.
CommitCaseFails(t) ==
  /\ job[t].step = "link"
  /\ job[t].todo = <<>>
  /\ tx # NoTx
  /\ "commit" \in FaultyKinds
  /\ \/ stuck' = TRUE /\ UNCHANGED <<tx, writer>>
     \/ RollBack
  /\ adrift' = adrift \cup {<<"case", job[t].case, 1>>}
  /\ Created(t)
  /\ UNCHANGED db

Attaching(t, r, wrote) ==
  job' = [job EXCEPT ![t] = [step |-> "attach", req |-> r, todo |-> r.ids, wrote |-> wrote]]

\* Mutant of UpdateCase: the alerts are attached whether the case is there or not.
UpdateCaseUnseen(t) ==
  LET r == job[t].req IN
  /\ job[t].step = "update"
  /\ Enters(t)
  /\ MayWrite
  /\ Write(IF HasCase(View, r.id) THEN ChangeCase(View, r.id, r.status) ELSE View, {})
  /\ Attaching(t, r, {})
  /\ UNCHANGED <<mu, told, counters>>

\* POST cases/<id>: update_case; no row changed and no error is a 404.
UpdateCase(t) ==
  LET r == job[t].req
      w == <<"case", r.id, View.cases[r.id].version + 1>> IN
  /\ job[t].step = "update"
  /\ Enters(t)
  /\ \/ /\ MayWrite
        /\ HasCase(View, r.id)
        /\ Write(ChangeCase(View, r.id, r.status), {w})
        /\ Attaching(t, r, {w})
     \/ /\ MayWrite
        /\ ~HasCase(View, r.id)
        /\ Answer(t)
        /\ UNCHANGED <<db, tx, writer, stuck, adrift>>
     \/ /\ Fails("update")
        /\ Answer(t)
        /\ UNCHANGED adrift
  /\ UNCHANGED <<mu, told, counters>>

\* attach_alerts: each link commits by itself; the first failure ends it.
AttachAlert(t) ==
  LET j == job[t]
      w == <<"link", j.req.id, Head(j.todo)>> IN
  /\ j.step = "attach"
  /\ j.todo # <<>>
  /\ Enters(t)
  /\ \/ /\ MayWrite
        /\ Write(Link(View, j.req.id, Head(j.todo)), {w})
        /\ mu' = t
        /\ job' = [job EXCEPT ![t].todo = Tail(@), ![t].wrote = @ \cup {w}]
     \/ /\ Fails("attach")
        /\ mu' = NoThread
        /\ Answer(t)
        /\ UNCHANGED adrift
  /\ UNCHANGED <<told, counters>>

\* All alerts are attached: the method returns and the case is read back.
Attached(t) ==
  LET j == job[t] IN
  /\ j.step = "attach"
  /\ j.todo = <<>>
  /\ mu' = IF mu = t THEN NoThread ELSE mu
  /\ ReadBack(t, "case", j.req, j.wrote)
  /\ UNCHANGED <<db, tx, writer, stuck, told, adrift, counters>>

\* The next SELECT of a reading method; it stops at a row that is not there.
\* After the last one the analyst has the answer, and knows the write is stored.
Read(t) ==
  LET j    == job[t]
      seen == Append(j.seen, Select(Head(j.todo), View, j.req)) IN
  /\ j.step = "read"
  /\ Enters(t)
  /\ IF Tail(j.todo) # <<>> /\ Last(seen) # <<>>
       THEN /\ mu' = t
            /\ job' = [job EXCEPT ![t].seen = seen, ![t].todo = Tail(@)]
            /\ UNCHANGED told
       ELSE /\ mu' = NoThread
            /\ told' = told \cup j.wrote
            /\ Answer(t)
  /\ UNCHANGED <<db, tx, writer, stuck, adrift, counters>>

-----------------------------------------------------------------------------
\* The rebuild's first DELETE takes the write lock...
RebuildBegins ==
  /\ writer = Free
  /\ rebuilds < MaxRebuilds
  /\ writer' = "rebuild"
  /\ rebuilds' = rebuilds + 1
  /\ UNCHANGED <<db, tx, mu, job, stuck, told, adrift, requests, crashes>>

\* Mutant of RebuildCommits: the tables are dropped and made anew, all of them.
RebuildForgets ==
  /\ writer = "rebuild"
  /\ \E run \in Run : db' = EmptyStore(run)
  /\ writer' = Free
  /\ UNCHANGED <<tx, mu, job, stuck, told, adrift, counters>>

\* ...and its commit replaces the derived tables and no others.
RebuildCommits ==
  /\ writer = "rebuild"
  /\ \E run \in Run : db' = [db EXCEPT !.run = run]
  /\ writer' = Free
  /\ UNCHANGED <<tx, mu, job, stuck, told, adrift, counters>>

\* The rebuild dies: its transaction is rolled back.
RebuildDies ==
  /\ writer = "rebuild"
  /\ crashes < MaxCrashes
  /\ crashes' = crashes + 1
  /\ writer' = Free
  /\ UNCHANGED <<db, tx, mu, job, stuck, told, adrift, requests, rebuilds>>

\* The server dies and is started again: what was not committed is gone.
ServerRestarts ==
  /\ crashes < MaxCrashes
  /\ crashes' = crashes + 1
  /\ RollBack
  /\ mu' = NoThread
  /\ job' = [t \in Thread |-> Idle]
  /\ UNCHANGED <<db, told, adrift, requests, rebuilds>>

StoreNext ==
  \/ \E t \in Thread :
       \/ Receive(t)
       \/ SetAlertState(t)
       \/ BeginCase(t) \/ InsertCase(t) \/ InsertCaseFails(t)
       \/ LinkCase(t) \/ CommitCase(t) \/ CommitCaseFails(t)
       \/ UpdateCase(t) \/ AttachAlert(t) \/ Attached(t)
       \/ Read(t)
  \/ RebuildBegins \/ RebuildCommits \/ RebuildDies
  \/ ServerRestarts

StoreSpec == StoreInit /\ [][StoreNext]_storeVars

-----------------------------------------------------------------------------
(***************************************************************************)
(* What an analyst was told is stored stays stored: the word on an alert   *)
(* (or a later one), the case, the links, through rebuilds of the store,   *)
(* failed writes of other requests and deaths of the server (store.hpp:6-9,*)
(* "without destroying somebody's triage work").  Excepted is what a       *)
(* creation of a case lost without looking: the case itself, and whatever  *)
(* was written into the transaction its failed COMMIT left open.           *)
(***************************************************************************)
AnsweredWritesLast == \A w \in told \ adrift : Holds(db, w)

(***************************************************************************)
(* No link dangles: the schema declares no foreign keys, so only the order *)
(* of the statements keeps case_alerts from naming a case that is not      *)
(* there, whichever statement fails and wherever the server dies.  Again   *)
(* but for a case whose creation was lost without a look: its alerts may   *)
(* be linked afterwards, by the rest of the creation or by an update that  *)
(* saw the case in the transaction left open.                              *)
(***************************************************************************)
LinksHaveTheirCase ==
  \A l \in db.links : HasCase(db, l[1]) \/ \E w \in adrift : w[1] = "case" /\ w[2] = l[1]

(***************************************************************************)
(* The row a POST answers with is read back under the lock a second time,  *)
(* after other requests and rebuilds may have come between, and shows what *)
(* the request wrote or something later (api_main.cpp:247, 276).           *)
(***************************************************************************)
AnswersShowTheWrite ==
  \A t \in Thread :
    job[t].step = "read" /\ job[t].seen # <<>> =>
      \A w \in job[t].wrote \ adrift :
        w[1] \in {"state", "case"} => Head(job[t].seen)[3] >= w[3]

(***************************************************************************)
(* No way out of create_case but a failed COMMIT leaves SQLite's write     *)
(* lock behind: the server holds it only while a thread is in there, so a  *)
(* rebuild waits for nothing else (store.cpp:467-498).                     *)
(***************************************************************************)
NoLockLeftBehind ==
  writer = "api" => stuck \/ \E t \in Thread : mu = t /\ job[t].step \in {"insert", "link"}

\* The database `new` has everything analysts wrote into `old`, or a later
\* version of it.
Covers(new, old) ==
  /\ \A a \in DOMAIN old.state :
       a \in DOMAIN new.state /\ new.state[a].version >= old.state[a].version
  /\ \A c \in DOMAIN old.cases :
       HasCase(new, c) /\ new.cases[c].version >= old.cases[c].version
  /\ old.links \subseteq new.links

(***************************************************************************)
(* No step takes back what is in the database: a rebuild "refreshes the    *)
(* alerts without destroying somebody's triage work" (store.hpp:6-9), and  *)
(* neither does a transaction that began before the rebuild and commits    *)
(* after it, or one left open.                                             *)
(***************************************************************************)
CommittedWorkStays == [][Covers(db', db)]_storeVars

(***************************************************************************)
(* The comment on mu_ (store.hpp:67-69) says that "an explicit lock makes  *)
(* the multi-statement case-creation path atomic too": once its creation   *)
(* is over, a case is in the database with all the alerts it was asked     *)
(* for, or it is not there at all.                                         *)
(***************************************************************************)
CasesAreWhole ==
  \A c \in DOMAIN db.cases :
    \/ \E t \in Thread : job[t].step = "link" /\ job[t].case = c
    \/ \A a \in db.cases[c].asked : <<c, a>> \in db.links
=============================================================================
