# Tapewatch: TLA+ models, checks and proofs

Tapewatch replays a recorded tape of market events through an engine that
rebuilds each symbol's order book, keeps sliding windows of recent activity and
lets four detectors raise surveillance alerts; a Python side generates tapes
with known manipulation in them and scores the alerts; a REST server and a web
console let analysts triage them. This directory holds TLA+ models of the
engine, its detectors, the replay and the triage store, the TLC runs that check
them and theorems about them checked by TLAPS. Paths below are relative to the repository.

- [1. The system](#1-the-system)
- [2. The modules](#2-the-modules)
- [3. The runs](#3-the-runs)
- [4. The proofs](#4-the-proofs)
- [5. Where code and comments disagree](#5-where-code-and-comments-disagree)
- [6. What is not modelled, and the plan](#6-what-is-not-modelled-and-the-plan)
- [7. Running it](#7-running-it)

## 1. The system

```
venue simulator -> feed damage -> tape.csv
                                    |
                                 parse_event
                                    |
        ReorderBuffer -> FeedGuard -> [scans due] -> BookState + 4 windows   (one thread)
                                         |
                                   4 detectors -> cooldown, damage marks -> alerts.jsonl
                                                                              |
                       truth.json ------------------------> match, score, sweep -> SQLite
                                                                                     |
                                                        REST API (8 threads) <-> console
```

| Component | State it keeps | Operations | What makes it correct | Modelled by |
|---|---|---|---|---|
| Venue and simulator (`python/generate/book.py`, `simulator.py`) | the matching book, a heap of scheduled actions, the clock | submit, cancel, reduce; place, take, amend, run | the tape is what the book did; the book never crosses | planned |
| Feed damage (`python/generate/defects.py`) | the tape | drop, skew, duplicate, transpose | no line moves twice, duplicates are exact copies | `TapeDefects` |
| Reorder buffer (`src/validation/feed_integrity.cpp`) | a heap, the newest and the last released timestamp | push, drain_ready, flush | output in timestamp order, each line once, bounded memory | `ReorderBuffer` |
| Feed guard (same file) | a bounded memory of ids, the last sequence number, the end of the degraded period, counters | admit | no duplicate is applied, losses are counted, the feed is marked while damaged | `FeedGuard` |
| Book reconstruction (`src/engine/book_state.cpp`) | the orders; levels, side totals and footprints beside them; counters | on_order, on_cancel, on_modify, on_trade, repair_cross | the figures beside the orders never drift; a crossed book is left only by a repair that used all its rounds; no order vanishes uncounted | `BookState` |
| Time windows (`include/tapewatch/ring.hpp`) | a ring of timed records | push, expire, lower_bound | holds what is recent, in order, wherever the ring has wrapped | `TimeWindow`, `Detectors` |
| Pipeline (`src/engine/pipeline.cpp`) | the scan clock, cooldowns, the damage list | feed_line, apply, advance_scans, finish | scans see the past and only the past; each event is judged once; alerts near damage are marked | `Pipeline`, `FeedIntegrity`, `Detectors` |
| Detectors (`src/detectors/*.cpp`) | nothing between scans | scan | who should be reported is, by one scan, on evidence that was still in the windows | `Spoofing`, `Layering`, `WashTrading`, `MomentumIgnition` in `Detectors`; as a contract in `Pipeline` |
| Evaluation (`python/eval/`) | none | match, score, sweep, pick | the counts add up; the first hit counts | planned |
| Store build (`python/eval/store.py`) | SQLite tables | rebuild, keeping analyst state | triage survives a rebuild | `TriageStore` (the rebuild) |
| Replay (`src/api/replay.cpp`) | the sorted tape | load, frames_json | shows the book the detectors saw; samples without cutting the end off | `Replay`, `ConsoleReplay` |
| API and store (`src/api/`) | SQLite, one connection under one mutex, eight threads | set state, create, update, attach, read | what was answered is stored and stays; answers show it; cases are whole; no lock is left behind | `TriageStore` |
| Console (`ui/src/`) | selection, detail, queues | select, post, answers arriving late | what is shown and posted belongs to the selection | not modelled |

**Interaction.** The engine is one thread: `detect_main` reads a line and calls
`Pipeline::feed_line`, which calls every other part synchronously; at the end of
the tape it calls `finish`. There is no concurrency inside the engine. What is
hard is *order and loss*: the feed drops, doubles, swaps and skews lines; three
clocks (arrival, sequence number, timestamp) disagree; events wait in a buffer
whose bound can force them out early; scans run between events and detectors
judge with a delay; damage noted for one alert is forgotten for another. The
server is a pool of threads over one SQLite connection, and the evaluation
rebuilds the derived tables from another process while it runs; the replay reads
the same damaged tape as the engine by a different path.

`PROJECT.json` lists every hazard found in the code, at its line, with the
properties that would catch it going wrong or the reason why there are none yet.

## 2. The modules

| Module | Stands for | Uses |
|---|---|---|
| `ReorderBuffer` | class `ReorderBuffer`, driven as `feed_line` and `finish` drive it | |
| `FeedGuard` | class `FeedGuard` | |
| `TapeDefects` | `apply_defects` | |
| `FeedPromise` | abstract: what the two stages together promise | |
| `FeedIntegrity` | the two stages in series behind a damaged tape | instances of `ReorderBuffer`, `FeedGuard`, `FeedPromise`; extends `TapeDefects` |
| `BookState` | class `BookState` and the repair in `Pipeline::apply` | |
| `Pipeline` | `Pipeline::apply`, the scan clock, the sink | extends `FeedGuard` |
| `TimeWindow` | class `TimeWindow`, as operators on records | |
| `DetectorCommon` | `detector.hpp` records and `detectors/common.hpp` | extends `TimeWindow` |
| `Spoofing`, `Layering`, `WashTrading`, `MomentumIgnition` | the four `scan` methods, as operators | extend `DetectorCommon` |
| `Detectors` | `Pipeline::apply` and `finish` with real windows and detectors | extends the four |
| `Replay` | class `Replay` | an instance of `BookState` |
| `ConsoleReplay` | the engine and the replay reading one damaged tape | extends `FeedIntegrity`, `Replay`; an instance of `BookState` |
| `TriageStore` | class `Store`, the handlers of `api_main.cpp`, the rebuild | |
| `MC*` | instances for TLC | |
| `ReorderBufferProofs`, `FeedGuardProofs`, `FeedIntegrityProofs`, `PipelineProofs`, `BookStateProofs`, `DetectorsProofs`, `ReplayProofs`, `TriageStoreProofs` | theorems | extend the module they are named after |

**ReorderBuffer.** The heap is a set of nodes; a node carries the number of the
line it came from, so that equal lines stay apart. `Top` is what
`std::pop_heap` may yield: any node than which none is earlier, for equal
`(ts, seq)` pairs any of them. The loops of `drain_ready` and `flush` are
modelled pop by pop, with `phase` as the program counter; `PushLate` is the
early return of `push` and of `feed_line` after it, `PushHeld` the rest of it.
`out` (everything released) and `refused` are history. The two timestamps that
start at `INT64_MIN` start at -1, below every event.

**FeedGuard.** `Drop` and `Accept` are the two ways through `admit`. Counters
and taint are one step, in the code's order: an event that taints the feed is
itself degraded when the hold is positive. `admitted`, `anomalies` and `last_ts` are history.

**TapeDefects.** One action per draw of the first pass, one per pair of the
second. A defect whose rate is zero is not in `Rates` and cannot happen; which
lines are hit is a choice. `Skews` holds the deltas.

**FeedIntegrity.** `Push` is taken only when everything released has been
applied, as in `feed_line`; `Apply` shows the next released event to the guard.
The refinement mapping to `FeedPromise` maps *delivered* to the ids the guard
admitted and *pending* to the set of events of the clean tape neither lost by the feed
nor applied; each step of the abstract feed delivers the oldest of them or loses
one. The clean tapes are what the generator writes: sequence numbers
and ids count up, timestamps do not decrease and often tie.

**BookState.** `orders` is the hash map; `agg` holds the levels, the side
totals and the footprints, updated by the same helpers as in the code
(`AddLevel`, `RemoveLevel`, `ReduceLevel`, `Enter`, `Leave`), saturation at zero
included. Each handler is one action, early returns are `OnOrderRefused` and the
refusing disjuncts. `repair_cross` is a loop of its own: `ChooseLevel` decides
which side is stale, `EraseOrder` discards the orders of that level one by one
in any order (they come out of an `unordered_map`), `RepairDone` leaves.
`stale_orders_removed` is moved order by order instead of once at the end.
The environment sends any message about any order, which is what a feed that
loses messages leaves, and with any quantity: the reader of events takes negative
ones, and a trade of a negative quantity gives an order more than it asked for and
makes `filled` negative. Left out: what an order remembers of the book at entry,
and the read-only depth queries.

**Pipeline.** `ApplyAccepted` is `apply` up to the scans, `ScanDue`/`ScanEnd`
the loop of `advance_scans`, `Settle` the rest of `apply`, `Finish` and
`Finished` the end of the tape. A detector is its contract
(`include/tapewatch/detector.hpp:130-134`): at a scan it judges the events whose
timestamp plus the detector's delay falls into `(from, to]`, and may raise an
alert about any of them. `Raise` passes through the sink: cooldown, then the
damage mark. One alert per key and scan. Scores, books and windows are left out.

**TimeWindow and Detectors.** A window is the ring itself: an array, a head, a
size, an overflow count; `LowerBound` is the code's binary search, a recursive
function. The detectors are operators from a context (three windows) and a slice
to a set of alerts, built like the code: the slice by binary search, the gates in
their order, the evidence by `DirectionalQty`. An alert keeps whom it is about,
the stretch of tape, the time of detection and the orders. Signals, penalties and
scores are real numbers and left out, and `min_score` stands at 0, below which no
score is. `Detectors` drives them: the scans that fall due before an event
(`Raised`, `Scanned`, `NextScan` are the loop of `advance_scans`), the pushes, the
mid after every event, the last pass of `finish`. What the book makes of an event
is given: a trade, a withdrawal, or a quote, which stands for whatever only moves
the mid. Each initial state enables one detector, which is a configuration the
program has; the detectors share nothing but the windows, so they do not disturb
one another. `tape` is history: the properties say what should be reported by
looking at the whole tape, without windows, slices or binary searches.

**Replay and ConsoleReplay.** `Load` sorts, then `ApplyBefore`, `ApplyInside`,
`PassOver` and `Show` are the two loops of `frames_json` event by event, with the
repair of the book (`RepairReplayed`) in between. `ConsoleReplay` puts the same
tape through damage, reorder buffer, guard and the detectors' book, and starts
the replay when that run is over. Both books are instances of `BookState` under
different variables. A frame holds the orders; its layout is read off them.

**TriageStore.** The committed database is one record: the detection run the
derived tables were built from, `alert_state`, `cases`, `case_alerts`. `tx` is what
an open transaction on the server's connection would commit; `writer` is SQLite's
write lock, `mu` the store's mutex. A statement is a step. A method that is one
statement is one action; `create_case`, `attach_alerts` and the reading methods
hold `mu` across several. Timestamps of analyst state are versions: the count of
writes. A statement may fail because the lock was not given up within the busy
timeout (`SlowRebuild`) or because the file could not be written (`FaultyKinds`);
it then undoes itself, and SQLite rolls the transaction it belonged to back or
leaves it open, as the error has it. `create_case` does not look at the result of a
link or of its `COMMIT`: a link that took the transaction along leaves the rest of the
method to commit by itself, and a failed `COMMIT` (`CommitCaseFails`) loses the
transaction or leaves it open for whatever the connection does next (`stuck`). Either
way the id is returned. `RebuildBegins` to `RebuildCommits` is the
transaction of `python/eval/store.py:116-205`; `ServerRestarts` loses the open
transaction and the requests. Two variables are history: `told` is what analysts were
answered is stored, `adrift` the writes that are not in the database because SQLite
said so only where nobody looked: a case whose `COMMIT` or link failed that way, and
what was written into the transaction left open. A write leaves `adrift` when a later
`COMMIT` brings it in. Assumed: SQLite's transactions are atomic.

## 3. The runs

| Run | Instance | Properties |
|---|---|---|
| `reorder` | tapes of four lines, 4 timestamps, 2 sequence numbers, tolerance 2, room for two | `TypeOK`, `ReleasedInOrder`, `EachLineOnce`, `Bounded`, `ToleranceHonoured`, `HeldIsReleased` (liveness) |
| `feed_lossy` | every clean tape of four events on 4 timestamps; drops, duplicates, transpositions; buffer 1, memory 1 | `AppliesSurvivorsInOrder` (refinement), `MissingIsExact` |
| `feed_all` | every clean tape of four events on 2 timestamps, all four defects, skew of 2 against a tolerance of 1; buffer 1, memory 3 | `DamageIsReported`, `NeverAppliedTwice`, `EveryLineIsSettled` (liveness) |
| `book` | four orders, two participants, two prices, quantities -1..2, a cap of three, a repair of one round; four messages | `BookTypeOK`, `AggregatesAgree`, `CrossedOnlyWhenExhausted`, `OrdersAccounted`, `FillsWithinOriginal`, `CapRespected`, `FreshOrderSurvives` |
| `pipeline` | three events, two symbols, 5 timestamps, 3 sequence numbers, a memory of one id; a detector without delay and one that waits; a scan every 2 | `GuardTypeOK`, `NoDuplicateInHorizon`, `SequenceAccounted`, `DegradedExactly` of the guard; `CooldownSpacing`, `DeferredAreJudged`, `MarksAreEarned`, `ScanSeesThePast`, `JudgedAtMostOnce` |
| `detect` | per detector every tape of four (layering: five) events its gates tell apart, windows of two to four items, a scan every 2, one step longer than the history | `WindowsHoldTheRecent`, `SpoofersReportedOnce`, `LayersReportedWhole`, `WashesReported`, `IgnitionsReported`, `EvidenceIsRecent` |
| `replay` | four lines on tied or growing timestamps, two symbols, drops and transpositions; nine requests | `SameBookAsDetectors`, `WindowsAreSampled` |
| `triage` | two threads, three of fourteen requests, two rebuilds between two detection runs, failing statements and `COMMIT`s, one crash | `AnsweredWritesLast`, `LinksHaveTheirCase`, `AnswersShowTheWrite`, `NoLockLeftBehind`, `CommittedWorkStays` |
| `pipeline_judged`, `pipeline_gaps`, `replay_book`, `triage_case` | expected violations | section 5 |

**Why the bounds are enough.** A line is refused only after something newer
left the buffer: three lines, four with an early release before it, on a
capacity of two. The guard's memory of one evicts at the second admission and is
asked about the evicted id at the third. A transposition moves a line by one
place and a duplicate adds one, so four events let a duplicate pass two others.
In `feed_all` the memory holds three ids, two more than the buffer holds events,
and the fourth event evicts the first. It is the least memory for which
`NeverAppliedTwice` holds (section 4): on the same tapes TLC finds an event applied
twice when it holds two. Setting a line back by 2 among others looks like setting the
others forward, so the skew goes forward only.
In `book`, four messages are enough to build both sides, amend or fill, cross
two levels with one order and repair. The code's repair has 64 rounds against 200000
orders; the run has one round against three orders, so that there too a book
can be crossed by more levels than the repair has rounds, and an exhausted repair is
resumed by the next event. In `pipeline`, the first event, one on a
scan boundary and one past the next scan; two alerts under a key within the
cooldown and one after it; the damage prune needs the longer tape of
`pipeline_gaps`. In `detect`, the rings are shorter than the tapes, so they wrap
and overflow; events fall on, before and after scan points and window edges; the
properties about reports ask nothing once an item they need was displaced
(`NothingDisplaced`), and the windows' own property covers that case. In `replay`,
four lines build both sides, fill, and withdraw or cross, and the windows of the
requests start in the middle. In `triage`, two threads suffice for two requests
to overlap, the third request sees what they left, and the second run has lost an
alert of the first; a transaction left open by the first request is written into by
the second and rolled back or committed by the third. Bounds are named: `MaxLines`, `MaxEvents`, `MaxTs`, `MaxSeq`,
`Length`, `StartTs`, `MaxRequests`, `MaxRebuilds`, `MaxCrashes`, and the finite sets. The theorems of section 4 hold without the bounds
on values; `MaxLines` and `MaxEvents` are arbitrary there.

**Symmetry** is used for order ids and participants (`book`), for event ids
(`pipeline`) and for threads (`triage`), which the specifications only compare for equality; none of these
runs checks liveness.

**Fairness.** `FairSpec` and `FeedFairSpec` assume weak fairness of the whole
next-state relation, no more: one thread reads a finite tape to its end and
does not stop while it has a step to take. Which step comes next is decided by
the guards, except for the environment's choice of the tape.

**Deadlock** is not checked: every one of these programs ends (in `triage`, the
analysts have sent their last request).

Each property has a mutant in `PROJECT.json`, an operator beside the original
that changes it as a plausible bug would (a dropped check, an off-by-one, a
missing counter); the property fails under it.

## 4. The proofs

`tlapm` checks the eight proof modules from nothing. What they prove holds for
every value of the constants under the assumptions the modules name, which TLC
evaluates on every run: timestamps and sequence numbers are naturals, tolerances
and holds are naturals, capacities positive, steps of tape time not negative,
prints of some quantity, and (`Pipeline`) a history that covers every detector's
delay plus two scan intervals, which `required_history`
(`src/engine/pipeline.cpp:8-15`) provides. The detectors' durations may be any
integers, as in a configuration file. The theorems that need more say so as
`ASSUME`s of their own; they are named below. Bounds on the length of a tape
(`MaxLines`, `MaxEvents`) are arbitrary. `ConsoleReplay` assumes that prices are
integers, that both caps are positive, which the constructor sees to
(`include/tapewatch/book_state.hpp:78`), and that a line of a tape has the fields of
a market event, with one of two sides and any integer for a quantity; the
replay's book is the `BookState` of the other proofs.

- **`ReorderBufferProofs`**: `OrderCorrect` (released in timestamp order). The
  invariant has to say more than the property: the last timestamp released
  bounds what is already out from above, and everything in the heap from below;
  `push` keeps the second by refusing, `pop_top` because it takes a minimum.
  `ToleranceCorrect` adds that while nothing was forced out the last timestamp
  released is at most the watermark. `LinesCorrect` numbers the lines: no node in
  the buffer, the output or the refused set has a number above `fed`, and each
  number occurs once. `SizeCorrect` counts the heap with the library's
  cardinality facts. `WatermarkCorrect` follows the phases. `EarlyInv` says what the
  proof about copies below needs: before the flush a node that is held precedes nothing
  released, by timestamp and number both, unless it was just pushed, and then the
  same drain releases it.
- **`FeedGuardProofs`**: `RemembersTheLatestCorrect` and `NoDuplicateCorrect`
  share one invariant: the queue is the tail of the admitted sequence; an id
  outside the set is then far away in it. `SequenceAccountedCorrect` needs that
  the last sequence number never falls below the first. `DegradedCorrect` needs
  that the end of the hold is the maximum over the anomalies seen.
- **`FeedIntegrityProofs`** takes the invariants of the two stages by `INSTANCE`
  and relates them to the tape. `DamageIsReportedCorrect` needs no assumption: it
  holds under all four defects, because the guard compares every event with the one
  before it, whatever it missed (`ContiguousInv`). `NeverAppliedTwiceAnyClocks` holds
  under all four defects too, from one assumption, `MemoryReaches`: the memory holds
  at least two ids more than the buffer holds events. The code gives it four times as
  many (`src/engine/pipeline.cpp:48-49`) and refuses a capacity of zero
  (`src/engine/config.cpp:191`), so every configuration satisfies it. The argument
  bounds how far a copy strays. On the tape a line and its copy are at most three apart and
  what follows both has a later number (`CopiesAreNear`); a copy keeps the timestamp of its
  line, so between their releases only events of that timestamp leave. Until
  the copy is read, what has left since the line, what is held, and the two lines
  that may lie between add up to `Capacity + 2` at most, and one of them is still held
  when it is read; once it is held nothing leaves before it (`CopyInv`,
  `CopiesLeaveTogetherCorrect`). `AppliedInv` carries the distance over to what
  the guard has admitted. The other theorems assume
  `ClocksAgree`: clocks are not skewed and the tolerance is positive. Then
  `LineOrder` says that only neighbours of the tape are out of order, `BufferInv`
  that nothing is refused and that what is held or still to come is not older than
  what left (`FeedOrderCorrect`), and `JudgeInv` that the events admitted are those
  applied, each once, in the order of the clean tape. From it follow `NeverAppliedTwiceCorrect`, for every memory
  of one id or more, smaller ones than `MemoryReaches` allows; `MissingIsExactCorrect`; and the refinement
  `AppliesSurvivorsInOrderCorrect`: every step of the damaged feed is a step of
  `FeedPromise` or a stutter.
- **`PipelineProofs`**: `ScanSeesThePastCorrect` ties the scan clock to the
  event being applied (`ClockInv`); `CooldownCorrect` needs that the table holds
  the last detection time of every alert of a key with a cooldown, and that the
  clock of the scans does not step back (`SpacingInv`). `JudgedAtMostOnceCorrect`
  rests on the slices tiling tape time; `DeferredAreJudgedCorrect` on the scan
  points being a grid that starts one interval after the first event (`GridInv`), so
  that an event whose delay has run out lies in exactly one slice that was scanned.
  `MarksAreEarnedCorrect` needs that every entry of the damage list, pruned or not,
  is an anomaly the guard counted (`MarksInv`). `PipeImplementsGuard` shows that the pipeline does
  to its guard only what `FeedGuard` allows, so the guard's theorems hold inside it
  (`GuardInsidePipelineCorrect`).
- **`BookStateProofs`**: `BookInv` (`OrdersOK`, `Ledger`, `Controls`) carries types,
  the cap, what was filled and the accounting of orders through every handler and
  through the repair. `AggregatesCorrect` compares sums with sums: a total over
  orders is the number of lots, one element per unit and order, so adding, reducing
  and removing an order are statements about cardinalities (`AggInv`); the
  saturation at zero is shown never to bite. `CrossedOnlyWhenExhaustedCorrect` counts the
  rounds of a repair against the orders left (`RoundsInv`): a book at rest is
  crossed only if the repair gave up after its last round, and then it had at least
  `RepairRounds + 2` orders. With the code's 64 rounds
  (`src/engine/book_state.cpp:209`) and cap of 200000 orders
  (`include/tapewatch/config.hpp:122`) that can be: a book crossed by more levels
  than the repair has rounds is left crossed, as the comment there expects.
  `FreshOrderSurvivesCorrect` needs no assumption about the cap: while the
  entrant rests no level was refreshed later than its own, also when an earlier repair
  gave up and this one resumes (`FreshInv`). The last part is about
  determinism. `Reads` and
  `Onward` say what an event and a round of the repair make of a snapshot (orders and
  figures of a book): `HandleFollows` shows that a handler's result is determined,
  `RepairFollows` that a round's is, although the orders of a level are erased in any
  order and the figures in between are not the same: after the round they are,
  because they add up to the orders that are left (`Agree`, `Within`).
  `DropsAreCounted` ties the counter of orders turned away to the cap.
- **`DetectorsProofs`**: `WindowsHoldTheRecentCorrect`. A window is compared with
  everything ever pushed into it, and an entry is found by how many newer ones
  there are (`Newer`), so the head of the ring, which wraps, cancels out; the
  invariant (`Carries`, `Cleared`) says which of them the ring has and that it
  lacks none there is room for that every expiry so far would have kept.
  `EvidenceIsRecentCorrect` goes on from there to the alerts: the binary search
  finds the place it should on a window in the order of time (`LowerBoundFinds`, by
  the shortest stretch that would be a counterexample), a slice is therefore what its
  bounds say (`SliceIs`), a sum over prints is positive exactly when there are prints
  (`SumIsUnits`), and each detector's evidence lies where its gates put it. It
  assumes that the two momentum durations `revert_ns` and `reversal_ns` are not
  negative, which the defaults (`include/tapewatch/config.hpp:95-96`) and the shipped
  configurations meet and the configuration reader does not check.

  `SpoofersReportedOnceCorrect`, `WashesReportedCorrect`,
  `LayersReportedWholeCorrect` and `IgnitionsReportedCorrect` say that what the
  detectors report is what the whole tape, read after the fact, has to show. The four
  proofs share their argument. A window that never gave an entry up for room has
  every entry the history reaches (`WholeInv`), so what a scan sees in its slices is
  what the tape has there (`ScanFindsTape`, `ScanShowsTape`, `TotalsOnTape`). The
  scan points are a grid: a step runs those between the clock's last and next value,
  each once (`ScansOfStep`). What a scan at or before the last scan point judges lies
  before the events still to come, so a verdict once reached stays (`GuiltStays`,
  `GroupEnds`, `ClosedLayerIsOld`, `IgnitingStays`) and a step adds those of the
  scans it runs. On top of that come, for layering, the widest run, which is the
  whole layer (`WidestIsAll`); for wash trading, that accounts come in ordered pairs
  and a pair's trades in both directions are each judged by the scan after the later;
  for momentum ignition, that sums of prints in the window and on the tape have the
  same units, and the mids before and after the burst are the tape's. Layering
  assumes an opposite window greater than zero and a placement window that is not
  negative, momentum ignition a `revert_ns` greater than zero and a `reversal_ns`
  that is not negative: with zero, the scan that closes a withdrawal or a burst would
  be at its own instant, and the scan at T runs before the event at T (section 5).
  The defaults (`include/tapewatch/config.hpp:51-53, 95-96`) and the shipped
  configurations meet this; the reader does not check it.

  `Detectors` further assumes that durations and prices are integers, that prints
  have a quantity (the venue's book prints none without,
  `python/generate/book.py:135`; the reader of events takes any integer), that
  `TickSize` is positive (`src/engine/config.cpp:186`), that participants are numbers
  (`ParticipantId`) and that a trade has one of two sides.
- **`ReplayProofs`**: `WindowsAreSampledCorrect`. The invariant counts events of
  the window walked so far, frames shown and whether one is due, and that the last
  event of the window is always the last frame.

  `SameBookAsDetectorsCorrect` relates two passes over a tape. The lines are sorted by
  counting those before each (`Place`); the lines released by the buffer are all of
  them, in the same order, so when the engine is done the sorted tape is what it read
  (`SortedIsRead`). The engine's pass is kept as a run (`RunOK`), the sequence of
  snapshots its book went through, one for each event and each round of a repair; the
  invariant `Joint` says that such a run exists, that the engine stands at its end and
  has every remembered book on it (`EngineRun`), and that the replay stands on it, or
  inside the round after one of its snapshots, at the event its walk has come to
  (`ReplayRun`). While the engine works the run grows (`ApplyAdvances`,
  `RepairAdvances`) and the replay is not loaded; afterwards it is fixed and the
  replay moves along it (`WalkAdvances`), because both books make the same of an
  event (`SameReader`). A frame and a remembered book of one event are the same
  snapshot, since ids are told apart (`DistinctLines`) and an event has one
  snapshot with nothing left to repair. The run is a witness of the proof; the model
  does not have it, so TLC checks the property alone.

  The theorem assumes `ClocksAgree`, that the feed repeats no line (a line repeated
  breaks it: `replay_book`), and one cap for both books. The replay's is 200000
  (`src/api/replay.cpp:105`), the engine's 200000 by default
  (`include/tapewatch/config.hpp:122`), but 50000 in `configs/smoke.yaml` and 400000
  in `configs/full.yaml`. `SameBookUnlessCappedCorrect` is for those: any two caps, as
  long as neither book has counted an order it had no room for
  (`orders_dropped_cap`), a counter that never goes back (`CapsWereAlike`). No run
  has different caps, so this one is proved and not in the runs.
- **`TriageStoreProofs`**: one invariant, `StoreInv`, says who has the mutex and
  the write lock, what an open transaction may differ from the database in, and
  that whatever was answered, or is about to be, is in it or adrift. What each thread
  is about to answer is part of it (`JobOK`), so a step has to keep it for the
  other threads too. `AnsweredWritesLastCorrect`, `LinksHaveTheirCaseCorrect`,
  `AnswersShowTheWriteCorrect` and `NoLockLeftBehindCorrect` follow;
  `CommittedWorkStaysCorrect` does because the open transaction covers the database
  it began from, and nobody else commits while it is open.

**Only proved.** `NothingReadyIsHeld` and `RemembersTheLatest`, on which other
theorems rest, and `SameBookUnlessCappedCorrect`; no run checks them.

**Only model-checked.** Liveness (`HeldIsReleased`, `EveryLineIsSettled`), which is
out of the prover's reach.

**What needs right clocks.** `MissingIsExact` and the refinement are stated without
skew: a line set forward makes the buffer release out of the venue's order, or refuse
a line that would have been in time. `SameBookAsDetectors` does not hold under skewed
clocks either: a line the engine's buffer refuses as late is sorted in by the replay.

## 5. Where code and comments disagree

Each is a run TLC is expected to find violated.

| Run | The comment | What the code does |
|---|---|---|
| `pipeline_judged` | `detector.hpp:130-134`: `(from, to]` | the scan at T runs before the event at T is applied and the next one starts after T; a detector without delay never judges it, nor the first event (wash trading, which has none, goes through its whole window once a later print has come, and so misses it only if nothing follows) |
| `pipeline_gaps` | `feed_integrity.hpp:11-13`: alerts near a gap are marked | the list is pruned relative to the arriving event before the pending scans run |
| `replay_book` | `src/api/replay.cpp:84-85`: the console shows "the same book the detectors saw" | the replay has no duplicate filter: a trade delivered twice is filled twice |
| `triage_case` | `src/api/store.hpp:67-69`: the lock "makes the multi-statement case-creation path atomic" | a `BEGIN IMMEDIATE` that times out is not noticed; the statements then commit one by one and a crash leaves a case without its alerts |

Seen while modelling, and not checked by a run:

- After an early release for capacity a line inside the tolerance is refused and
  counted as "arrived beyond tolerance" (`feed_integrity.hpp:54`).
- Events of one timestamp that straddle two drains leave against their sequence
  numbers (`feed_integrity.hpp:81-82` promises a stable total order).
- A duplicate degrades the context (`detector.hpp:94-96`) but is not recorded as
  damage, so alerts raised then go out unmarked (`pipeline.cpp:121-123`).
- `layering.cpp:90-99` judges only the widest run of a group per scan; a run that
  meets the gates is lost beside a wider one that does not.
- The start of a layering alert is not bounded by the history, so damage it
  overlaps may have been pruned; the other three detectors stay within it
  (`EvidenceIsRecent`).
- A burst after a silence longer than the history is not judged
  (`momentum_ignition.cpp:65`); a trade at the instant of a withdrawal's closing
  scan is seen by no scan (`spoofing.cpp:52`).
- The result of a case's `COMMIT` is not looked at (`src/api/store.cpp:496`): when it
  fails the id is returned all the same and the analyst is answered 201 for a case that
  is not in the database. If SQLite left the transaction open, writes answered
  afterwards are in it and not in the database, a rebuild cannot get the lock, and the
  `ROLLBACK` of another failed creation (`src/api/store.cpp:474, 482`) or a restart
  takes them all back. `AnsweredWritesLast` and `NoLockLeftBehind` except exactly
  these (`adrift`, `stuck`).
- A trade with a negative quantity passes the reader (`src/engine/event.cpp`) and
  `on_trade` (`src/engine/book_state.cpp:166-177`): `filled` goes below zero and
  `remaining` above what was ordered. The figures beside the orders follow, and
  filled plus remaining stays within the original (`FillsWithinOriginal`).
- After a rebuild that dropped an alert, `cases_json` counts a link `case_json`
  does not show; a state posted for an unknown alert is stored and answered with
  an empty 200 (`api_main.cpp:218-223`).
- The caps of the engine's book and of the replay's are the same only by default:
  beyond 50000 orders of a symbol under `configs/smoke.yaml`, or 200000 under
  `configs/full.yaml`, one book drops an order the other keeps and the console shows
  a book the detectors never had (`src/api/replay.cpp:84-85, 105`).
- A rebuild keeps analyst state by alert id (`python/eval/store.py:114-121`), and a
  new detection run numbers its alerts from one again (`pipeline.cpp:31`): after a
  run with another configuration the state belongs to whatever alert has the number.

## 6. What is not modelled, and the plan

Not modelled on purpose: text formats (events, JSON, YAML), configuration,
arguments and file I/O, reports and graphics, scores and signals (real numbers),
agents' random strategies, and tools. A line that does not parse only moves
counters. `clear()` of a window is called by nobody. Of `BookState` the depth
queries and what an order remembers of the book at entry are left out: they feed
scores, and the distance from the touch, which `Detectors` takes as given.

Not modelled yet, and what it would take:

- `Console` (`ui/src/`): selection and answers arriving late. A state update that
  returns after the selection has moved replaces the detail shown
  (`App.tsx:111`); the form keeps what was typed for the alert before
  (`AlertDetail.tsx:62`).
- `Venue`: the simulator's matching book and its tape fed into `BookState`; on an
  undamaged feed the reconstruction should equal the venue's book and the repair
  never run.
- `Matching`: matching, scoring and the operating point against declarative
  definitions over bounded inputs.
- The engine in one piece: `FeedIntegrity`, `Detectors` and `BookState` together.
  The pieces meet pairwise (`ConsoleReplay`, `Detectors`, `Pipeline`); one instance
  of all three is beyond an exhaustive run.

A theorem worth adding: that of two layers side by side the widest is
reported, which needs a statement about all runs of a group and not of one.

## 7. Running it

    tlc -workers 2 -config MCReorderBuffer.cfg MCReorderBuffer
    tlapm ReorderBufferProofs.tla

The longest runs (`pipeline`, `detect`) take about a minute and a half each.
