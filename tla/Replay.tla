------------------------------- MODULE Replay -------------------------------
(***************************************************************************)
(* class Replay (api/replay.cpp): the console's view of the book.  The     *)
(* lines of a tape are loaded once and sorted; a request walks them from   *)
(* the beginning through a book of its own, repairs included, and shows a  *)
(* frame for the events of its window, or for a sample of them when there  *)
(* are more than it wants.                                                 *)
(*                                                                         *)
(* A frame is the event's id and the orders then in the book; its layout   *)
(* (best prices, depth, the alert's own orders) is read off these.  Lines  *)
(* that do not parse are skipped at load and do not appear.                *)
(***************************************************************************)
EXTENDS Integers, Sequences, SequencesExt

CONSTANTS
  OrderId, Participant, Price, NoPrice, RepairRounds,  \* of BookState
  ReplayOrders,  \* the cap of the replay's book: 200000 in the code
  Requests,      \* [symbol, from_ts, to_ts, max_frames], as the API lets them through
  MaxTs, MaxLines  \* bounds: tape time, and how many lines a tape has

ASSUME RequestsAssumption ==
  /\ Requests \subseteq [symbol : STRING, from_ts : Nat, to_ts : Nat, max_frames : Nat]
  /\ \A r \in Requests : r.from_ts < r.to_ts /\ r.max_frames > 0

VARIABLES
  tape,      \* events_
  request,   \* the request being answered
  walked,    \* i: how many events of the tape were walked
  shown,     \* seen: how many of them fell into the window
  due,       \* the event just applied gets a frame
  frames,    \* the frames written
  progress,  \* "unloaded", "loaded", "walking" or "answered"
  r_orders, r_agg, r_stats, r_now, r_stage, r_round, r_ids, r_departed,
  r_entrant, r_fed   \* the replay's book

replayBookVars == <<r_orders, r_agg, r_stats, r_now, r_stage, r_round, r_ids,
                    r_departed, r_entrant, r_fed>>
replayVars == <<tape, request, walked, shown, due, frames, progress, replayBookVars>>

\* Quantity only matters to the stand-alone book: this one is given events.
ReplayBook == INSTANCE BookState WITH
  orders <- r_orders, agg <- r_agg, stats <- r_stats, now <- r_now,
  stage <- r_stage, round <- r_round, ids <- r_ids, departed <- r_departed,
  entrant <- r_entrant, fedEvents <- r_fed,
  MaxOrders <- ReplayOrders, Quantity <- {}, MaxEvents <- MaxLines

ReplayInit ==
  /\ tape = <<>>
  /\ request \in Requests
  /\ walked = 0
  /\ shown = 0
  /\ due = FALSE
  /\ frames = <<>>
  /\ progress = "unloaded"
  /\ ReplayBook!BookInit

\* Mutant of Earlier: lines of one timestamp stay in the order of the file.
EarlierByTimeOnly(lines, i, j) ==
  \/ lines[i].ts < lines[j].ts
  \/ lines[i].ts = lines[j].ts /\ i < j

\* Whether line i comes before line j of the tape.
Earlier(lines, i, j) ==
  \/ lines[i].ts < lines[j].ts
  \/ lines[i].ts = lines[j].ts /\ lines[i].seq < lines[j].seq
  \/ lines[i].ts = lines[j].ts /\ lines[i].seq = lines[j].seq /\ i < j

\* The stable sort of load: by timestamp, then sequence number, then position.
\* A line's place is how many come before it.
Place(lines, j) == 1 + Cardinality({i \in 1 .. Len(lines) : Earlier(lines, i, j)})

SortedTape(lines) ==
  [k \in 1 .. Len(lines) |-> lines[CHOOSE j \in 1 .. Len(lines) : Place(lines, j) = k]]

\* Replay::load.
Load(lines) ==
  /\ progress = "unloaded"
  /\ tape' = SortedTape(lines)
  /\ progress' = "loaded"
  /\ UNCHANGED <<request, walked, shown, due, frames, replayBookVars>>

\* frames_json is called.
Ask ==
  /\ progress = "loaded"
  /\ progress' = "walking"
  /\ UNCHANGED <<tape, request, walked, shown, due, frames, replayBookVars>>

\* events_in_window.
InWindow == Cardinality({j \in 1 .. Len(tape) : /\ tape[j].sym = request.symbol
                                                /\ request.from_ts <= tape[j].ts
                                                /\ tape[j].ts <= request.to_ts})

\* Mutant of Stride: the division is not rounded up.
StrideRoundedDown ==
  IF request.max_frames > 0 /\ InWindow > request.max_frames
    THEN InWindow \div request.max_frames ELSE 1

\* frame_stride.
Stride ==
  IF request.max_frames > 0 /\ InWindow > request.max_frames
    THEN InWindow \div request.max_frames + 1 ELSE 1

MoreToWalk == walked < Len(tape) /\ tape[walked + 1].ts <= request.to_ts

\* Another symbol's event is passed over.
PassOver ==
  /\ progress = "walking" /\ ~due /\ r_stage = "idle"
  /\ MoreToWalk
  /\ tape[walked + 1].sym # request.symbol
  /\ walked' = walked + 1
  /\ UNCHANGED <<tape, request, shown, due, frames, progress, replayBookVars>>

\* An event before the window only builds the book.
ApplyBefore ==
  /\ progress = "walking" /\ ~due
  /\ MoreToWalk
  /\ tape[walked + 1].sym = request.symbol
  /\ tape[walked + 1].ts < request.from_ts
  /\ ReplayBook!Handle(tape[walked + 1]) /\ r_now' = tape[walked + 1].ts
  /\ walked' = walked + 1
  /\ UNCHANGED <<tape, request, shown, due, frames, progress>>

\* An event of the window is counted; a frame is due for every stride-th one
\* and for the last.
ApplyInside ==
  /\ progress = "walking" /\ ~due
  /\ MoreToWalk
  /\ tape[walked + 1].sym = request.symbol
  /\ tape[walked + 1].ts >= request.from_ts
  /\ ReplayBook!Handle(tape[walked + 1]) /\ r_now' = tape[walked + 1].ts
  /\ walked' = walked + 1
  /\ shown' = shown + 1
  /\ due' = (shown' % Stride = 0 \/ shown' = InWindow)
  /\ UNCHANGED <<tape, request, frames, progress>>

RepairReplayed ==
  /\ progress = "walking"
  /\ ReplayBook!Repair
  /\ UNCHANGED <<tape, request, walked, shown, due, frames, progress>>

\* The frame is written once the book is repaired.
Show ==
  /\ progress = "walking" /\ due /\ r_stage = "idle"
  /\ frames' = Append(frames, [eid |-> tape[walked].eid, ts |-> tape[walked].ts,
                               orders |-> r_orders])
  /\ due' = FALSE
  /\ UNCHANGED <<tape, request, walked, shown, progress, replayBookVars>>

Answer ==
  /\ progress = "walking" /\ ~due /\ r_stage = "idle"
  /\ ~MoreToWalk
  /\ progress' = "answered"
  /\ UNCHANGED <<tape, request, walked, shown, due, frames, replayBookVars>>

Walk == Ask \/ PassOver \/ ApplyBefore \/ ApplyInside \/ RepairReplayed \/ Show \/ Answer

(***************************************************************************)
(* A window is sampled, not truncated: the answer never has more frames    *)
(* than were asked for, and it ends with the last event of the window      *)
(* (replay.cpp:114-122).                                                   *)
(***************************************************************************)
WindowsAreSampled ==
  /\ Len(frames) <= request.max_frames
  /\ progress = "answered" /\ InWindow > 0 =>
       /\ frames # <<>>
       /\ \A j \in 1 .. Len(tape) :
            tape[j].sym = request.symbol /\ tape[j].ts \in request.from_ts .. request.to_ts
              /\ (\A l \in j + 1 .. Len(tape) : tape[l].sym = request.symbol =>
                                                  tape[l].ts > request.to_ts)
              => frames[Len(frames)].eid = tape[j].eid
=============================================================================
