----------------------------- MODULE Detectors -----------------------------
(***************************************************************************)
(* Pipeline::apply and Pipeline::finish with the real detectors and the    *)
(* real windows, for one symbol: the scans that fall due before an event,  *)
(* the pushes into the windows, and the last pass.  (Pipeline.tla has the  *)
(* guard, the cooldown and the damage marks over abstract detectors; the   *)
(* sink here lets every alert through: cooldown 0, and contexts of         *)
(* different symbols share nothing else.)                                  *)
(*                                                                         *)
(* An event is what the book made of it, in timestamp order: a trade, an   *)
(* order withdrawn (a cancel, or an amend to zero), or a "quote", which    *)
(* stands for the orders and the other amends of an instant: all they do   *)
(* here is move the mid.  The windows of placements are left out, with the *)
(* scores.  The sequence `tape` is kept for the properties only.           *)
(***************************************************************************)
EXTENDS Spoofing, Layering, WashTrading, MomentumIgnition, Sequences

CONSTANTS
  ScanInterval,    \* scan_interval_ns
  WindowCapacity,  \* window_capacity, in the configuration of each detector
  Enabled,         \* the sets of detectors a configuration may enable
  Quotes,          \* per detector: what a quote may leave the mid at
  Trades,          \* per detector: the trades that may print, with the mid after
  Withdrawals,     \* per detector: the orders that may be withdrawn, likewise
  Steps,           \* per detector: the steps tape time may take between events
  MaxEvents,       \* bound, per detector: the length of the tape
  StartTs          \* bound: the timestamp of the first event

Kind == {"spoofing", "layering", "wash_trading", "momentum_ignition"}

ASSUME ScanIntervalAssumption == ScanInterval \in Nat \ {0}
ASSUME WindowCapacityAssumption == WindowCapacity \in [Kind -> Nat]
ASSUME StartTsAssumption == StartTs \in Nat \ {0}
ASSUME StepsAssumption == \A k \in Kind : Steps[k] \subseteq Nat
ASSUME EnabledAssumption == Enabled \subseteq Kind
\* A configuration may hold any numbers here: the code checks none of them.
ASSUME DurationsAssumption ==
  /\ SpoofingConfig.opposite_window_ns \in Int /\ SpoofingConfig.max_lifetime_ns \in Int
  /\ LayeringConfig.opposite_window_ns \in Int /\ LayeringConfig.cancel_span_ns \in Int
  /\ LayeringConfig.placement_window_ns \in Int
  /\ WashConfig.window_ns \in Int
  /\ MomentumConfig.burst_ns \in Int /\ MomentumConfig.reversal_ns \in Int
  /\ MomentumConfig.revert_ns \in Int
  /\ WashConfig.min_gross_qty \in Int
ASSUME QuantityAssumption == \A k \in Kind : \A t \in Trades[k] : t.rec.qty \in Nat \ {0}
ASSUME TicksAssumption ==
  /\ \A k \in Kind : \A c \in Withdrawals[k] : c.rec.ticks_from_touch \in Int
  /\ LayeringConfig.near_touch_ticks \in Int
\* ParticipantId is an integer: the pairs of accounts are ordered by it.
ASSUME ParticipantAssumption ==
  \A k \in Kind : \A t \in Trades[k] : t.rec.taker \in Nat /\ t.rec.maker \in Nat
\* Side has two values; a mid is a price, or kNoPrice; and the reader of a
\* configuration refuses a tick that is not positive.
ASSUME PriceAssumption ==
  /\ \A k \in Kind : \A t \in Trades[k] : t.rec.aggressor \in Direction /\ t.mid2 \in Int
  /\ \A k \in Kind : \A c \in Withdrawals[k] : c.mid2 \in Int
  /\ \A k \in Kind : Quotes[k] \subseteq Int
  /\ TickSize \in Nat \ {0} /\ MomentumConfig.min_move_ticks \in Int

\* required_history.
History ==
  Max({2 * SpoofingConfig.opposite_window_ns + 3 * SpoofingConfig.max_lifetime_ns,
       2 * LayeringConfig.opposite_window_ns + LayeringConfig.cancel_span_ns
         + LayeringConfig.placement_window_ns,
       WashConfig.window_ns,
       MomentumConfig.revert_ns + MomentumConfig.burst_ns + MomentumConfig.reversal_ns})
  + 2 * ScanInterval

VARIABLES
  enabled,    \* the detector the configuration leaves enabled
  ctx,        \* SymbolContext: the windows
  started,    \* started_
  now,        \* now_
  next_scan,  \* next_scan_
  finished,   \* finish() has run
  alerts,     \* what the sink was given
  tape        \* history: the events applied, with their timestamps

vars == <<enabled, ctx, started, now, next_scan, finished, alerts, tape>>

Init ==
  /\ enabled \in Enabled
  /\ ctx = [trades  |-> EmptyWindow(WindowCapacity[enabled], History),
            cancels |-> EmptyWindow(WindowCapacity[enabled], History),
            mids    |-> EmptyWindow(WindowCapacity[enabled], History)]
  /\ started = FALSE
  /\ now = 0
  /\ next_scan = 0
  /\ finished = FALSE
  /\ alerts = {}
  /\ tape = <<>>

-----------------------------------------------------------------------------
\* The start of run_scan: windows evict on push only, so a quiet symbol's have
\* to be told the time.
Expired(c, to) ==
  [trades  |-> Expire(c.trades, to),
   cancels |-> Expire(c.cancels, to),
   mids    |-> Expire(c.mids, to)]

\* The rest of run_scan, with the detector that is enabled.
Scan(c, from, to) ==
  CASE enabled = "spoofing"          -> SpoofingScan(c, from, to)
    [] enabled = "layering"          -> LayeringScan(c, from, to)
    [] enabled = "wash_trading"      -> WashScan(c, from, to)
    [] enabled = "momentum_ignition" -> MomentumScan(c, from, to)

\* The scan points advance_scans walks through, from the one that is due next.
ScanPoints(first, until) == {t \in first .. until : (t - first) % ScanInterval = 0}

\* advance_scans: what its scans raise, and the windows and the clock after it.
\* (Expiring at each point in turn is expiring at the last.)
Raised(first, until) ==
  UNION {Scan(Expired(ctx, t), t - ScanInterval, t) : t \in ScanPoints(first, until)}

Scanned(first, until) ==
  IF ScanPoints(first, until) = {} THEN ctx
                                   ELSE Expired(ctx, Max(ScanPoints(first, until)))

NextScan(first, until) ==
  IF ScanPoints(first, until) = {} THEN first
                                   ELSE Max(ScanPoints(first, until)) + ScanInterval

\* What apply() pushes once the book has taken the event; the mid always.
Pushed(c, e) ==
  [trades  |-> IF e.kind = "trade" THEN Push(c.trades, e.ts, e.rec) ELSE c.trades,
   cancels |-> IF e.kind = "withdrawal" THEN Push(c.cancels, e.ts, e.rec) ELSE c.cancels,
   mids    |-> Push(c.mids, e.ts, e.mid2)]

\* apply() of an event the guard accepted.
Apply(e) ==
  /\ ~finished
  /\ Len(tape) < MaxEvents[enabled]
  /\ LET first == IF started THEN next_scan ELSE e.ts + ScanInterval IN
       /\ alerts' = alerts \cup Raised(first, e.ts)
       /\ ctx' = Pushed(Scanned(first, e.ts), e)
       /\ next_scan' = NextScan(first, e.ts)
  /\ started' = TRUE
  /\ now' = e.ts
  /\ tape' = Append(tape, e)
  /\ UNCHANGED <<enabled, finished>>

\* The timestamps the next event may have.
Arrivals == IF started THEN {now + s : s \in Steps[enabled]} ELSE {StartTs}

Quote ==
  \E ts \in Arrivals, mid2 \in Quotes[enabled] :
    Apply([kind |-> "quote", ts |-> ts, mid2 |-> mid2])

\* A trade hits an order that was there.
Trade ==
  \E ts \in Arrivals, t \in Trades[enabled] :
    /\ started
    /\ Apply([kind |-> "trade", ts |-> ts, mid2 |-> t.mid2, rec |-> t.rec])

\* push_cancel: the order withdrawn was entered by one of the quotes.
Withdrawal ==
  \E ts \in Arrivals, c \in Withdrawals[enabled],
     entry_ts \in {tape[i].ts : i \in {j \in DOMAIN tape : tape[j].kind = "quote"}} :
    Apply([kind |-> "withdrawal", ts |-> ts, mid2 |-> c.mid2,
           rec |-> [participant      |-> c.rec.participant,
                    side             |-> c.rec.side,
                    price            |-> c.rec.price,
                    remaining        |-> c.rec.remaining,
                    ticks_from_touch |-> c.rec.ticks_from_touch,
                    entry_ts         |-> entry_ts,
                    order_id         |-> Len(tape) + 1]])

\* finish(): one last pass, far enough ahead that every window closes.
Finish ==
  /\ ~finished
  /\ finished' = TRUE
  /\ alerts' = alerts \cup IF started THEN Raised(next_scan, now + History) ELSE {}
  /\ ctx' = IF started THEN Scanned(next_scan, now + History) ELSE ctx
  /\ next_scan' = IF started THEN NextScan(next_scan, now + History) ELSE next_scan
  /\ UNCHANGED <<enabled, started, now, tape>>

Next == Quote \/ Trade \/ Withdrawal \/ Finish

Spec == Init /\ [][Next]_vars

-----------------------------------------------------------------------------
\* The last scan point that was run (the first event's time before any was).
LastScan == next_scan - ScanInterval

\* The first scan at or after t.
ClosingScan(t) == CHOOSE p \in t .. t + ScanInterval - 1 : (p - StartTs) % ScanInterval = 0

\* No window the enabled detector reads has given up an item for room.
NothingDisplaced ==
  /\ ctx.trades.overflowed = 0
  /\ enabled \in {"spoofing", "layering"} => ctx.cancels.overflowed = 0
  /\ enabled = "momentum_ignition" => ctx.mids.overflowed = 0

OfKind(kind) == {i \in DOMAIN tape : tape[i].kind = kind}

\* The tape has an aggressive trade of pid in direction dir in [lo, hi],
\* applied before the scan at `to` ran.
TookOnTape(pid, dir, lo, hi, to) ==
  \E i \in OfKind("trade") :
    /\ tape[i].rec.taker = pid /\ tape[i].rec.aggressor = dir
    /\ lo <= tape[i].ts /\ tape[i].ts <= hi /\ tape[i].ts < to

(***************************************************************************)
(* A window holds exactly the last WindowCapacity items pushed that are    *)
(* not older than the history, wherever the ring has wrapped, and items    *)
(* are found in the order they came (ring.hpp:29-49, pipeline.cpp:248-252).*)
(***************************************************************************)
HoldsTheRecent(w, pushed) ==
  LET newer(i) == Cardinality({j \in DOMAIN pushed : j > i})
      seen == {pushed[i].ts : i \in DOMAIN pushed} \cup {LastScan}
      kept == {i \in DOMAIN pushed : /\ newer(i) < w.capacity
                                     /\ \A t \in seen : pushed[i].ts >= t - History}
  IN  /\ w.size = Cardinality(kept)
      /\ \A i \in kept : w.buf[Slot(w, w.size - 1 - newer(i))] = pushed[i]

\* What was pushed into a window, by the event it was pushed for.
Printed == [i \in OfKind("trade") |-> [ts |-> tape[i].ts, item |-> tape[i].rec]]
Withdrawn == [i \in OfKind("withdrawal") |-> [ts |-> tape[i].ts, item |-> tape[i].rec]]
Quoted == [i \in DOMAIN tape |-> [ts |-> tape[i].ts, item |-> tape[i].mid2]]

WindowsHoldTheRecent ==
  /\ HoldsTheRecent(ctx.trades, Printed)
  /\ HoldsTheRecent(ctx.cancels, Withdrawn)
  /\ HoldsTheRecent(ctx.mids, Quoted)

(***************************************************************************)
(* Every withdrawal of the right shape, by somebody who took the other     *)
(* side within the window around it, is reported by exactly one scan, and  *)
(* no other is: the slices lag and tile tape time, and the windows reach   *)
(* back far enough (spoofing.cpp:41-55, pipeline.cpp:8-15).  A trade that  *)
(* prints at the very instant of the closing scan is not seen by it.       *)
(***************************************************************************)
SpoofersReportedOnce ==
  enabled = "spoofing" /\ NothingDisplaced =>
    \A i \in OfKind("withdrawal") :
      LET c    == tape[i].rec
          cts  == tape[i].ts
          w    == SpoofingConfig.opposite_window_ns
          guilty == /\ SpoofingGates(c, cts)
                    /\ TookOnTape(c.participant, Opposite(c.side), cts - w, cts + w,
                                  ClosingScan(cts + w))
      IN  cts + w <= LastScan =>
            Cardinality({a \in alerts : c.order_id \in a.orders}) = IF guilty THEN 1 ELSE 0

(***************************************************************************)
(* A layer - all of somebody's withdrawals near the touch on one side,     *)
(* within one span - is reported whole once the window after its last      *)
(* withdrawal has closed, also when it began before the slice of that      *)
(* scan (layering.cpp:55-58).                                              *)
(***************************************************************************)
LayersReportedWhole ==
  enabled = "layering" /\ NothingDisplaced =>
    \A pid \in {tape[i].rec.participant : i \in OfKind("withdrawal")}, side \in Direction :
      LET layer == {i \in OfKind("withdrawal") :
                      /\ tape[i].rec.participant = pid /\ tape[i].rec.side = side
                      /\ tape[i].rec.ticks_from_touch \in 0 .. LayeringConfig.near_touch_ticks}
          first == tape[Min(layer)].ts
          last  == tape[Max(layer)].ts
          w     == LayeringConfig.opposite_window_ns
      IN  /\ layer # {}
          /\ last - first <= LayeringConfig.cancel_span_ns
          /\ Cardinality(layer) >= LayeringConfig.min_orders
          /\ Cardinality({tape[i].rec.price : i \in layer}) >= LayeringConfig.min_levels
          /\ last + w <= LastScan
          /\ TookOnTape(pid, Opposite(side), first - w, last + w, ClosingScan(last + w))
          => \E a \in alerts : a.orders = layer

(***************************************************************************)
(* Two accounts that bought from one another within the window less one    *)
(* scan interval are reported by the scan that follows the later print,    *)
(* unless that print fell on a scan point: then it came after that scan    *)
(* and is no longer new to the next (wash_trading.cpp:84-95).              *)
(***************************************************************************)
WashesReported ==
  enabled = "wash_trading" /\ NothingDisplaced =>
    \A i, j \in OfKind("trade") :
      LET a == tape[i].rec
          b == tape[j].rec
      IN  /\ i < j
          /\ a.taker # a.maker /\ {a.taker, a.maker} = {b.taker, b.maker}
          /\ Buyer(a) # Buyer(b)
          /\ a.qty + b.qty >= WashConfig.min_gross_qty
          /\ tape[j].ts - tape[i].ts <= WashConfig.window_ns - ScanInterval
          /\ ClosingScan(tape[j].ts) \in tape[j].ts + 1 .. LastScan
          => \E x \in alerts : /\ {x.participant, x.counterparty} = {a.taker, a.maker}
                               /\ x.detect_ts = ClosingScan(tape[j].ts)
                               /\ x.start_ts <= tape[i].ts /\ tape[j].ts <= x.end_ts

\* The mid at t according to the whole tape.
MidOnTape(t) ==
  LET past == {i \in DOMAIN tape : tape[i].ts <= t} IN
  IF past = {} THEN NoPrice ELSE tape[Max(past)].mid2

\* According to the whole tape, pid moved the price over the burst before the
\* scan at `to` and traded back afterwards.
IgnitedOnTape(pid, to) ==
  LET lo == BurstStart(to)
      hi == BurstEnd(to)
      dir == IF MidOnTape(hi) > MidOnTape(lo) THEN "Buy" ELSE "Sell"
      burst == {i \in OfKind("trade") : lo <= tape[i].ts /\ tape[i].ts <= hi}
      with  == {i \in burst : tape[i].rec.taker = pid /\ tape[i].rec.aggressor = dir}
      against == {i \in burst : tape[i].rec.taker = pid /\ tape[i].rec.aggressor # dir}
      back  == {i \in OfKind("trade") :
                  /\ hi <= tape[i].ts /\ tape[i].ts <= hi + MomentumConfig.reversal_ns
                  /\ tape[i].ts < to
                  /\ SideOf(tape[i].rec, pid) = Opposite(dir)}
      qty(S) == SumOf(S, LAMBDA i : tape[i].rec.qty)
  IN  /\ NoPrice \notin {MidOnTape(lo), MidOnTape(hi)}
      /\ MaxOf(MidOnTape(hi) - MidOnTape(lo), MidOnTape(lo) - MidOnTape(hi))
           >= 2 * TickSize * MomentumConfig.min_move_ticks
      /\ Cardinality({tape[i].rec.taker_order : i \in with}) >= MomentumConfig.min_orders
      /\ qty(with) > qty(against)
      /\ AtLeast(qty(with), qty(burst), MomentumConfig.min_share)
      /\ AtLeast(qty(back), qty(with), MomentumConfig.min_reverse_fraction)

(***************************************************************************)
(* A burst is reported exactly when the whole tape says the participant    *)
(* moved the price and traded back, provided a print not older than the    *)
(* history precedes it: after a longer silence the detector takes the      *)
(* burst for one it cannot see the beginning of                            *)
(* (momentum_ignition.cpp:61-111, detector.hpp:118-123).                   *)
(***************************************************************************)
IgnitionsReported ==
  enabled = "momentum_ignition" /\ NothingDisplaced =>
    \A to \in ScanPoints(StartTs + ScanInterval, LastScan),
       pid \in {tape[i].rec.taker : i \in OfKind("trade")} :
      LET reach == /\ BurstStart(to) > 0
                   /\ \E i \in OfKind("trade") : /\ to - History <= tape[i].ts
                                                 /\ tape[i].ts <= BurstStart(to)
      IN  (\E a \in alerts : a.participant = pid /\ a.detect_ts = to)
            <=> reach /\ IgnitedOnTape(pid, to)

(***************************************************************************)
(* The stretch of tape an alert is about lies before its detection and, so *)
(* that the damage list still covers it, not further back than the history *)
(* (pipeline.cpp:124, 283-290).  Layering is the exception: it has no gate *)
(* on how long the orders had been there.                                  *)
(***************************************************************************)
EvidenceIsRecent ==
  \A a \in alerts :
    /\ a.start_ts <= a.end_ts /\ a.end_ts <= a.detect_ts
    /\ a.detector # "layering" => a.detect_ts - History <= a.start_ts
=============================================================================
