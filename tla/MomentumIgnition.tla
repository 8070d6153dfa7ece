-------------------------- MODULE MomentumIgnition --------------------------
(***************************************************************************)
(* MomentumDetector::scan (detectors/momentum_ignition.cpp): a burst of    *)
(* aggressive orders that moved the price, judged only once revert_ns of   *)
(* tape has passed, and only if the participant traded back afterwards.    *)
(* The two fractions of the configuration are [num, den], compared by      *)
(* cross-multiplication.  The score is left out, as in Spoofing, and with  *)
(* it how much of the move was given back.                                 *)
(***************************************************************************)
EXTENDS DetectorCommon

CONSTANTS
  MomentumConfig,  \* the gates of struct MomentumConfig
  TickSize         \* tick_size

BurstEnd(to) == to - MomentumConfig.revert_ns
BurstStart(to) == BurstEnd(to) - MomentumConfig.burst_ns

AtLeast(part, whole, fraction) == part * fraction.den >= whole * fraction.num

\* The scan judges a burst: tape time and the trades reach back far enough.
BurstInReach(trades, to) ==
  /\ BurstStart(to) > 0
  /\ trades.size > 0
  /\ FrontTs(trades) <= BurstStart(to)

BurstPrints(trades, to) == Slice(trades, BurstStart(to), BurstEnd(to))

Aggressive(trades, prints, pid, dir) ==
  {i \in prints : ItemAt(trades, i).taker = pid /\ ItemAt(trades, i).aggressor = dir}

Quantity(trades, prints) == SumOf(prints, LAMBDA i : ItemAt(trades, i).qty)

\* Twice the price move over the burst, as the difference of two mid2.
Move2(ctx, to) == Mid2At(ctx, BurstEnd(to)) - Mid2At(ctx, BurstStart(to))

MoveDirection(ctx, to) == IF Move2(ctx, to) > 0 THEN "Buy" ELSE "Sell"

\* The price was known on both ends of the burst and moved far enough.
Moved(ctx, to) ==
  /\ Mid2At(ctx, BurstStart(to)) # NoPrice
  /\ Mid2At(ctx, BurstEnd(to)) # NoPrice
  /\ MaxOf(Move2(ctx, to), -Move2(ctx, to)) \div (2 * TickSize)
       >= MomentumConfig.min_move_ticks

\* Mutant of Ignites: fills are counted, not orders.
IgnitesByFills(ctx, to, pid) ==
  LET prints == BurstPrints(ctx.trades, to)
      dir    == MoveDirection(ctx, to)
      with   == Aggressive(ctx.trades, prints, pid, dir)
      against == Aggressive(ctx.trades, prints, pid, Opposite(dir))
  IN  /\ Cardinality(with) >= MomentumConfig.min_orders
      /\ Quantity(ctx.trades, with) > Quantity(ctx.trades, against)
      /\ AtLeast(Quantity(ctx.trades, with), Quantity(ctx.trades, prints),
                 MomentumConfig.min_share)

\* The gates on a participant: enough distinct orders, in the direction of the
\* move, and the move was theirs.
Ignites(ctx, to, pid) ==
  LET prints == BurstPrints(ctx.trades, to)
      dir    == MoveDirection(ctx, to)
      with   == Aggressive(ctx.trades, prints, pid, dir)
      against == Aggressive(ctx.trades, prints, pid, Opposite(dir))
  IN  /\ Cardinality({ItemAt(ctx.trades, i).taker_order : i \in with})
           >= MomentumConfig.min_orders
      /\ Quantity(ctx.trades, with) > Quantity(ctx.trades, against)
      /\ AtLeast(Quantity(ctx.trades, with), Quantity(ctx.trades, prints),
                 MomentumConfig.min_share)

\* What the participant traded back after the burst, in any role.
Reversal(ctx, to, pid) ==
  DirectionalQty(ctx.trades, pid, Opposite(MoveDirection(ctx, to)), BurstEnd(to),
                 BurstEnd(to) + MomentumConfig.reversal_ns, "Any")

Reverses(ctx, to, pid) ==
  AtLeast(Reversal(ctx, to, pid).qty,
          Quantity(ctx.trades, Aggressive(ctx.trades, BurstPrints(ctx.trades, to), pid,
                                          MoveDirection(ctx, to))),
          MomentumConfig.min_reverse_fraction)

MomentumAlert(ctx, to, pid) ==
  LET mine == {i \in BurstPrints(ctx.trades, to) : ItemAt(ctx.trades, i).taker = pid} IN
  [detector     |-> "momentum_ignition",
   participant  |-> pid,
   counterparty |-> Nobody,
   start_ts     |-> Earliest({TsAt(ctx.trades, i) : i \in mine}),
   end_ts       |-> MaxOf(Reversal(ctx, to, pid).last, BurstEnd(to)),
   detect_ts    |-> to,
   orders       |-> {}]

MomentumScan(ctx, from, to) ==
  IF BurstInReach(ctx.trades, to) /\ Moved(ctx, to)
    THEN {MomentumAlert(ctx, to, pid) :
            pid \in {p \in {ItemAt(ctx.trades, i).taker : i \in BurstPrints(ctx.trades, to)} :
                       Ignites(ctx, to, p) /\ Reverses(ctx, to, p)}}
    ELSE {}
=============================================================================
