------------------------------ MODULE Layering ------------------------------
(***************************************************************************)
(* LayeringDetector::scan (detectors/layering.cpp): a stack of orders near *)
(* the touch, on one side and over several prices, withdrawn within one    *)
(* span of time by somebody who took liquidity on the other side.  The     *)
(* score is left out, as in Spoofing.                                      *)
(***************************************************************************)
EXTENDS DetectorCommon

CONSTANT LayeringConfig  \* the gates of struct LayeringConfig

\* Mutant of Gathered: no lookback, a cluster is cut where the slice begins.
GatheredFromSlice(ctx, from, to) ==
  {i \in Slice(ctx.cancels, from - LayeringConfig.opposite_window_ns,
                            to - LayeringConfig.opposite_window_ns) :
     /\ 0 <= ItemAt(ctx.cancels, i).ticks_from_touch
     /\ ItemAt(ctx.cancels, i).ticks_from_touch <= LayeringConfig.near_touch_ticks}

\* The withdrawals that could belong to a cluster ending in the slice: the
\* lookback of one span is for a cluster that began before it.
Gathered(ctx, from, to) ==
  {i \in Slice(ctx.cancels,
               from - LayeringConfig.opposite_window_ns - LayeringConfig.cancel_span_ns,
               to - LayeringConfig.opposite_window_ns) :
     /\ 0 <= ItemAt(ctx.cancels, i).ticks_from_touch
     /\ ItemAt(ctx.cancels, i).ticks_from_touch <= LayeringConfig.near_touch_ticks}

\* groups: per participant and side, what was gathered, as positions in the
\* window; they are in timestamp order already.
LayeringGroup(ctx, pid, side, from, to) ==
  {i \in Gathered(ctx, from, to) : /\ ItemAt(ctx.cancels, i).participant = pid
                                   /\ ItemAt(ctx.cancels, i).side = side}

\* The run of a group that ends at position hi: all of it within one span.
RunEndingAt(ctx, group, hi) ==
  {i \in group :
     i <= hi /\ TsAt(ctx.cancels, hi) - TsAt(ctx.cancels, i) <= LayeringConfig.cancel_span_ns}

\* The widest run that ends in the slice (anchor_lo, anchor_hi]; the last of
\* equally wide ones.  The sweep's initial value stands for no run at all.
WidestRun(ctx, group, from, to) ==
  LET ends == {i \in group :
                 /\ from - LayeringConfig.opposite_window_ns < TsAt(ctx.cancels, i)
                 /\ TsAt(ctx.cancels, i) <= to - LayeringConfig.opposite_window_ns}
      width(hi) == Cardinality(RunEndingAt(ctx, group, hi))
      widest == {hi \in ends : \A other \in ends : width(other) <= width(hi)}
  IN  IF ends = {} THEN {} ELSE RunEndingAt(ctx, group, Max(widest))

\* What the participant took on the other side around a run.
LayeringBenefit(ctx, pid, side, run) ==
  DirectionalQty(ctx.trades, pid, Opposite(side),
                 TsAt(ctx.cancels, Min(run)) - LayeringConfig.opposite_window_ns,
                 TsAt(ctx.cancels, Max(run)) + LayeringConfig.opposite_window_ns,
                 "Aggressor")

\* The returns of evaluate_group.
LayeringGates(ctx, pid, side, run) ==
  /\ run # {}
  /\ Cardinality(run) >= LayeringConfig.min_orders
  /\ Cardinality({ItemAt(ctx.cancels, i).price : i \in run}) >= LayeringConfig.min_levels
  /\ LayeringBenefit(ctx, pid, side, run).qty > 0

LayeringAlert(ctx, pid, side, run, detect_ts) ==
  LET benefit == LayeringBenefit(ctx, pid, side, run)
      entry_first == Min({ItemAt(ctx.cancels, i).entry_ts : i \in run})
  IN  [detector     |-> "layering",
       participant  |-> pid,
       counterparty |-> Nobody,
       start_ts     |-> IF benefit.first = 0 THEN entry_first
                                             ELSE MinOf(entry_first, benefit.first),
       end_ts       |-> MaxOf(TsAt(ctx.cancels, Max(run)), benefit.last),
       detect_ts    |-> detect_ts,
       orders       |-> {ItemAt(ctx.cancels, i).order_id : i \in run}]

LayeringScan(ctx, from, to) ==
  LET who == {ItemAt(ctx.cancels, i).participant : i \in Positions(ctx.cancels)}
      run(pid, side) == WidestRun(ctx, LayeringGroup(ctx, pid, side, from, to), from, to)
      hits == {g \in who \X Direction : LayeringGates(ctx, g[1], g[2], run(g[1], g[2]))}
  IN  {LayeringAlert(ctx, g[1], g[2], run(g[1], g[2]), to) : g \in hits}
=============================================================================
