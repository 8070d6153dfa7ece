---------------------------- MODULE MCDetectors ----------------------------
(***************************************************************************)
(* An instance of Detectors: a configuration per detector with windows of  *)
(* a few nanoseconds, and per detector the events that its gates tell      *)
(* apart.  Tape times are chosen so that events fall on, before and after  *)
(* scan points and window edges, and one step outlasts the history.        *)
(***************************************************************************)
EXTENDS Detectors

MCSpoofingConfig ==
  [opposite_window_ns |-> 3, max_lifetime_ns |-> 1, near_touch_ticks |-> 2, min_qty |-> 2]
MCLayeringConfig ==
  [opposite_window_ns |-> 3, cancel_span_ns |-> 2, placement_window_ns |-> 1,
   near_touch_ticks |-> 2, min_levels |-> 2, min_orders |-> 2]
MCWashConfig == [window_ns |-> 6, min_gross_qty |-> 2]
MCMomentumConfig ==
  [burst_ns |-> 2, reversal_ns |-> 3, revert_ns |-> 3, min_move_ticks |-> 2,
   min_orders |-> 2, min_share |-> [num |-> 1, den |-> 2],
   min_reverse_fraction |-> [num |-> 1, den |-> 2]]

Fill(taker, aggressor, maker, order, mid2) ==
  [mid2 |-> mid2,
   rec  |-> [taker |-> taker, maker |-> maker, aggressor |-> aggressor,
             taker_order |-> order, qty |-> 1]]

Pull(price, remaining, ticks, mid2) ==
  [mid2 |-> mid2,
   rec  |-> [participant |-> 1, side |-> "Buy", price |-> price,
             remaining |-> remaining, ticks_from_touch |-> ticks]]

MCQuotes ==
  [k \in Kind |-> IF k = "momentum_ignition" THEN {100, NoPrice} ELSE {100}]

MCTrades ==
  [spoofing |-> {Fill(1, "Sell", 2, 1, 100), Fill(1, "Buy", 2, 1, 100),
                 Fill(2, "Buy", 1, 2, 100)},
   layering |-> {Fill(1, "Sell", 2, 1, 100), Fill(2, "Buy", 1, 2, 100)},
   wash_trading |-> {Fill(1, "Buy", 2, 1, 100), Fill(1, "Sell", 2, 1, 100),
                     Fill(2, "Buy", 1, 2, 100), Fill(3, "Buy", 2, 3, 100),
                     Fill(1, "Buy", 1, 1, 100)},
   momentum_ignition |-> {Fill(1, "Buy", 2, 1, 100), Fill(1, "Buy", 2, 1, 104),
                          Fill(1, "Buy", 2, 2, 104), Fill(1, "Sell", 2, 3, 100),
                          Fill(2, "Buy", 1, 4, 104)}]

MCWithdrawals ==
  [spoofing |-> {Pull(99, 2, 1, 100), Pull(99, 1, 1, 100), Pull(99, 2, 3, 100)},
   layering |-> {Pull(99, 2, 1, 100), Pull(98, 2, 2, 100), Pull(97, 2, 3, 100)},
   wash_trading |-> {},
   momentum_ignition |-> {}]

MCSteps ==
  [spoofing |-> {0, 1, 3, 14}, layering |-> {0, 1, 2}, wash_trading |-> {0, 1, 3, 14},
   momentum_ignition |-> {0, 1, 2, 14}]

MCMaxEvents ==
  [spoofing |-> 4, layering |-> 5, wash_trading |-> 4, momentum_ignition |-> 4]

MCWindowCapacity ==
  [spoofing |-> 2, layering |-> 3, wash_trading |-> 3, momentum_ignition |-> 4]
=============================================================================
