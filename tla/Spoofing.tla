------------------------------ MODULE Spoofing ------------------------------
(***************************************************************************)
(* SpoofingDetector::scan (detectors/spoofing.cpp): a large order near the *)
(* touch, withdrawn soon after it was entered, by somebody who took        *)
(* liquidity on the other side within the window around the withdrawal.    *)
(*                                                                         *)
(* The score, its signals and the penalty are left out: they decide only   *)
(* whether the alert clears min_score, which stands at 0 here and which a  *)
(* score is never below.                                                   *)
(***************************************************************************)
EXTENDS DetectorCommon

CONSTANT SpoofingConfig  \* the gates of struct SpoofingConfig

\* Mutant of SpoofingGates: the lifetime is not looked at.
SpoofingGatesAnyLife(c, cts) ==
  /\ c.remaining >= SpoofingConfig.min_qty
  /\ 0 <= c.ticks_from_touch /\ c.ticks_from_touch <= SpoofingConfig.near_touch_ticks
  /\ c.entry_ts <= cts

\* The returns of evaluate before it looks at any trade.
SpoofingGates(c, cts) ==
  /\ c.remaining >= SpoofingConfig.min_qty
  /\ 0 <= c.ticks_from_touch /\ c.ticks_from_touch <= SpoofingConfig.near_touch_ticks
  /\ c.entry_ts <= cts
  /\ cts - c.entry_ts <= 3 * SpoofingConfig.max_lifetime_ns

\* What the participant took on the other side around the withdrawal.
SpoofingBenefit(ctx, c, cts) ==
  DirectionalQty(ctx.trades, c.participant, Opposite(c.side),
                 cts - SpoofingConfig.opposite_window_ns,
                 cts + SpoofingConfig.opposite_window_ns, "Aggressor")

SpoofingAlert(ctx, c, cts, detect_ts) ==
  LET benefit == SpoofingBenefit(ctx, c, cts) IN
  [detector    |-> "spoofing",
   participant |-> c.participant,
   counterparty |-> Nobody,
   start_ts    |-> IF benefit.first = 0 THEN c.entry_ts
                                        ELSE MinOf(c.entry_ts, benefit.first),
   end_ts      |-> MaxOf(cts, benefit.last),
   detect_ts   |-> detect_ts,
   orders      |-> {c.order_id}]

\* Mutant of SpoofingAnchors: the slice is closed at both ends.
SpoofingAnchorsClosed(ctx, from, to) ==
  Slice(ctx.cancels, from - SpoofingConfig.opposite_window_ns,
                     to - SpoofingConfig.opposite_window_ns)

\* The withdrawals a scan judges: those for which the window on both sides has
\* gone by, and had not at the scan before.
SpoofingAnchors(ctx, from, to) ==
  Slice(ctx.cancels, from - SpoofingConfig.opposite_window_ns + 1,
                     to - SpoofingConfig.opposite_window_ns)

SpoofingScan(ctx, from, to) ==
  {SpoofingAlert(ctx, ItemAt(ctx.cancels, i), TsAt(ctx.cancels, i), to) :
     i \in {j \in SpoofingAnchors(ctx, from, to) :
              LET c   == ItemAt(ctx.cancels, j)
                  cts == TsAt(ctx.cancels, j)
              IN  SpoofingGates(c, cts) /\ SpoofingBenefit(ctx, c, cts).qty > 0}}
=============================================================================
