--------------------------- MODULE DetectorCommon ---------------------------
(***************************************************************************)
(* What the four detectors share (detector.hpp, detectors/common.hpp): the *)
(* records in the windows, the context of a symbol, who stood on which     *)
(* side of a trade, and the quantity somebody traded one way in a slice.   *)
(*                                                                         *)
(* A context is [trades, cancels, mids], three windows.  The window of     *)
(* placements only feeds the two-sidedness penalty of a score and is left  *)
(* out with the scores; so is mid2_before of a trade.                      *)
(***************************************************************************)
EXTENDS TimeWindow

Direction == {"Buy", "Sell"}
Opposite(side) == IF side = "Buy" THEN "Sell" ELSE "Buy"

NoPrice == -1  \* kNoPrice: a value no mid has
Nobody == 0    \* the counterparty of an alert that has none

\* participant_side: the taker is looked at first, also in a self-trade.
SideOf(t, pid) ==
  IF t.taker = pid THEN t.aggressor
  ELSE IF t.maker = pid THEN Opposite(t.aggressor) ELSE "none"

\* role_matches.
RoleMatches(t, pid, role) ==
  \/ role \in {"Aggressor", "Any"} /\ t.taker = pid
  \/ role \in {"Maker", "Any"} /\ t.maker = pid

SumOf(positions, f(_)) == MapThenSumSet(f, positions)

\* The timestamps first_ts and last_ts point at after the loop; 0 is "none
\* yet" for both.
Earliest(stamps) == IF stamps \subseteq {0} THEN 0 ELSE Min(stamps \ {0})
Latest(stamps) == Max(stamps \cup {0})

\* directional_qty: what pid traded in direction want, in that role, in
\* [lo, hi], with the first and the last time it did.
DirectionalQty(trades, pid, want, lo, hi, role) ==
  LET hits == {i \in Slice(trades, lo, hi) :
                 /\ SideOf(ItemAt(trades, i), pid) = want
                 /\ RoleMatches(ItemAt(trades, i), pid, role)}
      stamps == {TsAt(trades, i) : i \in hits}
  IN  [qty   |-> SumOf(hits, LAMBDA i : ItemAt(trades, i).qty),
       first |-> Earliest(stamps),
       last  |-> Latest(stamps)]

\* SymbolContext::mid2_at: the mid at or immediately before t.
Mid2At(ctx, t) ==
  LET i == LowerBound(ctx.mids, t + 1) IN
  IF i = 0 THEN NoPrice ELSE ItemAt(ctx.mids, i - 1)

MinOf(a, b) == Min({a, b})
MaxOf(a, b) == Max({a, b})
=============================================================================
