---------------------------- MODULE WashTrading ----------------------------
(***************************************************************************)
(* WashDetector::scan (detectors/wash_trading.cpp): trading with oneself,  *)
(* or back and forth between two accounts, in the window before a scan.    *)
(* Participants are numbers, as in the code, so that a pair has a lower    *)
(* and a higher one.  The score is left out, as in Spoofing, and with it   *)
(* net positions, breadth and off-market prints.                           *)
(***************************************************************************)
EXTENDS DetectorCommon

CONSTANT WashConfig  \* the gates of struct WashConfig

\* Nothing new printed since the scan before.
NothingNew(trades, from) == trades.size = 0 \/ BackTs(trades) <= from

\* Mutant of WashPrints: the window ends with the slice of the scan.
WashPrintsOfSlice(trades, from, to) == Slice(trades, from + 1, to)

\* The prints a scan looks at: the whole window, not just what is new.
WashPrints(trades, from, to) == Slice(trades, to - WashConfig.window_ns, to)

Buyer(t) == IF t.aggressor = "Buy" THEN t.taker ELSE t.maker

\* PairAgg and PidAgg: the prints of a pair, of a participant and of a
\* participant with itself.
PairPrints(trades, prints, lo_id, hi_id) ==
  {i \in prints : {ItemAt(trades, i).taker, ItemAt(trades, i).maker} = {lo_id, hi_id}}
PidPrints(trades, prints, pid) ==
  {i \in prints : pid \in {ItemAt(trades, i).taker, ItemAt(trades, i).maker}}
SelfPrints(trades, prints, pid) == PairPrints(trades, prints, pid, pid)

Volume(trades, prints) == SumOf(prints, LAMBDA i : ItemAt(trades, i).qty)

WashAlert(trades, prints, pid, counterparty, detect_ts) ==
  LET stamps == {TsAt(trades, i) : i \in prints} IN
  [detector     |-> "wash_trading",
   participant  |-> pid,
   counterparty |-> counterparty,
   start_ts     |-> Earliest(stamps),
   end_ts       |-> Latest(stamps),
   detect_ts    |-> detect_ts,
   orders       |-> {}]

SelfAlerts(trades, prints, detect_ts) ==
  {WashAlert(trades, PidPrints(trades, prints, pid), pid, pid, detect_ts) :
     pid \in {p \in {ItemAt(trades, i).taker : i \in prints} :
                /\ Volume(trades, SelfPrints(trades, prints, p)) > 0
                /\ Volume(trades, PidPrints(trades, prints, p)) >= WashConfig.min_gross_qty}}

\* Each of the two bought from the other.
BothWays(trades, pair, lo_id) ==
  /\ Volume(trades, {i \in pair : Buyer(ItemAt(trades, i)) = lo_id}) > 0
  /\ Volume(trades, {i \in pair : Buyer(ItemAt(trades, i)) # lo_id}) > 0

PairAlerts(trades, prints, detect_ts) ==
  LET traders == UNION {{ItemAt(trades, i).taker, ItemAt(trades, i).maker} : i \in prints}
      washes(lo_id, hi_id) ==
        LET pair == PairPrints(trades, prints, lo_id, hi_id) IN
        BothWays(trades, pair, lo_id) /\ Volume(trades, pair) >= WashConfig.min_gross_qty
  IN  {WashAlert(trades, PairPrints(trades, prints, k[1], k[2]), k[1], k[2], detect_ts) :
         k \in {p \in traders \X traders : p[1] < p[2] /\ washes(p[1], p[2])}}

WashScan(ctx, from, to) ==
  LET prints == WashPrints(ctx.trades, from, to) IN
  IF NothingNew(ctx.trades, from) \/ Volume(ctx.trades, prints) <= 0
    THEN {}
    ELSE SelfAlerts(ctx.trades, prints, to) \cup PairAlerts(ctx.trades, prints, to)
=============================================================================
