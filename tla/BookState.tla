------------------------------ MODULE BookState ------------------------------
(***************************************************************************)
(* The order book rebuilt from the tape: class BookState of book_state.hpp *)
(* and book_state.cpp, driven by Pipeline::apply.  Each market event goes  *)
(* to its handler; if the book is crossed after it, repair_cross discards  *)
(* levels until it is not, or until RepairRounds of them have gone.        *)
(*                                                                         *)
(* The orders are kept in a map; the levels, the totals per side and the   *)
(* footprint per participant are kept beside it and updated piecemeal.     *)
(* That the two never drift apart is the point of the module.              *)
(*                                                                         *)
(* Left out: what an order remembers of the book at its entry, and the     *)
(* depth queries; no property depends on them.                             *)
(***************************************************************************)
EXTENDS Integers, FiniteSets, FiniteSetsExt

CONSTANTS
  OrderId, Participant,
  Price, NoPrice,     \* the prices events carry, and kNoPrice
  Quantity,           \* the quantities events carry: the parser reads signed numbers
  MaxOrders,          \* max_orders_
  RepairRounds,       \* the bound on the loop of repair_cross: 64 in the code
  MaxTs, MaxEvents    \* bounds: tape time, and how many events the book is fed

ASSUME PriceAssumption == Price \subseteq Int /\ NoPrice \notin Int
ASSUME QuantityAssumption == Quantity \subseteq Int
ASSUME MaxOrdersAssumption == MaxOrders \in Nat \ {0}
ASSUME RepairRoundsAssumption == RepairRounds \in Nat

Side == {"Buy", "Sell"}

VARIABLES
  orders,    \* orders_: the resting orders, by id
  agg,       \* bids_ and asks_ (levels), side_qty_, side_orders_, footprint_
  stats,     \* the counters of BookStats
  now,       \* the timestamp of the last event
  stage,     \* "idle" between events; "repair" and "erase" inside repair_cross
  round,     \* guard, the loop counter of repair_cross
  ids,       \* ids: the orders of the discarded level still to be erased
  departed,  \* history: how many orders were cancelled, amended away or filled
  entrant,   \* history: the order last added or amended
  fedEvents  \* history: how many events the book was fed

bookVars == <<orders, agg, stats, now, stage, round, ids, departed, entrant, fedEvents>>

Counter == {"orders_added", "orders_dropped_cap", "unknown_cancel", "unknown_modify",
            "unknown_maker", "duplicate_order_id", "crossed_observations",
            "oversized_fill", "stale_levels_removed", "stale_orders_removed"}

Count(c) == [stats EXCEPT ![c] = @ + 1]

Max2(a, b) == IF a >= b THEN a ELSE b
Min2(a, b) == IF a <= b THEN a ELSE b

\* Functions as maps: one binding set, one removed.
Bind(f, k, v) == [x \in DOMAIN f \cup {k} |-> IF x = k THEN v ELSE f[x]]
Unbind(f, k) == [x \in DOMAIN f \ {k} |-> f[x]]

-----------------------------------------------------------------------------
(***************************************************************************)
(* The aggregates.                                                         *)
(***************************************************************************)
NoLevel == [quantity |-> 0, orders |-> 0, newest_ts |-> 0]

LevelAt(a, s, px) == IF px \in DOMAIN a.levels[s] THEN a.levels[s][px] ELSE NoLevel

AddLevel(a, s, px, q, ts) ==
  LET old == LevelAt(a, s, px)
      new == [quantity  |-> old.quantity + q,
              orders    |-> old.orders + 1,
              newest_ts |-> Max2(old.newest_ts, ts)] IN
  [a EXCEPT !.levels[s] = Bind(@, px, new),
            !.side_qty[s] = @ + q,
            !.side_orders[s] = @ + 1]

\* Mutant of RemoveLevel: the order leaves the level but not the side total.
RemoveLevelKeepsSide(a, s, px, q) ==
  IF px \notin DOMAIN a.levels[s] THEN a ELSE
  LET left == [a.levels[s][px] EXCEPT !.quantity = @ - q, !.orders = Max2(@ - 1, 0)] IN
  [a EXCEPT !.levels[s] = IF left.quantity <= 0 \/ left.orders = 0
                            THEN Unbind(@, px) ELSE Bind(@, px, left),
            !.side_qty[s] = @ - q]

RemoveLevel(a, s, px, q) ==
  IF px \notin DOMAIN a.levels[s] THEN a ELSE
  LET left == [a.levels[s][px] EXCEPT !.quantity = @ - q, !.orders = Max2(@ - 1, 0)] IN
  [a EXCEPT !.levels[s] = IF left.quantity <= 0 \/ left.orders = 0
                            THEN Unbind(@, px) ELSE Bind(@, px, left),
            !.side_qty[s] = @ - q,
            !.side_orders[s] = Max2(@ - 1, 0)]

ReduceLevel(a, s, px, q) ==
  IF px \notin DOMAIN a.levels[s] THEN a ELSE
  LET left == [a.levels[s][px] EXCEPT !.quantity = @ - q]
      gone == left.quantity <= 0 IN
  [a EXCEPT !.levels[s] = IF gone THEN Unbind(@, px) ELSE Bind(@, px, left),
            !.side_qty[s] = @ - q,
            !.side_orders[s] = IF gone THEN @ - Min2(@, left.orders) ELSE @]

\* The footprint of a participant: q lots and n orders more (or fewer) on a side.
Footprint(a, p, s, q, n) ==
  [a EXCEPT !.footprint[p][s] =
     [qty |-> @.qty + q, orders |-> Max2(@.orders + n, 0)]]

Enter(a, o, ts) ==
  Footprint(AddLevel(a, o.side, o.price, o.remaining, ts),
            o.participant, o.side, o.remaining, 1)

Leave(a, o) ==
  Footprint(RemoveLevel(a, o.side, o.price, o.remaining),
            o.participant, o.side, -o.remaining, -1)

Best(a, s) ==
  IF DOMAIN a.levels[s] = {} THEN NoPrice
  ELSE IF s = "Buy" THEN Max(DOMAIN a.levels[s]) ELSE Min(DOMAIN a.levels[s])

CrossedBook(a) ==
  LET bb == Best(a, "Buy")
      ba == Best(a, "Sell") IN
  bb # NoPrice /\ ba # NoPrice /\ bb >= ba

Crossed == CrossedBook(agg)

-----------------------------------------------------------------------------
BookInit ==
  /\ orders = [id \in {} |-> NoPrice]
  /\ agg = [levels |-> [s \in Side |-> [px \in {} |-> NoLevel]],
            side_qty |-> [s \in Side |-> 0],
            side_orders |-> [s \in Side |-> 0],
            footprint |-> [p \in Participant |-> [s \in Side |-> [qty |-> 0, orders |-> 0]]]]
  /\ stats = [c \in Counter |-> 0]
  /\ now = 0
  /\ stage = "idle"
  /\ round = 0
  /\ ids = {}
  /\ departed = 0
  /\ entrant = NoPrice
  /\ fedEvents = 0

\* An event is handed to the book: tape time never steps back.
Arrive ==
  /\ stage = "idle"
  /\ fedEvents < MaxEvents
  /\ fedEvents' = fedEvents + 1
  /\ now' \in now .. MaxTs

\* After the handler: Pipeline::apply repairs a crossed book.
ThenRepair ==
  /\ stage' = IF CrossedBook(agg') THEN "repair" ELSE "idle"
  /\ round' = 0
  /\ UNCHANGED ids

\* note_crossed, after the counter the handler itself moved.
NoteCrossed(c) ==
  IF CrossedBook(agg') THEN [c EXCEPT !["crossed_observations"] = @ + 1] ELSE c

\* The event found nothing to act on: only a counter moves.
Refuse(counters) ==
  /\ stats' = counters
  /\ UNCHANGED <<orders, agg, departed, entrant>>
  /\ ThenRepair

OnOrderRefused(id, q, px) ==
  /\ Arrive
  /\ \/ id \in DOMAIN orders /\ Refuse(Count("duplicate_order_id"))
     \/ /\ id \notin DOMAIN orders
        /\ Cardinality(DOMAIN orders) >= MaxOrders
        /\ Refuse(Count("orders_dropped_cap"))
     \/ /\ id \notin DOMAIN orders
        /\ Cardinality(DOMAIN orders) < MaxOrders
        /\ q <= 0 \/ px = NoPrice
        /\ Refuse(stats)

\* Mutant of OnOrder: the cap is compared with > instead of >=.
OnOrderOverCap(id, p, s, px, q) ==
  /\ Arrive
  /\ id \notin DOMAIN orders
  /\ Cardinality(DOMAIN orders) <= MaxOrders
  /\ q > 0 /\ px # NoPrice
  /\ LET r == [participant |-> p, side |-> s, price |-> px, original_qty |-> q,
               remaining |-> q, filled |-> 0, entry_ts |-> now'] IN
     /\ orders' = Bind(orders, id, r)
     /\ agg' = Enter(agg, r, now')
  /\ stats' = NoteCrossed(Count("orders_added"))
  /\ entrant' = id
  /\ ThenRepair
  /\ UNCHANGED departed

OnOrder(id, p, s, px, q) ==
  /\ Arrive
  /\ id \notin DOMAIN orders
  /\ Cardinality(DOMAIN orders) < MaxOrders
  /\ q > 0 /\ px # NoPrice
  /\ LET r == [participant |-> p, side |-> s, price |-> px, original_qty |-> q,
               remaining |-> q, filled |-> 0, entry_ts |-> now'] IN
     /\ orders' = Bind(orders, id, r)
     /\ agg' = Enter(agg, r, now')
  /\ stats' = NoteCrossed(Count("orders_added"))
  /\ entrant' = id
  /\ ThenRepair
  /\ UNCHANGED departed

\* on_cancel, and an amend to zero: the order leaves the book.
Withdraw(id) ==
  /\ agg' = Leave(agg, orders[id])
  /\ orders' = Unbind(orders, id)
  /\ departed' = departed + 1
  /\ ThenRepair
  /\ UNCHANGED <<stats, entrant>>

OnCancel(id) ==
  /\ Arrive
  /\ \/ id \notin DOMAIN orders /\ Refuse(Count("unknown_cancel"))
     \/ id \in DOMAIN orders /\ Withdraw(id)

\* Mutant of Amend: the original quantity is left as it was.
AmendKeepsOriginal(id, px, q) ==
  LET old == orders[id]
      new_px == IF px = NoPrice THEN old.price ELSE px
      new == [old EXCEPT !.price = new_px,
                         !.remaining = q,
                         !.entry_ts = IF new_px # old.price THEN now' ELSE @] IN
  /\ orders' = [orders EXCEPT ![id] = new]
  /\ agg' = Enter(Leave(agg, old), new, now')
  /\ stats' = NoteCrossed(stats)
  /\ entrant' = id
  /\ ThenRepair
  /\ UNCHANGED departed

\* The order is taken out and put back as amended; only a new price restarts
\* its clock.
Amend(id, px, q) ==
  LET old == orders[id]
      new_px == IF px = NoPrice THEN old.price ELSE px
      new == [old EXCEPT !.price = new_px,
                         !.remaining = q,
                         !.original_qty = Max2(@, q + old.filled),
                         !.entry_ts = IF new_px # old.price THEN now' ELSE @] IN
  /\ orders' = [orders EXCEPT ![id] = new]
  /\ agg' = Enter(Leave(agg, old), new, now')
  /\ stats' = NoteCrossed(stats)
  /\ entrant' = id
  /\ ThenRepair
  /\ UNCHANGED departed

OnModify(id, px, q) ==
  /\ Arrive
  /\ \/ id \notin DOMAIN orders /\ Refuse(Count("unknown_modify"))
     \/ id \in DOMAIN orders /\ q <= 0 /\ Withdraw(id)
     \/ id \in DOMAIN orders /\ q > 0 /\ Amend(id, px, q)

\* Mutant of Fill: a fill that takes all there is still passes for partial.
FillKeepsEmpty(id, q) ==
  LET r == orders[id]
      fill == Min2(q, r.remaining) IN
  /\ stats' = IF q > r.remaining THEN Count("oversized_fill") ELSE stats
  /\ IF fill <= r.remaining
       THEN /\ agg' = ReduceLevel(Footprint(agg, r.participant, r.side, -fill, 0),
                                  r.side, r.price, fill)
            /\ orders' = [orders EXCEPT ![id].remaining = @ - fill, ![id].filled = @ + fill]
            /\ UNCHANGED departed
       ELSE /\ agg' = Leave(agg, r)
            /\ orders' = Unbind(orders, id)
            /\ departed' = departed + 1
  /\ ThenRepair
  /\ UNCHANGED entrant

\* on_trade for a maker the book holds; an oversized fill is cut to the rest.
Fill(id, q) ==
  LET r == orders[id]
      fill == Min2(q, r.remaining) IN
  /\ stats' = IF q > r.remaining THEN Count("oversized_fill") ELSE stats
  /\ IF fill < r.remaining
       THEN /\ agg' = ReduceLevel(Footprint(agg, r.participant, r.side, -fill, 0),
                                  r.side, r.price, fill)
            /\ orders' = [orders EXCEPT ![id].remaining = @ - fill, ![id].filled = @ + fill]
            /\ UNCHANGED departed
       ELSE /\ agg' = Leave(agg, r)
            /\ orders' = Unbind(orders, id)
            /\ departed' = departed + 1
  /\ ThenRepair
  /\ UNCHANGED entrant

OnTrade(id, q) ==
  /\ Arrive
  /\ \/ id \notin DOMAIN orders /\ Refuse(Count("unknown_maker"))
     \/ id \in DOMAIN orders /\ Fill(id, q)

\* The switch of Pipeline::apply and of Replay's apply: a market event of the
\* tape to its handler.
Handle(e) ==
  \/ /\ e.kind = "order"
     /\ \/ OnOrderRefused(e.id, e.q, e.px)
        \/ OnOrder(e.id, e.who, e.side, e.px, e.q)
  \/ e.kind = "cancel" /\ OnCancel(e.id)
  \/ e.kind = "modify" /\ OnModify(e.id, e.px, e.q)
  \/ e.kind = "trade" /\ OnTrade(e.id, e.q)

-----------------------------------------------------------------------------
(***************************************************************************)
(* repair_cross                                                            *)
(***************************************************************************)
\* Mutant of StaleSide: the comparison reversed.
StaleSideReversed ==
  IF agg.levels["Buy"][Best(agg, "Buy")].newest_ts
       > agg.levels["Sell"][Best(agg, "Sell")].newest_ts
    THEN "Buy" ELSE "Sell"

\* The side whose best level was refreshed longer ago; the bids on a tie.
StaleSide ==
  IF agg.levels["Buy"][Best(agg, "Buy")].newest_ts
       <= agg.levels["Sell"][Best(agg, "Sell")].newest_ts
    THEN "Buy" ELSE "Sell"

AtLevel(s, px) == {id \in DOMAIN orders : orders[id].side = s /\ orders[id].price = px}

\* A level is chosen; with no orders behind it, it is dropped on the spot.
ChooseLevel ==
  /\ stage = "repair"
  /\ Crossed /\ round < RepairRounds
  /\ LET s  == StaleSide
         px == Best(agg, s) IN
     /\ ids' = AtLevel(s, px)
     /\ agg' = IF ids' # {} THEN agg ELSE
               [agg EXCEPT !.side_qty[s] = @ - agg.levels[s][px].quantity,
                           !.levels[s] = Unbind(@, px)]
  /\ stage' = IF ids' = {} THEN "repair" ELSE "erase"
  /\ round' = round + 1
  /\ stats' = Count("stale_levels_removed")
  /\ UNCHANGED <<orders, now, departed, entrant, fedEvents>>

\* Mutant of EraseOrder: what is discarded is not counted.
EraseOrderUncounted ==
  /\ stage = "erase"
  /\ \E id \in ids :
       /\ agg' = Leave(agg, orders[id])
       /\ orders' = Unbind(orders, id)
       /\ ids' = ids \ {id}
  /\ stage' = IF ids' = {} THEN "repair" ELSE "erase"
  /\ UNCHANGED <<stats, now, round, departed, entrant, fedEvents>>

\* erase_order, in whatever order the hash map yields the ids.
EraseOrder ==
  /\ stage = "erase"
  /\ \E id \in ids :
       /\ agg' = Leave(agg, orders[id])
       /\ orders' = Unbind(orders, id)
       /\ ids' = ids \ {id}
  /\ stage' = IF ids' = {} THEN "repair" ELSE "erase"
  /\ stats' = Count("stale_orders_removed")
  /\ UNCHANGED <<now, round, departed, entrant, fedEvents>>

\* Mutant of RepairDone: the loop stops a round short of its bound.
RepairDoneEarly ==
  /\ stage = "repair"
  /\ ~(Crossed /\ round + 1 < RepairRounds)
  /\ stage' = "idle"
  /\ UNCHANGED <<orders, agg, stats, now, round, ids, departed, entrant, fedEvents>>

RepairDone ==
  /\ stage = "repair"
  /\ ~(Crossed /\ round < RepairRounds)
  /\ stage' = "idle"
  /\ UNCHANGED <<orders, agg, stats, now, round, ids, departed, entrant, fedEvents>>

Repair == ChooseLevel \/ EraseOrder \/ RepairDone

BookNext ==
  \/ \E id \in OrderId, px \in Price \cup {NoPrice}, q \in Quantity :
       \/ OnOrderRefused(id, q, px)
       \/ \E p \in Participant, s \in Side : OnOrder(id, p, s, px, q)
       \/ OnModify(id, px, q)
  \/ \E id \in OrderId : OnCancel(id)
  \/ \E id \in OrderId, q \in Quantity : OnTrade(id, q)
  \/ Repair

BookSpec == BookInit /\ [][BookNext]_bookVars

-----------------------------------------------------------------------------
Order == [participant : Participant, side : Side, price : Price,
          original_qty : Nat, remaining : Nat \ {0}, filled : Int, entry_ts : Nat]

BookTypeOK ==
  /\ DOMAIN orders \subseteq OrderId
  /\ \A id \in DOMAIN orders : orders[id] \in Order
  /\ stats \in [Counter -> Nat]
  /\ now \in Nat
  /\ stage \in {"idle", "repair", "erase"}
  /\ round \in 0 .. RepairRounds
  /\ ids \subseteq DOMAIN orders
  /\ departed \in Nat

OnSide(s) == {id \in DOMAIN orders : orders[id].side = s}
OwnedBy(p, s) == {id \in OnSide(s) : orders[id].participant = p}

\* What a set of orders still offers: one member for each lot, counted.
LotsOf(map, set) == Cardinality(UNION {{id} \X (1 .. map[id].remaining) : id \in set})
Lots(set) == LotsOf(orders, set)

(***************************************************************************)
(* The figures kept beside the orders never drift from them: every level,  *)
(* side total and footprint is what the resting orders add up to, at every *)
(* step, those inside a repair included (book_state.cpp:7-39).             *)
(***************************************************************************)
AggregatesAgree ==
  \A s \in Side :
    /\ DOMAIN agg.levels[s] = {orders[id].price : id \in OnSide(s)}
    /\ \A px \in DOMAIN agg.levels[s] :
         /\ agg.levels[s][px].quantity = Lots(AtLevel(s, px))
         /\ agg.levels[s][px].orders = Cardinality(AtLevel(s, px))
    /\ agg.side_qty[s] = Lots(OnSide(s))
    /\ agg.side_orders[s] = Cardinality(OnSide(s))
    /\ \A p \in Participant :
         agg.footprint[p][s] = [qty |-> Lots(OwnedBy(p, s)),
                                orders |-> Cardinality(OwnedBy(p, s))]

(***************************************************************************)
(* Whatever messages were lost, a book is handed on crossed only when the  *)
(* repair used up its rounds: it discarded a level with an order in each,  *)
(* and the crossing pair is still there (book_state.cpp:206-209).          *)
(***************************************************************************)
CrossedOnlyWhenExhausted ==
  stage = "idle" /\ Crossed => round = RepairRounds /\ RepairRounds + 2 <= MaxOrders

(***************************************************************************)
(* The repair sacrifices the stale side: the order whose arrival crossed   *)
(* the book is discarded only on a tie, when the level it crossed was      *)
(* refreshed at the very timestamp of its own (book_state.hpp:102-104).    *)
(* An order that an exhausted repair left crossing is entrant still when   *)
(* the next event has the repair resume, and the promise covers it.        *)
(***************************************************************************)
FreshOrderSurvives ==
  [][stage = "repair" /\ entrant \in ids' =>
       agg.levels["Buy"][Best(agg, "Buy")].newest_ts
         = agg.levels["Sell"][Best(agg, "Sell")].newest_ts]_bookVars

(***************************************************************************)
(* No order disappears silently: each order ever added is resting, or left *)
(* by a cancel, an amend to zero or a fill, or was counted as discarded    *)
(* (book_state.hpp:104-106).                                               *)
(***************************************************************************)
OrdersAccounted ==
  stats["orders_added"] =
    Cardinality(DOMAIN orders) + departed + stats["stale_orders_removed"]

(***************************************************************************)
(* What has traded and what is left never exceed what was advertised,      *)
(* through any mix of amends and fills, so the ratio of filled to original *)
(* quantity the detectors test does not pass 1.  It may drop below 0: a    *)
(* trade of a negative quantity counts down what was filled.               *)
(***************************************************************************)
FillsWithinOriginal ==
  \A id \in DOMAIN orders :
    orders[id].filled + orders[id].remaining <= orders[id].original_qty

(***************************************************************************)
(* The cap holds: the book never rests more than max_orders_ orders        *)
(* (book_state.hpp:10-12).                                                 *)
(***************************************************************************)
CapRespected == Cardinality(DOMAIN orders) <= MaxOrders
=============================================================================
