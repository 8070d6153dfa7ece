--------------------------- MODULE BookStateProofs ---------------------------
(***************************************************************************)
(* TLAPS proofs about the reconstructed book, for any sets of orders,      *)
(* participants and prices, any cap, any bound on the repair and event     *)
(* sequences of any length.                                                *)
(*                                                                         *)
(* First the orders map: types, the cap, the fill ratio, the accounting of *)
(* every order ever added.  Then the figures kept beside it: an order that *)
(* enters, leaves or is filled in part moves every sum by exactly its      *)
(* share, so they always agree with the orders.  From that agreement, the  *)
(* repair: how long it takes, and which side it discards.                  *)
(***************************************************************************)
EXTENDS BookState, FiniteSetTheorems, TLAPS

USE PriceAssumption, QuantityAssumption, MaxOrdersAssumption, RepairRoundsAssumption

(***************************************************************************)
(* Adding a key to a map, taking one away.                                 *)
(***************************************************************************)
LEMMA BindDomain ==
  ASSUME NEW f, NEW k, NEW v
  PROVE  /\ DOMAIN Bind(f, k, v) = DOMAIN f \cup {k}
         /\ Bind(f, k, v)[k] = v
         /\ \A x \in DOMAIN f : x # k => Bind(f, k, v)[x] = f[x]
BY DEF Bind

LEMMA UnbindDomain ==
  ASSUME NEW f, NEW k
  PROVE  /\ DOMAIN Unbind(f, k) = DOMAIN f \ {k}
         /\ \A x \in DOMAIN f \ {k} : Unbind(f, k)[x] = f[x]
BY DEF Unbind

-----------------------------------------------------------------------------
(***************************************************************************)
(* Sums over sets of orders, as the number of unit lots they offer.        *)
(***************************************************************************)
UnitLots(map, set) == UNION {{id} \X (1 .. map[id].remaining) : id \in set}

LEMMA UnitLotsFinite ==
  ASSUME NEW map, NEW set, IsFiniteSet(set), \A id \in set : map[id].remaining \in Nat
  PROVE  /\ IsFiniteSet(UnitLots(map, set))
         /\ LotsOf(map, set) \in Nat
<1> DEFINE T == {{id} \X (1 .. map[id].remaining) : id \in set}
           g == [id \in set |-> {id} \X (1 .. map[id].remaining)]
<1>1. g \in Surjection(set, T)
  BY DEF Surjection
<1>2. IsFiniteSet(T)
  BY <1>1, FS_Surjection
<1>3. ASSUME NEW id \in set PROVE IsFiniteSet({id} \X (1 .. map[id].remaining))
  <2>0. map[id].remaining \in Int /\ 1 \in Int
    OBVIOUS
  <2>1. IsFiniteSet({id}) /\ IsFiniteSet(1 .. map[id].remaining)
    <3> HIDE DEF T, g
    <3>1. IsFiniteSet(1 .. map[id].remaining)
      BY ONLY <2>0, FS_Interval
    <3>2. QED
      BY <3>1, FS_Singleton
  <2>2. QED
    BY <2>1, FS_Product
<1>4. \A U \in T : IsFiniteSet(U)
  BY <1>3
<1>5. IsFiniteSet(UNION T)
  <2> HIDE DEF T
  <2>1. QED
    BY <1>2, <1>4, FS_UNION
<1>6. QED
  BY <1>5, FS_CardinalityType DEF UnitLots, LotsOf

LEMMA NoOrdersNoLots ==
  ASSUME NEW map
  PROVE  LotsOf(map, {}) = 0
<1>1. UNION {{id} \X (1 .. map[id].remaining) : id \in {}} = {}
  OBVIOUS
<1>2. QED
  BY <1>1, FS_EmptySet DEF LotsOf

LEMMA OneMoreOrder ==
  ASSUME NEW map, NEW set, IsFiniteSet(set), NEW id, id \notin set,
         map[id].remaining \in Nat, \A x \in set : map[x].remaining \in Nat
  PROVE  LotsOf(map, set \cup {id}) = LotsOf(map, set) + map[id].remaining
<1> DEFINE Added == {id} \X (1 .. map[id].remaining)
<1>1. UnitLots(map, set \cup {id}) = UnitLots(map, set) \cup Added
  BY DEF UnitLots
<1>2. UnitLots(map, set) \cap Added = {}
  BY DEF UnitLots
<1>3. IsFiniteSet(Added) /\ Cardinality(Added) = map[id].remaining
  <2> DEFINE n == map[id].remaining
  <2>1. n \in Nat /\ 1 \in Int
    OBVIOUS
  <2> HIDE DEF n
  <2>2. IsFiniteSet(1 .. n) /\ Cardinality(1 .. n) = IF 1 > n THEN 0 ELSE n - 1 + 1
    BY <2>1, FS_Interval
  <2>3. Cardinality(1 .. n) = n
    BY <2>1, <2>2
  <2>4. IsFiniteSet({id}) /\ Cardinality({id}) = 1
    BY FS_Singleton
  <2>5. /\ IsFiniteSet({id} \X (1 .. n))
        /\ Cardinality({id} \X (1 .. n)) = Cardinality({id}) * Cardinality(1 .. n)
    BY ONLY <2>2, <2>4, FS_Product
  <2>6. Cardinality({id}) * Cardinality(1 .. n) = n
    BY ONLY <2>1, <2>3, <2>4
  <2>7. QED
    BY <2>5, <2>6 DEF n
<1>4. IsFiniteSet(UnitLots(map, set)) /\ LotsOf(map, set) \in Nat
  BY UnitLotsFinite
<1>5. Cardinality(UnitLots(map, set) \cup Added) =
        Cardinality(UnitLots(map, set)) + Cardinality(Added)
        - Cardinality(UnitLots(map, set) \cap Added)
  <2> HIDE DEF Added
  <2>1. QED
    BY <1>3, <1>4, FS_Union
<1>6. Cardinality({}) = 0
  BY FS_EmptySet
<1>7. /\ LotsOf(map, set) = Cardinality(UnitLots(map, set))
      /\ LotsOf(map, set \cup {id}) = Cardinality(UnitLots(map, set \cup {id}))
  BY DEF LotsOf, UnitLots
<1>8. Cardinality(UnitLots(map, set) \cup Added) = LotsOf(map, set) + map[id].remaining
  <2> HIDE DEF Added
  <2>1. Cardinality(UnitLots(map, set) \cup Added) =
          LotsOf(map, set) + map[id].remaining - 0
    BY <1>2, <1>3, <1>5, <1>6, <1>7
  <2>2. QED
    BY <1>4, <2>1
<1>9. QED
  BY <1>1, <1>7, <1>8

LEMMA SameLots ==
  ASSUME NEW map, NEW other, NEW set, \A id \in set : map[id].remaining = other[id].remaining
  PROVE  LotsOf(map, set) = LotsOf(other, set)
<1>1. {{id} \X (1 .. map[id].remaining) : id \in set}
        = {{id} \X (1 .. other[id].remaining) : id \in set}
  OBVIOUS
<1>2. QED
  BY <1>1 DEF LotsOf

-----------------------------------------------------------------------------
(***************************************************************************)
(* The orders of a map that belong to a class K of orders: a level, a side *)
(* or what a participant has on it.                                        *)
(***************************************************************************)
Of(map, K) == {id \in DOMAIN map : map[id] \in K}

BookMap(map) ==
  /\ IsFiniteSet(DOMAIN map)
  /\ \A id \in DOMAIN map : map[id] \in Order

\* How much an order adds to the lots of a class, and to its count.
Share(K, o) == IF o \in K THEN o.remaining ELSE 0
One(K, o) == IF o \in K THEN 1 ELSE 0

LEMMA OfFinite ==
  ASSUME NEW map, BookMap(map), NEW K
  PROVE  /\ IsFiniteSet(Of(map, K))
         /\ Cardinality(Of(map, K)) \in Nat
         /\ LotsOf(map, Of(map, K)) \in Nat
         /\ Of(map, K) = {} <=> Cardinality(Of(map, K)) = 0
<1>1. Of(map, K) \in SUBSET (DOMAIN map)
  BY DEF Of
<1>2. IsFiniteSet(Of(map, K))
  BY <1>1, FS_Subset DEF BookMap
<1>3. \A id \in Of(map, K) : map[id].remaining \in Nat
  BY DEF Of, BookMap, Order
<1>4. QED
  BY <1>2, <1>3, UnitLotsFinite, FS_CardinalityType, FS_EmptySet

LEMMA OrderEnters ==
  ASSUME NEW map, BookMap(map), NEW id, id \notin DOMAIN map, NEW o \in Order, NEW K
  PROVE  /\ BookMap(Bind(map, id, o))
         /\ LotsOf(Bind(map, id, o), Of(Bind(map, id, o), K))
              = LotsOf(map, Of(map, K)) + Share(K, o)
         /\ Cardinality(Of(Bind(map, id, o), K)) = Cardinality(Of(map, K)) + One(K, o)
<1> DEFINE new == Bind(map, id, o)
<1>1. /\ DOMAIN new = DOMAIN map \cup {id} /\ new[id] = o
      /\ \A x \in DOMAIN map : new[x] = map[x]
  BY DEF Bind
<1> HIDE DEF new
<1>2. BookMap(new)
  BY <1>1, FS_AddElement DEF BookMap
<1>3. IsFiniteSet(Of(map, K)) /\ Cardinality(Of(map, K)) \in Nat
      /\ LotsOf(map, Of(map, K)) \in Nat
  BY OfFinite
<1>4. LotsOf(new, Of(map, K)) = LotsOf(map, Of(map, K))
  <2>1. \A x \in Of(map, K) : new[x].remaining = map[x].remaining
    BY <1>1 DEF Of
  <2>2. QED
    BY <2>1, SameLots
<1>5. CASE o \in K
  <2>1. Of(new, K) = Of(map, K) \cup {id} /\ id \notin Of(map, K)
    BY <1>1, <1>5 DEF Of
  <2>2. new[id].remaining \in Nat /\ \A x \in Of(map, K) : new[x].remaining \in Nat
    BY <1>1, <1>2 DEF Of, BookMap, Order
  <2>3. LotsOf(new, Of(map, K) \cup {id}) = LotsOf(new, Of(map, K)) + new[id].remaining
    BY <1>3, <2>1, <2>2, OneMoreOrder
  <2>4. Cardinality(Of(map, K) \cup {id}) = Cardinality(Of(map, K)) + 1
    BY <1>3, <2>1, FS_AddElement
  <2>5. QED
    BY <1>1, <1>2, <1>4, <1>5, <2>1, <2>3, <2>4 DEF Share, One, new
<1>6. CASE o \notin K
  <2>1. Of(new, K) = Of(map, K)
    BY <1>1, <1>6 DEF Of
  <2>2. QED
    BY <1>2, <1>3, <1>4, <1>6, <2>1 DEF Share, One, new
<1>7. QED
  BY <1>5, <1>6

LEMMA OrderLeaves ==
  ASSUME NEW map, BookMap(map), NEW id \in DOMAIN map, NEW K
  PROVE  /\ BookMap(Unbind(map, id))
         /\ map[id] \in Order
         /\ LotsOf(map, Of(map, K))
              = LotsOf(Unbind(map, id), Of(Unbind(map, id), K)) + Share(K, map[id])
         /\ Cardinality(Of(map, K)) = Cardinality(Of(Unbind(map, id), K)) + One(K, map[id])
<1> DEFINE rest == Unbind(map, id)
<1>1. DOMAIN rest = DOMAIN map \ {id} /\ \A x \in DOMAIN rest : rest[x] = map[x]
  BY DEF Unbind
<1>2. map[id] \in Order /\ id \notin DOMAIN rest
  BY <1>1 DEF BookMap
<1> HIDE DEF rest
<1>3. BookMap(rest)
  BY <1>1, FS_RemoveElement DEF BookMap
<1> DEFINE back == Bind(rest, id, map[id])
<1>4. /\ LotsOf(back, Of(back, K)) = LotsOf(rest, Of(rest, K)) + Share(K, map[id])
      /\ Cardinality(Of(back, K)) = Cardinality(Of(rest, K)) + One(K, map[id])
  BY <1>2, <1>3, OrderEnters
<1>5. /\ DOMAIN back = DOMAIN map
      /\ \A x \in DOMAIN map : back[x] = map[x]
  BY <1>1 DEF Bind
<1> HIDE DEF back
<1>6. Of(back, K) = Of(map, K)
  BY <1>5 DEF Of
<1>7. LotsOf(back, Of(map, K)) = LotsOf(map, Of(map, K))
  <2>1. \A x \in Of(map, K) : back[x].remaining = map[x].remaining
    BY <1>5 DEF Of
  <2>2. QED
    BY <2>1, SameLots
<1>8. QED
  BY <1>2, <1>3, <1>4, <1>6, <1>7 DEF rest

-----------------------------------------------------------------------------
OrdersOK ==
  /\ DOMAIN orders \subseteq OrderId
  /\ \A id \in DOMAIN orders :
       /\ orders[id] \in Order
       /\ orders[id].filled + orders[id].remaining <= orders[id].original_qty

Ledger ==
  /\ IsFiniteSet(DOMAIN orders)
  /\ CapRespected
  /\ departed \in Nat
  /\ OrdersAccounted

Controls ==
  /\ stats \in [Counter -> Nat]
  /\ now \in Nat
  /\ stage \in {"idle", "repair", "erase"}
  /\ round \in 0 .. RepairRounds
  /\ ids \subseteq DOMAIN orders
  /\ stage \in {"idle", "repair"} => ids = {}

BookInv == OrdersOK /\ Ledger /\ Controls

(***************************************************************************)
(* The counters: moving one of them moves no other.                        *)
(***************************************************************************)
LEMMA CountMoves ==
  ASSUME stats \in [Counter -> Nat], NEW c \in Counter
  PROVE  /\ Count(c) \in [Counter -> Nat]
         /\ Count(c)[c] = stats[c] + 1
         /\ \A x \in Counter : x # c => Count(c)[x] = stats[x]
BY DEF Count

LEMMA NoteCrossedMoves ==
  ASSUME NEW c \in [Counter -> Nat]
  PROVE  /\ NoteCrossed(c) \in [Counter -> Nat]
         /\ NoteCrossed(c)["orders_added"] = c["orders_added"]
         /\ NoteCrossed(c)["stale_orders_removed"] = c["stale_orders_removed"]
BY DEF NoteCrossed, Counter

-----------------------------------------------------------------------------
\* What every handler does to the control state: it leaves the book idle or
\* about to be repaired.
LEMMA HandlerControls ==
  ASSUME Controls, Arrive, ThenRepair, stats' \in [Counter -> Nat]
  PROVE  Controls'
<1>1. now' \in Nat
  BY DEF Arrive, Controls
<1>2. ids' = {} /\ ids' \subseteq DOMAIN orders'
  BY DEF Arrive, ThenRepair, Controls
<1>3. QED
  BY <1>1, <1>2 DEF ThenRepair, Controls

(***************************************************************************)
(* An event that found nothing to act on.                                  *)
(***************************************************************************)
LEMMA RefuseKeeps ==
  ASSUME BookInv, Arrive, NEW c \in [Counter -> Nat], Refuse(c),
         c["orders_added"] = stats["orders_added"],
         c["stale_orders_removed"] = stats["stale_orders_removed"]
  PROVE  BookInv'
<1>1. Controls'
  BY HandlerControls DEF Refuse, BookInv
<1>2. OrdersOK' /\ Ledger'
  BY DEF Refuse, BookInv, OrdersOK, Ledger, CapRespected, OrdersAccounted
<1>3. QED
  BY <1>1, <1>2 DEF BookInv

LEMMA OnOrderKeeps ==
  ASSUME BookInv, NEW id \in OrderId, NEW p \in Participant, NEW s \in Side,
         NEW px \in Price \cup {NoPrice}, NEW q \in Quantity, OnOrder(id, p, s, px, q)
  PROVE  BookInv'
<1> DEFINE r == [participant |-> p, side |-> s, price |-> px, original_qty |-> q,
                 remaining |-> q, filled |-> 0, entry_ts |-> now']
<1>1. now' \in Nat /\ px \in Price /\ q \in Nat \ {0} /\ id \notin DOMAIN orders
  BY DEF OnOrder, Arrive, BookInv, Controls
<1>2. r \in Order /\ r.filled + r.remaining <= r.original_qty
  BY <1>1 DEF Order
<1>3. orders' = Bind(orders, id, r)
  BY DEF OnOrder
<1> HIDE DEF r
<1>4. /\ DOMAIN orders' = DOMAIN orders \cup {id} /\ orders'[id] = r
      /\ \A x \in DOMAIN orders : orders'[x] = orders[x]
  <2>1. /\ DOMAIN Bind(orders, id, r) = DOMAIN orders \cup {id}
        /\ Bind(orders, id, r)[id] = r
        /\ \A x \in DOMAIN orders : x # id => Bind(orders, id, r)[x] = orders[x]
    BY DEF Bind
  <2>2. QED
    BY <1>1, <1>3, <2>1
<1>5. OrdersOK'
  BY <1>2, <1>4 DEF BookInv, OrdersOK
<1>6. /\ stats' \in [Counter -> Nat]
      /\ stats'["orders_added"] = stats["orders_added"] + 1
      /\ stats'["stale_orders_removed"] = stats["stale_orders_removed"]
  <2>1. stats' = NoteCrossed(Count("orders_added"))
    BY DEF OnOrder
  <2>2. stats \in [Counter -> Nat] /\ "orders_added" \in Counter
        /\ "stale_orders_removed" \in Counter
    BY DEF BookInv, Controls, Counter
  <2>3. QED
    BY <2>1, <2>2, CountMoves, NoteCrossedMoves
<1>7. Controls'
  BY <1>6, HandlerControls DEF OnOrder, BookInv
<1>8. /\ IsFiniteSet(DOMAIN orders')
      /\ Cardinality(DOMAIN orders') = Cardinality(DOMAIN orders) + 1
      /\ Cardinality(DOMAIN orders) \in Nat
  BY <1>1, <1>4, FS_AddElement, FS_CardinalityType DEF BookInv, Ledger
<1>9. Ledger'
  <2>1. Cardinality(DOMAIN orders) < MaxOrders /\ departed' = departed
    BY DEF OnOrder
  <2>2. stats["stale_orders_removed"] \in Nat /\ stats["orders_added"] \in Nat
    BY DEF BookInv, Controls, Counter
  <2>3. QED
    BY <1>6, <1>8, <2>1, <2>2 DEF BookInv, Ledger, CapRespected, OrdersAccounted
<1>10. QED
  BY <1>5, <1>7, <1>9 DEF BookInv

(***************************************************************************)
(* An order leaves the map and one counter of departures goes up.          *)
(***************************************************************************)
LEMMA DepartureKeeps ==
  ASSUME BookInv, NEW id \in DOMAIN orders, orders' = Unbind(orders, id)
  PROVE  /\ OrdersOK' /\ IsFiniteSet(DOMAIN orders') /\ CapRespected'
         /\ Cardinality(DOMAIN orders) \in Nat /\ Cardinality(DOMAIN orders') \in Nat
         /\ Cardinality(DOMAIN orders') + 1 = Cardinality(DOMAIN orders)
         /\ DOMAIN orders' = DOMAIN orders \ {id}
<1>1. /\ DOMAIN orders' = DOMAIN orders \ {id}
      /\ \A x \in DOMAIN orders \ {id} : orders'[x] = orders[x]
  BY UnbindDomain
<1>2. OrdersOK'
  BY <1>1 DEF BookInv, OrdersOK
<1>3. /\ IsFiniteSet(DOMAIN orders')
      /\ Cardinality(DOMAIN orders') = Cardinality(DOMAIN orders) - 1
      /\ Cardinality(DOMAIN orders) \in Nat /\ Cardinality(DOMAIN orders') \in Nat
  BY <1>1, FS_RemoveElement, FS_CardinalityType DEF BookInv, Ledger
<1>4. CapRespected'
  BY <1>3 DEF BookInv, Ledger, CapRespected
<1>5. QED
  BY <1>1, <1>2, <1>3, <1>4

LEMMA DepartedKeeps ==
  ASSUME BookInv, Arrive, ThenRepair, NEW id \in DOMAIN orders,
         orders' = Unbind(orders, id), departed' = departed + 1,
         stats' \in [Counter -> Nat],
         stats'["orders_added"] = stats["orders_added"],
         stats'["stale_orders_removed"] = stats["stale_orders_removed"]
  PROVE  BookInv'
<1>1. Controls'
  BY HandlerControls DEF BookInv
<1>2. stats["stale_orders_removed"] \in Nat /\ departed \in Nat
  BY DEF BookInv, Controls, Counter, Ledger
<1>3. /\ OrdersOK' /\ IsFiniteSet(DOMAIN orders') /\ CapRespected'
      /\ Cardinality(DOMAIN orders) \in Nat /\ Cardinality(DOMAIN orders') \in Nat
      /\ Cardinality(DOMAIN orders') + 1 = Cardinality(DOMAIN orders)
  BY DepartureKeeps
<1>4. stats["orders_added"] =
        Cardinality(DOMAIN orders) + departed + stats["stale_orders_removed"]
  BY DEF BookInv, Ledger, OrdersAccounted
<1>5. OrdersAccounted'
  <2>1. stats["orders_added"] =
          Cardinality(DOMAIN orders') + (departed + 1) + stats["stale_orders_removed"]
    BY <1>2, <1>3, <1>4
  <2>2. QED
    BY <2>1 DEF OrdersAccounted
<1>6. departed' \in Nat
  BY <1>2
<1>7. QED
  BY <1>1, <1>3, <1>5, <1>6 DEF BookInv, Ledger

LEMMA WithdrawKeeps ==
  ASSUME BookInv, Arrive, NEW id \in DOMAIN orders, Withdraw(id)
  PROVE  BookInv'
<1>1. stats' \in [Counter -> Nat] /\ stats' = stats
  BY DEF Withdraw, BookInv, Controls
<1>2. QED
  BY <1>1, DepartedKeeps DEF Withdraw

(***************************************************************************)
(* One order changes in place and stays within what it advertised.         *)
(***************************************************************************)
LEMMA ChangeKeeps ==
  ASSUME BookInv, Arrive, ThenRepair, NEW id \in DOMAIN orders, NEW r \in Order,
         r.filled + r.remaining <= r.original_qty,
         orders' = [orders EXCEPT ![id] = r], departed' = departed,
         stats' \in [Counter -> Nat],
         stats'["orders_added"] = stats["orders_added"],
         stats'["stale_orders_removed"] = stats["stale_orders_removed"]
  PROVE  BookInv'
<1>1. /\ DOMAIN orders' = DOMAIN orders /\ orders'[id] = r
      /\ \A x \in DOMAIN orders : x # id => orders'[x] = orders[x]
  OBVIOUS
<1>2. OrdersOK'
  BY <1>1 DEF BookInv, OrdersOK
<1>3. Controls'
  BY HandlerControls DEF BookInv
<1>4. Ledger'
  BY <1>1 DEF BookInv, Ledger, CapRespected, OrdersAccounted
<1>5. QED
  BY <1>2, <1>3, <1>4 DEF BookInv

LEMMA AmendKeeps ==
  ASSUME BookInv, Arrive, NEW id \in DOMAIN orders, NEW px \in Price \cup {NoPrice},
         NEW q \in Quantity, q > 0, Amend(id, px, q)
  PROVE  BookInv'
<1> DEFINE old == orders[id]
           new_px == IF px = NoPrice THEN old.price ELSE px
           new == [old EXCEPT !.price = new_px,
                              !.remaining = q,
                              !.original_qty = Max2(@, q + old.filled),
                              !.entry_ts = IF new_px # old.price THEN now' ELSE @]
<1>1. old \in Order /\ now' \in Nat /\ q \in Nat \ {0}
  BY DEF BookInv, OrdersOK, Arrive, Controls
<1>2. new_px \in Price /\ Max2(old.original_qty, q + old.filled) \in Nat
      /\ old.filled + q <= Max2(old.original_qty, q + old.filled)
  BY <1>1 DEF Order, Max2
<1>3. new \in Order /\ new.filled + new.remaining <= new.original_qty
  BY <1>1, <1>2 DEF Order
<1>4. orders' = [orders EXCEPT ![id] = new] /\ departed' = departed /\ ThenRepair
  BY DEF Amend
<1>5. /\ stats' \in [Counter -> Nat]
      /\ stats'["orders_added"] = stats["orders_added"]
      /\ stats'["stale_orders_removed"] = stats["stale_orders_removed"]
  BY NoteCrossedMoves DEF Amend, BookInv, Controls
<1> HIDE DEF new
<1>6. QED
  BY <1>3, <1>4, <1>5, ChangeKeeps

LEMMA FillKeeps ==
  ASSUME BookInv, Arrive, NEW id \in DOMAIN orders, NEW q \in Quantity, Fill(id, q)
  PROVE  BookInv'
<1> DEFINE r == orders[id]
           fill == Min2(q, r.remaining)
           new == [r EXCEPT !.remaining = @ - fill, !.filled = @ + fill]
<1>1. r \in Order /\ r.filled + r.remaining <= r.original_qty /\ q \in Int
  BY DEF BookInv, OrdersOK
<1>2. fill \in Int /\ fill <= r.remaining
  BY <1>1 DEF Order, Min2
<1>3. /\ stats' \in [Counter -> Nat]
      /\ stats'["orders_added"] = stats["orders_added"]
      /\ stats'["stale_orders_removed"] = stats["stale_orders_removed"]
  <2>1. /\ stats \in [Counter -> Nat] /\ "oversized_fill" \in Counter
        /\ "orders_added" \in Counter /\ "stale_orders_removed" \in Counter
    BY DEF BookInv, Controls, Counter
  <2>2. stats' = stats \/ stats' = Count("oversized_fill")
    BY DEF Fill
  <2>3. QED
    BY <2>1, <2>2, CountMoves
<1>4. CASE fill < r.remaining
  <2>1. new \in Order /\ new.filled + new.remaining <= new.original_qty
    <3>1. /\ r.remaining \in Nat /\ r.filled \in Int /\ r.original_qty \in Nat
          /\ r.participant \in Participant /\ r.side \in Side /\ r.price \in Price
          /\ r.entry_ts \in Nat
      BY <1>1 DEF Order
    <3> HIDE DEF r, fill
    <3>2. /\ r.remaining - fill \in Nat \ {0} /\ r.filled + fill \in Int
          /\ (r.filled + fill) + (r.remaining - fill) <= r.original_qty
      BY <1>1, <1>2, <1>4, <3>1
    <3>3. QED
      BY <1>1, <3>1, <3>2 DEF Order
  <2>2. orders' = [orders EXCEPT ![id] = new] /\ departed' = departed /\ ThenRepair
    BY <1>4 DEF Fill
  <2> HIDE DEF new
  <2>3. QED
    BY <1>3, <2>1, <2>2, ChangeKeeps
<1>5. CASE ~(fill < r.remaining)
  BY <1>3, <1>5, DepartedKeeps DEF Fill
<1>6. QED
  BY <1>4, <1>5

LEMMA RepairKeeps ==
  ASSUME BookInv, Repair
  PROVE  BookInv'
<1>1. ASSUME ChooseLevel PROVE BookInv'
  <2>1. /\ stats' \in [Counter -> Nat]
        /\ stats'["orders_added"] = stats["orders_added"]
        /\ stats'["stale_orders_removed"] = stats["stale_orders_removed"]
    BY <1>1, CountMoves DEF ChooseLevel, BookInv, Controls, Counter
  <2>2. OrdersOK' /\ Ledger'
    BY <1>1, <2>1 DEF ChooseLevel, BookInv, OrdersOK, Ledger, CapRespected, OrdersAccounted
  <2>3. Controls'
    BY <1>1, <2>1 DEF ChooseLevel, AtLevel, BookInv, Controls
  <2>4. QED
    BY <2>2, <2>3 DEF BookInv
<1>2. ASSUME EraseOrder PROVE BookInv'
  <2>1. PICK id \in ids : orders' = Unbind(orders, id) /\ ids' = ids \ {id}
    BY <1>2 DEF EraseOrder
  <2>2. id \in DOMAIN orders
    BY <2>1 DEF BookInv, Controls
  <2>3. /\ stats' \in [Counter -> Nat]
        /\ stats'["orders_added"] = stats["orders_added"]
        /\ stats'["stale_orders_removed"] = stats["stale_orders_removed"] + 1
        /\ stats["stale_orders_removed"] \in Nat
    BY <1>2, CountMoves DEF EraseOrder, BookInv, Controls, Counter
  <2>4. Ledger'
    <3>1. /\ IsFiniteSet(DOMAIN orders') /\ CapRespected'
          /\ Cardinality(DOMAIN orders) \in Nat /\ Cardinality(DOMAIN orders') \in Nat
          /\ Cardinality(DOMAIN orders') + 1 = Cardinality(DOMAIN orders)
      BY <2>1, <2>2, DepartureKeeps
    <3>2. /\ departed \in Nat /\ departed' = departed
          /\ stats["orders_added"] =
               Cardinality(DOMAIN orders) + departed + stats["stale_orders_removed"]
      BY <1>2 DEF EraseOrder, BookInv, Ledger, OrdersAccounted
    <3>3. stats["orders_added"] =
            Cardinality(DOMAIN orders') + departed + (stats["stale_orders_removed"] + 1)
      BY <2>3, <3>1, <3>2
    <3>4. QED
      BY <2>3, <3>1, <3>2, <3>3 DEF Ledger, OrdersAccounted
  <2>5. Controls'
    BY <1>2, <2>1, <2>2, <2>3, DepartureKeeps DEF EraseOrder, BookInv, Controls
  <2>6. QED
    BY <2>1, <2>2, <2>4, <2>5, DepartureKeeps DEF BookInv
<1>3. ASSUME RepairDone PROVE BookInv'
  BY <1>3 DEF RepairDone, BookInv, OrdersOK, Ledger, CapRespected, OrdersAccounted, Controls
<1>4. QED
  BY <1>1, <1>2, <1>3 DEF Repair

-----------------------------------------------------------------------------
LEMMA BookInvCorrect == BookSpec => []BookInv
<1>1. BookInit => BookInv
  <2> SUFFICES ASSUME BookInit PROVE BookInv
    OBVIOUS
  <2>1. DOMAIN orders = {}
    BY DEF BookInit
  <2>2. IsFiniteSet(DOMAIN orders) /\ Cardinality(DOMAIN orders) = 0
    BY <2>1, FS_EmptySet
  <2>3. stats["orders_added"] = 0 /\ stats["stale_orders_removed"] = 0
        /\ stats \in [Counter -> Nat]
    BY DEF BookInit, Counter
  <2>4. QED
    BY <2>1, <2>2, <2>3
       DEF BookInit, BookInv, OrdersOK, Ledger, CapRespected, OrdersAccounted, Controls
<1>2. BookInv /\ [BookNext]_bookVars => BookInv'
  <2> SUFFICES ASSUME BookInv, [BookNext]_bookVars PROVE BookInv'
    OBVIOUS
  <2>0. /\ stats \in [Counter -> Nat]
        /\ \A c \in Counter \ {"orders_added", "stale_orders_removed"} :
             /\ Count(c) \in [Counter -> Nat]
             /\ Count(c)["orders_added"] = stats["orders_added"]
             /\ Count(c)["stale_orders_removed"] = stats["stale_orders_removed"]
        /\ {"unknown_cancel", "unknown_modify", "unknown_maker", "duplicate_order_id",
            "orders_dropped_cap"} \subseteq Counter \ {"orders_added", "stale_orders_removed"}
    BY CountMoves DEF BookInv, Controls, Counter
  <2>1. ASSUME NEW id \in OrderId, NEW px \in Price \cup {NoPrice}, NEW q \in Quantity,
               OnOrderRefused(id, q, px)
        PROVE  BookInv'
    BY <2>0, <2>1, RefuseKeeps DEF OnOrderRefused
  <2>2. ASSUME NEW id \in OrderId, NEW px \in Price \cup {NoPrice}, NEW q \in Quantity,
               NEW p \in Participant, NEW s \in Side, OnOrder(id, p, s, px, q)
        PROVE  BookInv'
    BY <2>2, OnOrderKeeps
  <2>3. ASSUME NEW id \in OrderId, NEW px \in Price \cup {NoPrice}, NEW q \in Quantity,
               OnModify(id, px, q)
        PROVE  BookInv'
    BY <2>0, <2>3, RefuseKeeps, WithdrawKeeps, AmendKeeps DEF OnModify
  <2>4. ASSUME NEW id \in OrderId, OnCancel(id) PROVE BookInv'
    BY <2>0, <2>4, RefuseKeeps, WithdrawKeeps DEF OnCancel
  <2>5. ASSUME NEW id \in OrderId, NEW q \in Quantity, OnTrade(id, q) PROVE BookInv'
    BY <2>0, <2>5, RefuseKeeps, FillKeeps DEF OnTrade
  <2>6. CASE UNCHANGED bookVars
    BY <2>6 DEF bookVars, BookInv, OrdersOK, Ledger, CapRespected, OrdersAccounted, Controls
  <2>7. QED
    BY <2>1, <2>2, <2>3, <2>4, <2>5, <2>6, RepairKeeps DEF BookNext
<1>3. QED
  BY <1>1, <1>2, PTL DEF BookSpec

(***************************************************************************)
(* Type correctness of the reconstructed book.                             *)
(***************************************************************************)
THEOREM BookTypeCorrect == BookSpec => []BookTypeOK
<1>1. BookInv => BookTypeOK
  BY DEF BookInv, OrdersOK, Ledger, Controls, BookTypeOK
<1>2. QED
  BY <1>1, BookInvCorrect, PTL

(***************************************************************************)
(* Every order ever added is accounted for, repairs included.              *)
(***************************************************************************)
THEOREM OrdersAccountedCorrect == BookSpec => []OrdersAccounted
<1>1. BookInv => OrdersAccounted
  BY DEF BookInv, Ledger
<1>2. QED
  BY <1>1, BookInvCorrect, PTL

(***************************************************************************)
(* The book never holds more than max_orders_ orders.                      *)
(***************************************************************************)
THEOREM CapCorrect == BookSpec => []CapRespected
<1>1. BookInv => CapRespected
  BY DEF BookInv, Ledger
<1>2. QED
  BY <1>1, BookInvCorrect, PTL

(***************************************************************************)
(* Filled and remaining quantity never exceed the original quantity.       *)
(***************************************************************************)
THEOREM FillsCorrect == BookSpec => []FillsWithinOriginal
<1>1. BookInv => FillsWithinOriginal
  BY DEF BookInv, OrdersOK, FillsWithinOriginal
<1>2. QED
  BY <1>1, BookInvCorrect, PTL

-----------------------------------------------------------------------------
(***************************************************************************)
(* The figures beside the orders.  First what each update does to them,    *)
(* field by field.                                                         *)
(***************************************************************************)
Level == [quantity : Int, orders : Int, newest_ts : Nat]

Shape(a) ==
  /\ DOMAIN a = {"levels", "side_qty", "side_orders", "footprint"}
  /\ DOMAIN a.levels = Side
  /\ DOMAIN a.side_qty = Side
  /\ DOMAIN a.side_orders = Side
  /\ DOMAIN a.footprint = Participant
  /\ \A p \in Participant : DOMAIN a.footprint[p] = Side

LevelAdded(a, b, s, px, q, ts) ==
  LET old == LevelAt(a, s, px) IN
  /\ Shape(b)
  /\ b.footprint = a.footprint
  /\ \A t \in Side \ {s} : /\ b.levels[t] = a.levels[t]
                           /\ b.side_qty[t] = a.side_qty[t]
                           /\ b.side_orders[t] = a.side_orders[t]
  /\ b.levels[s] = Bind(a.levels[s], px,
       [quantity |-> old.quantity + q, orders |-> old.orders + 1,
        newest_ts |-> Max2(old.newest_ts, ts)])
  /\ b.side_qty[s] = a.side_qty[s] + q
  /\ b.side_orders[s] = a.side_orders[s] + 1

FootprintMoved(a, b, s, p, q, n) ==
  /\ Shape(b)
  /\ b.levels = a.levels /\ b.side_qty = a.side_qty /\ b.side_orders = a.side_orders
  /\ \A r \in Participant, t \in Side :
       b.footprint[r][t] = IF r = p /\ t = s
                             THEN [qty |-> a.footprint[p][s].qty + q,
                                   orders |-> Max2(a.footprint[p][s].orders + n, 0)]
                             ELSE a.footprint[r][t]

LevelRemoved(a, b, s, px, q) ==
  LET old == a.levels[s][px]
      left == [quantity |-> old.quantity - q, orders |-> Max2(old.orders - 1, 0),
               newest_ts |-> old.newest_ts] IN
  /\ Shape(b)
  /\ b.footprint = a.footprint
  /\ \A t \in Side \ {s} : /\ b.levels[t] = a.levels[t]
                           /\ b.side_qty[t] = a.side_qty[t]
                           /\ b.side_orders[t] = a.side_orders[t]
  /\ b.levels[s] = IF left.quantity <= 0 \/ left.orders = 0
                     THEN Unbind(a.levels[s], px) ELSE Bind(a.levels[s], px, left)
  /\ b.side_qty[s] = a.side_qty[s] - q
  /\ b.side_orders[s] = Max2(a.side_orders[s] - 1, 0)

LevelReduced(a, b, s, px, q) ==
  LET old == a.levels[s][px] IN
  /\ Shape(b)
  /\ b.footprint = a.footprint
  /\ \A t \in Side : b.side_orders[t] = a.side_orders[t]
  /\ \A t \in Side \ {s} : /\ b.levels[t] = a.levels[t]
                           /\ b.side_qty[t] = a.side_qty[t]
  /\ b.levels[s] = Bind(a.levels[s], px,
       [quantity |-> old.quantity - q, orders |-> old.orders, newest_ts |-> old.newest_ts])
  /\ b.side_qty[s] = a.side_qty[s] - q

LEMMA AddLevelEffect ==
  ASSUME NEW a, Shape(a), NEW s \in Side, NEW px, NEW q, NEW ts
  PROVE  LevelAdded(a, AddLevel(a, s, px, q, ts), s, px, q, ts)
BY DEF AddLevel, Shape, LevelAdded

LEMMA FootprintEffect ==
  ASSUME NEW a, Shape(a), NEW s \in Side, NEW p \in Participant, NEW q, NEW n
  PROVE  FootprintMoved(a, Footprint(a, p, s, q, n), s, p, q, n)
BY DEF Footprint, Shape, FootprintMoved

LEMMA LevelShrinks ==
  ASSUME NEW lv \in Level, NEW q, NEW n
  PROVE  [lv EXCEPT !.quantity = @ - q, !.orders = n] =
           [quantity |-> lv.quantity - q, orders |-> n, newest_ts |-> lv.newest_ts]
<1> DEFINE new == [lv EXCEPT !.quantity = @ - q, !.orders = n]
<1>1. new \in [quantity : {lv.quantity - q}, orders : {n}, newest_ts : {lv.newest_ts}]
  BY DEF Level
<1> HIDE DEF new
<1>2. new = [quantity |-> lv.quantity - q, orders |-> n, newest_ts |-> lv.newest_ts]
  BY <1>1
<1>3. QED
  BY <1>2 DEF new

LEMMA RemoveLevelEffect ==
  ASSUME NEW a, Shape(a), NEW s \in Side, NEW px \in DOMAIN a.levels[s], NEW q,
         a.levels[s][px] \in Level
  PROVE  LevelRemoved(a, RemoveLevel(a, s, px, q), s, px, q)
<1> DEFINE left == [a.levels[s][px] EXCEPT !.quantity = @ - q, !.orders = Max2(@ - 1, 0)]
<1>1. left = [quantity |-> a.levels[s][px].quantity - q,
              orders |-> Max2(a.levels[s][px].orders - 1, 0),
              newest_ts |-> a.levels[s][px].newest_ts]
  BY LevelShrinks
<1>2. RemoveLevel(a, s, px, q) =
       [a EXCEPT !.levels[s] = IF left.quantity <= 0 \/ left.orders = 0
                            THEN Unbind(@, px) ELSE Bind(@, px, left),
            !.side_qty[s] = @ - q,
            !.side_orders[s] = Max2(@ - 1, 0)]
  BY DEF RemoveLevel
<1> HIDE DEF left
<1>3. QED
  BY <1>1, <1>2 DEF Shape, LevelRemoved

LEMMA ReduceLevelEffect ==
  ASSUME NEW a, Shape(a), NEW s \in Side, NEW px \in DOMAIN a.levels[s], NEW q \in Int,
         a.levels[s][px] \in Level, a.levels[s][px].quantity - q > 0
  PROVE  LevelReduced(a, ReduceLevel(a, s, px, q), s, px, q)
<1> DEFINE left == [a.levels[s][px] EXCEPT !.quantity = @ - q]
<1>1. left = [quantity |-> a.levels[s][px].quantity - q,
              orders |-> a.levels[s][px].orders,
              newest_ts |-> a.levels[s][px].newest_ts]
  <2>1. ASSUME NEW lv \in Level
        PROVE  [lv EXCEPT !.quantity = @ - q] =
                 [quantity |-> lv.quantity - q, orders |-> lv.orders, newest_ts |-> lv.newest_ts]
    BY DEF Level
  <2>2. QED
    BY <2>1
<1>2. a.levels[s][px].quantity - q \in Int /\ ~(left.quantity <= 0)
  BY <1>1 DEF Level
<1>3. ReduceLevel(a, s, px, q) =
       [a EXCEPT !.levels[s] = Bind(@, px, left),
            !.side_qty[s] = @ - q,
            !.side_orders[s] = @]
  BY <1>2 DEF ReduceLevel
<1> HIDE DEF left
<1>4. QED
  BY <1>1, <1>3 DEF Shape, LevelReduced

-----------------------------------------------------------------------------
LevelOrders(s, px) == {o \in Order : o.side = s /\ o.price = px}
SideOrders(s) == {o \in Order : o.side = s}
OwnOrders(p, s) == {o \in Order : o.side = s /\ o.participant = p}

Quantities(map, K) == LotsOf(map, Of(map, K))
Number(map, K) == Cardinality(Of(map, K))

LevelAgrees(a, map, s, px) ==
  /\ LevelAt(a, s, px) \in Level
  /\ LevelAt(a, s, px).quantity = Quantities(map, LevelOrders(s, px))
  /\ LevelAt(a, s, px).orders = Number(map, LevelOrders(s, px))
  /\ px \in DOMAIN a.levels[s] <=> Number(map, LevelOrders(s, px)) # 0

SideAgrees(a, map, s) ==
  /\ DOMAIN a.levels[s] \subseteq Price
  /\ IsFiniteSet(DOMAIN a.levels[s])
  /\ a.side_qty[s] = Quantities(map, SideOrders(s))
  /\ a.side_orders[s] = Number(map, SideOrders(s))

OwnAgrees(a, map, p, s) ==
  a.footprint[p][s] = [qty    |-> Quantities(map, OwnOrders(p, s)),
                       orders |-> Number(map, OwnOrders(p, s))]

Agree(a, map) ==
  /\ Shape(a)
  /\ \A s \in Side : SideAgrees(a, map, s)
  /\ \A s \in Side, px \in Price : LevelAgrees(a, map, s, px)
  /\ \A p \in Participant, s \in Side : OwnAgrees(a, map, p, s)

LEMMA ClassEnters ==
  ASSUME NEW map, BookMap(map), NEW id, id \notin DOMAIN map, NEW o \in Order, NEW K
  PROVE  /\ Quantities(map, K) \in Nat /\ Number(map, K) \in Nat
         /\ Quantities(Bind(map, id, o), K) = Quantities(map, K) + Share(K, o)
         /\ Number(Bind(map, id, o), K) = Number(map, K) + One(K, o)
BY OrderEnters, OfFinite DEF Quantities, Number

LEMMA ClassLeaves ==
  ASSUME NEW map, BookMap(map), NEW id \in DOMAIN map, NEW K
  PROVE  LET rest == Unbind(map, id) IN
         /\ Quantities(rest, K) \in Nat /\ Number(rest, K) \in Nat
         /\ Quantities(map, K) = Quantities(rest, K) + Share(K, map[id])
         /\ Number(map, K) = Number(rest, K) + One(K, map[id])
BY OrderLeaves, OfFinite DEF Quantities, Number

LEMMA ClassPositive ==
  ASSUME NEW map, BookMap(map), NEW K
  PROVE  /\ Quantities(map, K) \in Nat /\ Number(map, K) \in Nat
         /\ Number(map, K) = 0 <=> Quantities(map, K) = 0
<1>1. Quantities(map, K) \in Nat /\ Number(map, K) \in Nat
  BY OfFinite DEF Quantities, Number
<1>2. ASSUME Number(map, K) = 0 PROVE Quantities(map, K) = 0
  <2>1. Of(map, K) = {}
    BY <1>2, OfFinite DEF Number
  <2>2. QED
    BY <2>1, NoOrdersNoLots DEF Quantities
<1>3. ASSUME Number(map, K) # 0 PROVE Quantities(map, K) # 0
  <2>1. Of(map, K) # {}
    BY <1>3, OfFinite DEF Number
  <2>2. PICK id \in DOMAIN map : map[id] \in K
    BY <2>1 DEF Of
  <2>3. /\ Quantities(Unbind(map, id), K) \in Nat
        /\ Quantities(map, K) = Quantities(Unbind(map, id), K) + Share(K, map[id])
    BY ClassLeaves
  <2>4. Share(K, map[id]) \in Nat \ {0}
    BY <2>2 DEF Share, BookMap, Order
  <2>5. QED
    BY <2>3, <2>4
<1>4. QED
  BY <1>1, <1>2, <1>3

(***************************************************************************)
(* An order enters: its level, its side and its owner's footprint take it  *)
(* in, nothing else moves.                                                 *)
(***************************************************************************)
LEMMA EnterAgrees ==
  ASSUME NEW a, NEW map, BookMap(map), Agree(a, map),
         NEW id, id \notin DOMAIN map, NEW o \in Order, NEW ts \in Nat
  PROVE  Agree(Enter(a, o, ts), Bind(map, id, o))
<1> DEFINE a1 == AddLevel(a, o.side, o.price, o.remaining, ts)
           b == Enter(a, o, ts)
           new == Bind(map, id, o)
           old == LevelAt(a, o.side, o.price)
           lv == [quantity |-> old.quantity + o.remaining, orders |-> old.orders + 1,
                  newest_ts |-> Max2(old.newest_ts, ts)]
<1>1. /\ o.side \in Side /\ o.price \in Price /\ o.participant \in Participant
      /\ o.remaining \in Nat \ {0}
  BY DEF Order
<1>2. /\ Shape(a1)
      /\ a1.footprint = a.footprint
      /\ \A t \in Side \ {o.side} : /\ a1.levels[t] = a.levels[t]
                                    /\ a1.side_qty[t] = a.side_qty[t]
                                    /\ a1.side_orders[t] = a.side_orders[t]
      /\ a1.levels[o.side] = Bind(a.levels[o.side], o.price, lv)
      /\ a1.side_qty[o.side] = a.side_qty[o.side] + o.remaining
      /\ a1.side_orders[o.side] = a.side_orders[o.side] + 1
  <2>1. LevelAdded(a, a1, o.side, o.price, o.remaining, ts)
    BY <1>1, AddLevelEffect DEF Agree
  <2> HIDE DEF a1
  <2>2. QED
    BY <2>1 DEF LevelAdded
<1>3. b = Footprint(a1, o.participant, o.side, o.remaining, 1)
  BY DEF Enter
<1> HIDE DEF a1, b, new
<1>4. /\ Shape(b)
      /\ b.levels = a1.levels /\ b.side_qty = a1.side_qty /\ b.side_orders = a1.side_orders
      /\ \A r \in Participant, t \in Side :
           b.footprint[r][t] =
             IF r = o.participant /\ t = o.side
               THEN [qty |-> a1.footprint[o.participant][o.side].qty + o.remaining,
                     orders |-> Max2(a1.footprint[o.participant][o.side].orders + 1, 0)]
               ELSE a1.footprint[r][t]
  <2>1. FootprintMoved(a1, b, o.side, o.participant, o.remaining, 1)
    BY <1>1, <1>2, <1>3, FootprintEffect
  <2>2. QED
    BY <2>1 DEF FootprintMoved
<1>5. \A K : /\ Quantities(map, K) \in Nat /\ Number(map, K) \in Nat
             /\ Quantities(new, K) = Quantities(map, K) + Share(K, o)
             /\ Number(new, K) = Number(map, K) + One(K, o)
  BY ClassEnters DEF new
<1>6. ASSUME NEW s \in Side PROVE SideAgrees(b, new, s)
  <2>1. SideAgrees(a, map, s)
    BY DEF Agree
  <2>2. CASE s = o.side
    <3>1. DOMAIN b.levels[s] = DOMAIN a.levels[s] \cup {o.price}
      BY <1>2, <1>4, <2>2 DEF Bind
    <3>2. IsFiniteSet(DOMAIN b.levels[s])
      <4>1. IsFiniteSet(DOMAIN a.levels[s])
        BY <2>1 DEF SideAgrees
      <4>2. QED
        BY <3>1, <4>1, FS_AddElement
    <3>3. Share(SideOrders(s), o) = o.remaining /\ One(SideOrders(s), o) = 1
      BY <2>2 DEF Share, One, SideOrders
    <3>4. QED
      BY <1>1, <1>2, <1>4, <1>5, <2>1, <2>2, <3>1, <3>2, <3>3 DEF SideAgrees
  <2>3. CASE s # o.side
    <3>1. Share(SideOrders(s), o) = 0 /\ One(SideOrders(s), o) = 0
      BY <2>3 DEF Share, One, SideOrders
    <3>2. QED
      BY <1>2, <1>4, <1>5, <2>1, <2>3, <3>1 DEF SideAgrees
  <2>4. QED
    BY <2>2, <2>3
<1>7. ASSUME NEW s \in Side, NEW px \in Price PROVE LevelAgrees(b, new, s, px)
  <2> DEFINE K == LevelOrders(s, px)
  <2>1. LevelAgrees(a, map, s, px)
    BY DEF Agree
  <2>2. CASE s = o.side /\ px = o.price
    <3>1. Share(K, o) = o.remaining /\ One(K, o) = 1
      BY <2>2 DEF Share, One, LevelOrders
    <3>2. px \in DOMAIN b.levels[s] /\ b.levels[s][px] = lv
      BY <1>2, <1>4, <2>2 DEF Bind
    <3>3. LevelAt(b, s, px) = lv
      BY <3>2 DEF LevelAt
    <3>4. old \in Level /\ old.quantity = Quantities(map, K) /\ old.orders = Number(map, K)
      BY <2>1, <2>2 DEF LevelAgrees
    <3> HIDE DEF K, old
    <3>5. lv \in Level
      BY <1>1, <3>4 DEF Level, Max2
    <3>6. QED
      BY <1>5, <3>1, <3>2, <3>3, <3>4, <3>5 DEF LevelAgrees, K
  <2>3. CASE ~(s = o.side /\ px = o.price)
    <3>1. Share(K, o) = 0 /\ One(K, o) = 0
      BY <2>3 DEF Share, One, LevelOrders
    <3>2. /\ LevelAt(b, s, px) = LevelAt(a, s, px)
          /\ px \in DOMAIN b.levels[s] <=> px \in DOMAIN a.levels[s]
      <4>1. CASE s # o.side
        <5>1. b.levels[s] = a.levels[s]
          BY <1>2, <1>4, <4>1
        <5>2. QED
          BY <5>1 DEF LevelAt
      <4>2. CASE s = o.side /\ px # o.price
        <5>1. b.levels[s] = Bind(a.levels[s], o.price, lv)
          BY <1>2, <1>4, <4>2
        <5> DEFINE m == a.levels[s]
        <5>2. /\ DOMAIN Bind(m, o.price, lv) = DOMAIN m \cup {o.price}
              /\ \A x \in DOMAIN m : x # o.price => Bind(m, o.price, lv)[x] = m[x]
          BY DEF Bind
        <5> HIDE DEF m, lv
        <5>3. b.levels[s] = Bind(m, o.price, lv)
          BY <5>1 DEF m
        <5>4. px \in DOMAIN b.levels[s] <=> px \in DOMAIN m
          BY <4>2, <5>2, <5>3
        <5>5. px \in DOMAIN m => b.levels[s][px] = m[px]
          BY <4>2, <5>2, <5>3
        <5>6. QED
          BY <5>4, <5>5 DEF LevelAt, m
      <4>3. QED
        BY <2>3, <4>1, <4>2
    <3>3. QED
      BY <1>5, <2>1, <3>1, <3>2 DEF LevelAgrees
  <2>4. QED
    BY <2>2, <2>3
<1>8. ASSUME NEW p \in Participant, NEW s \in Side PROVE OwnAgrees(b, new, p, s)
  <2> DEFINE K == OwnOrders(p, s)
  <2>1. OwnAgrees(a, map, p, s)
    BY DEF Agree
  <2>2. CASE p = o.participant /\ s = o.side
    <3>1. Share(K, o) = o.remaining /\ One(K, o) = 1
      BY <2>2 DEF Share, One, OwnOrders
    <3>2. b.footprint[p][s] = [qty |-> a.footprint[p][s].qty + o.remaining,
                               orders |-> Max2(a.footprint[p][s].orders + 1, 0)]
      BY <1>2, <1>4, <2>2
    <3>3. QED
      BY <1>1, <1>5, <2>1, <3>1, <3>2 DEF OwnAgrees, Max2
  <2>3. CASE ~(p = o.participant /\ s = o.side)
    <3>1. Share(K, o) = 0 /\ One(K, o) = 0
      BY <2>3 DEF Share, One, OwnOrders
    <3>2. b.footprint[p][s] = a.footprint[p][s]
      BY <1>2, <1>4, <2>3
    <3>3. QED
      BY <1>5, <2>1, <3>1, <3>2 DEF OwnAgrees
  <2>4. QED
    BY <2>2, <2>3
<1>9. QED
  BY <1>4, <1>6, <1>7, <1>8 DEF Agree, b, new

-----------------------------------------------------------------------------
\* b shows no level that a does not, and those as fresh as a does.
Within(b, a) ==
  \A s \in Side : \A px \in DOMAIN b.levels[s] :
    /\ px \in DOMAIN a.levels[s]
    /\ b.levels[s][px].newest_ts = a.levels[s][px].newest_ts

(***************************************************************************)
(* An order leaves: the same three figures give it up, and its level goes  *)
(* exactly when it was the last one there.                                 *)
(***************************************************************************)
LEMMA LeaveAgrees ==
  ASSUME NEW a, NEW map, BookMap(map), Agree(a, map), NEW id \in DOMAIN map
  PROVE  /\ Agree(Leave(a, map[id]), Unbind(map, id))
         /\ Within(Leave(a, map[id]), a)
<1> DEFINE o == map[id]
           rest == Unbind(map, id)
           a1 == RemoveLevel(a, o.side, o.price, o.remaining)
           b == Leave(a, o)
           here == LevelOrders(o.side, o.price)
           old == a.levels[o.side][o.price]
           left == [quantity |-> old.quantity - o.remaining,
                    orders |-> Max2(old.orders - 1, 0), newest_ts |-> old.newest_ts]
<1>1. /\ o \in Order
      /\ o.side \in Side /\ o.price \in Price /\ o.participant \in Participant
      /\ o.remaining \in Nat \ {0}
  BY OrderLeaves DEF Order
<1>2. \A K : /\ Quantities(rest, K) \in Nat /\ Number(rest, K) \in Nat
             /\ Quantities(map, K) = Quantities(rest, K) + Share(K, o)
             /\ Number(map, K) = Number(rest, K) + One(K, o)
             /\ Number(rest, K) = 0 <=> Quantities(rest, K) = 0
  <2>1. BookMap(rest)
    BY OrderLeaves
  <2> HIDE DEF rest, o
  <2>2. QED
    BY <2>1, ClassLeaves, ClassPositive DEF rest, o
<1> HIDE DEF o, rest
<1>3. Share(here, o) = o.remaining /\ One(here, o) = 1
  BY <1>1 DEF Share, One, LevelOrders
<1>4. LevelAgrees(a, map, o.side, o.price)
  BY <1>1 DEF Agree
<1>5. /\ o.price \in DOMAIN a.levels[o.side] /\ old \in Level
      /\ old.quantity = Quantities(map, here) /\ old.orders = Number(map, here)
  BY <1>2, <1>3, <1>4 DEF LevelAgrees, LevelAt
<1>6. left.quantity = Quantities(rest, here) /\ left.orders = Number(rest, here)
  <2> HIDE DEF old, here
  <2>1. QED
    BY <1>1, <1>2, <1>3, <1>5 DEF Max2
<1>7. left \in Level
  <2> HIDE DEF old, here
  <2>1. left = [quantity |-> Quantities(rest, here), orders |-> Number(rest, here),
                newest_ts |-> old.newest_ts]
    BY <1>6
  <2> HIDE DEF left
  <2>2. QED
    BY <1>2, <1>5, <2>1 DEF Level
<1>8. /\ Shape(a1)
      /\ a1.footprint = a.footprint
      /\ \A t \in Side \ {o.side} : /\ a1.levels[t] = a.levels[t]
                                    /\ a1.side_qty[t] = a.side_qty[t]
                                    /\ a1.side_orders[t] = a.side_orders[t]
      /\ a1.levels[o.side] = IF left.quantity <= 0 \/ left.orders = 0
                               THEN Unbind(a.levels[o.side], o.price)
                               ELSE Bind(a.levels[o.side], o.price, left)
      /\ a1.side_qty[o.side] = a.side_qty[o.side] - o.remaining
      /\ a1.side_orders[o.side] = Max2(a.side_orders[o.side] - 1, 0)
  <2>1. Shape(a)
    BY DEF Agree
  <2>2. /\ o.side \in Side /\ o.price \in DOMAIN a.levels[o.side]
        /\ a.levels[o.side][o.price] \in Level
    BY <1>1, <1>5
  <2>3. LevelRemoved(a, a1, o.side, o.price, o.remaining)
    BY <2>1, <2>2, RemoveLevelEffect
  <2> HIDE DEF a1
  <2>4. QED
    BY <2>3 DEF LevelRemoved
<1>9. a1.levels[o.side] = IF Number(rest, here) = 0
                            THEN Unbind(a.levels[o.side], o.price)
                            ELSE Bind(a.levels[o.side], o.price, left)
  <2> HIDE DEF left, here
  <2>1. left.quantity <= 0 \/ left.orders = 0 <=> Number(rest, here) = 0
    BY <1>2, <1>6
  <2>2. QED
    BY <1>8, <2>1
<1>10. b = Footprint(a1, o.participant, o.side, -o.remaining, -1)
  BY DEF Leave
<1> HIDE DEF a1, b, left, here
<1>11. /\ Shape(b)
       /\ b.levels = a1.levels /\ b.side_qty = a1.side_qty /\ b.side_orders = a1.side_orders
       /\ \A r \in Participant, t \in Side :
            b.footprint[r][t] =
              IF r = o.participant /\ t = o.side
                THEN [qty |-> a1.footprint[o.participant][o.side].qty + (-o.remaining),
                      orders |-> Max2(a1.footprint[o.participant][o.side].orders + (-1), 0)]
                ELSE a1.footprint[r][t]
  <2>1. FootprintMoved(a1, b, o.side, o.participant, -o.remaining, -1)
    BY <1>1, <1>8, <1>10, FootprintEffect
  <2>2. QED
    BY <2>1 DEF FootprintMoved
<1>12. ASSUME NEW s \in Side PROVE SideAgrees(b, rest, s)
  <2>1. SideAgrees(a, map, s)
    BY DEF Agree
  <2>2. CASE s = o.side
    <3>1. \/ DOMAIN b.levels[s] = DOMAIN a.levels[s]
          \/ DOMAIN b.levels[s] = DOMAIN a.levels[s] \ {o.price}
      <4>1. \/ b.levels[s] = Bind(a.levels[o.side], o.price, left)
            \/ b.levels[s] = Unbind(a.levels[o.side], o.price)
        BY <1>9, <1>11, <2>2
      <4>2. /\ DOMAIN Bind(a.levels[o.side], o.price, left) = DOMAIN a.levels[o.side] \cup {o.price}
            /\ DOMAIN Unbind(a.levels[o.side], o.price) = DOMAIN a.levels[o.side] \ {o.price}
        BY DEF Bind, Unbind
      <4>3. QED
        BY <1>5, <2>2, <4>1, <4>2
    <3>2. IsFiniteSet(DOMAIN b.levels[s]) /\ DOMAIN b.levels[s] \subseteq Price
      BY <2>1, <3>1, FS_RemoveElement DEF SideAgrees
    <3>3. Share(SideOrders(s), o) = o.remaining /\ One(SideOrders(s), o) = 1
      BY <1>1, <2>2 DEF Share, One, SideOrders
    <3>4. /\ b.side_qty[s] = a.side_qty[s] - o.remaining
          /\ b.side_orders[s] = Max2(a.side_orders[s] - 1, 0)
      BY <1>8, <1>11, <2>2
    <3>5. QED
      BY <1>1, <1>2, <2>1, <3>2, <3>3, <3>4 DEF SideAgrees, Max2
  <2>3. CASE s # o.side
    <3>1. Share(SideOrders(s), o) = 0 /\ One(SideOrders(s), o) = 0
      BY <2>3 DEF Share, One, SideOrders
    <3>2. QED
      BY <1>2, <1>8, <1>11, <2>1, <2>3, <3>1 DEF SideAgrees
  <2>4. QED
    BY <2>2, <2>3
<1>13. ASSUME NEW s \in Side, NEW px \in Price
       PROVE  /\ LevelAgrees(b, rest, s, px)
              /\ px \in DOMAIN b.levels[s] =>
                   /\ px \in DOMAIN a.levels[s]
                   /\ b.levels[s][px].newest_ts = a.levels[s][px].newest_ts
  <2> DEFINE K == LevelOrders(s, px)
  <2>1. LevelAgrees(a, map, s, px)
    BY DEF Agree
  <2>2. CASE s = o.side /\ px = o.price
    <3>1. K = here
      BY <2>2 DEF here
    <3>2. CASE Number(rest, here) = 0
      <4>1. px \notin DOMAIN b.levels[s]
        BY <1>9, <1>11, <2>2, <3>2 DEF Unbind
      <4>2. LevelAt(b, s, px) = NoLevel
        BY <4>1 DEF LevelAt
      <4>3. Quantities(rest, here) = 0
        BY <1>2, <3>2
      <4>4. NoLevel \in Level /\ NoLevel.quantity = 0 /\ NoLevel.orders = 0
        BY DEF NoLevel, Level
      <4>5. QED
        BY <3>1, <3>2, <4>1, <4>2, <4>3, <4>4 DEF LevelAgrees
    <3>3. CASE Number(rest, here) # 0
      <4>1. px \in DOMAIN b.levels[s] /\ b.levels[s][px] = left
        BY <1>9, <1>11, <2>2, <3>3 DEF Bind
      <4>2. LevelAt(b, s, px) = left
        BY <4>1 DEF LevelAt
      <4>3. left.newest_ts = a.levels[s][px].newest_ts
        BY <2>2 DEF left
      <4>4. QED
        BY <1>5, <1>6, <1>7, <2>2, <3>1, <3>3, <4>1, <4>2, <4>3 DEF LevelAgrees
    <3>4. QED
      BY <3>2, <3>3
  <2>3. CASE ~(s = o.side /\ px = o.price)
    <3>1. Share(K, o) = 0 /\ One(K, o) = 0
      BY <2>3 DEF Share, One, LevelOrders
    <3>2. /\ LevelAt(b, s, px) = LevelAt(a, s, px)
          /\ px \in DOMAIN b.levels[s] <=> px \in DOMAIN a.levels[s]
          /\ px \in DOMAIN b.levels[s] => b.levels[s][px] = a.levels[s][px]
      <4>1. CASE s # o.side
        <5>1. b.levels[s] = a.levels[s]
          BY <1>8, <1>11, <4>1
        <5>2. QED
          BY <5>1 DEF LevelAt
      <4>2. CASE s = o.side /\ px # o.price
        <5>1. \/ b.levels[s] = Bind(a.levels[s], o.price, left)
              \/ b.levels[s] = Unbind(a.levels[s], o.price)
          BY <1>9, <1>11, <4>2
        <5>2. ASSUME NEW f, f = Bind(a.levels[s], o.price, left) \/ f = Unbind(a.levels[s], o.price)
              PROVE  /\ px \in DOMAIN f <=> px \in DOMAIN a.levels[s]
                     /\ px \in DOMAIN f => f[px] = a.levels[s][px]
          BY <4>2, <5>2 DEF Bind, Unbind
        <5>3. /\ px \in DOMAIN b.levels[s] <=> px \in DOMAIN a.levels[s]
              /\ px \in DOMAIN b.levels[s] => b.levels[s][px] = a.levels[s][px]
          BY <4>2, <5>1, <5>2
        <5>4. QED
          BY <5>3 DEF LevelAt
      <4>3. QED
        BY <2>3, <4>1, <4>2
    <3>3. QED
      BY <1>2, <2>1, <3>1, <3>2 DEF LevelAgrees
  <2>4. QED
    BY <2>2, <2>3
<1>14. ASSUME NEW p \in Participant, NEW s \in Side PROVE OwnAgrees(b, rest, p, s)
  <2> DEFINE K == OwnOrders(p, s)
  <2>1. OwnAgrees(a, map, p, s)
    BY DEF Agree
  <2>2. CASE p = o.participant /\ s = o.side
    <3>1. Share(K, o) = o.remaining /\ One(K, o) = 1
      BY <1>1, <2>2 DEF Share, One, OwnOrders
    <3>2. b.footprint[p][s] = [qty |-> a.footprint[p][s].qty + (-o.remaining),
                               orders |-> Max2(a.footprint[p][s].orders + (-1), 0)]
      BY <1>8, <1>11, <2>2
    <3>3. QED
      BY <1>1, <1>2, <2>1, <3>1, <3>2 DEF OwnAgrees, Max2
  <2>3. CASE ~(p = o.participant /\ s = o.side)
    <3>1. Share(K, o) = 0 /\ One(K, o) = 0
      BY <2>3 DEF Share, One, OwnOrders
    <3>2. b.footprint[p][s] = a.footprint[p][s]
      BY <1>8, <1>11, <2>3
    <3>3. QED
      BY <1>2, <2>1, <3>1, <3>2 DEF OwnAgrees
  <2>4. QED
    BY <2>2, <2>3
<1>15. Within(b, a)
  BY <1>12, <1>13 DEF Within, SideAgrees
<1>16. Agree(b, rest)
  BY <1>11, <1>12, <1>13, <1>14 DEF Agree
<1>17. QED
  BY <1>15, <1>16 DEF b, rest, o

\* An order changed in place is the order taken out and the changed one put in.
LEMMA ChangeIsLeaveAndEnter ==
  ASSUME NEW map, BookMap(map), NEW id \in DOMAIN map, NEW new
  PROVE  /\ [map EXCEPT ![id] = new] = Bind(Unbind(map, id), id, new)
         /\ BookMap(Unbind(map, id)) /\ id \notin DOMAIN Unbind(map, id)
<1>1. [map EXCEPT ![id] = new] = Bind(Unbind(map, id), id, new)
  BY DEF Bind, Unbind
<1>2. BookMap(Unbind(map, id)) /\ id \notin DOMAIN Unbind(map, id)
  BY OrderLeaves DEF Unbind
<1>3. QED
  BY <1>1, <1>2

(***************************************************************************)
(* A fill that leaves something of the order: the three figures lose the   *)
(* filled lots and no order.                                               *)
(***************************************************************************)
LEMMA ReduceAgrees ==
  ASSUME NEW a, NEW map, BookMap(map), Agree(a, map), NEW id \in DOMAIN map,
         NEW fill \in Int, fill < map[id].remaining, NEW new \in Order,
         new.side = map[id].side, new.price = map[id].price,
         new.participant = map[id].participant, new.remaining = map[id].remaining - fill
  PROVE  LET o == map[id]
             b == ReduceLevel(Footprint(a, o.participant, o.side, -fill, 0),
                              o.side, o.price, fill) IN
         /\ Agree(b, [map EXCEPT ![id] = new])
         /\ Within(b, a)
<1> DEFINE o == map[id]
           rest == Unbind(map, id)
           map2 == [map EXCEPT ![id] = new]
           a1 == Footprint(a, o.participant, o.side, -fill, 0)
           b == ReduceLevel(a1, o.side, o.price, fill)
           here == LevelOrders(o.side, o.price)
           old == a.levels[o.side][o.price]
           left == [quantity |-> old.quantity - fill, orders |-> old.orders,
                    newest_ts |-> old.newest_ts]
<1>1. /\ o \in Order
      /\ o.side \in Side /\ o.price \in Price /\ o.participant \in Participant
      /\ o.remaining \in Nat \ {0}
  BY OrderLeaves DEF Order
<1>2. \A K : /\ Quantities(rest, K) \in Nat /\ Number(rest, K) \in Nat
             /\ Quantities(map, K) = Quantities(rest, K) + Share(K, o)
             /\ Number(map, K) = Number(rest, K) + One(K, o)
             /\ Quantities(map2, K) = Quantities(rest, K) + Share(K, new)
             /\ Number(map2, K) = Number(rest, K) + One(K, new)
  <2>1. map2 = Bind(rest, id, new) /\ BookMap(rest) /\ id \notin DOMAIN rest
    BY ChangeIsLeaveAndEnter
  <2> HIDE DEF rest, o, map2
  <2>2. QED
    BY <2>1, ClassLeaves, ClassEnters DEF rest, o
<1>3. /\ new.side = o.side /\ new.price = o.price /\ new.participant = o.participant
      /\ new.remaining = o.remaining - fill /\ fill < o.remaining
  OBVIOUS
<1> HIDE DEF o, rest, map2
<1>4. Share(here, o) = o.remaining /\ One(here, o) = 1
  BY <1>1 DEF Share, One, LevelOrders
<1>5. LevelAgrees(a, map, o.side, o.price)
  BY <1>1 DEF Agree
<1>6. /\ o.price \in DOMAIN a.levels[o.side] /\ old \in Level
      /\ old.quantity = Quantities(map, here) /\ old.orders = Number(map, here)
  BY <1>2, <1>4, <1>5 DEF LevelAgrees, LevelAt
<1>7. old.quantity - fill > 0
  <2> HIDE DEF old, here
  <2>1. QED
    BY <1>1, <1>2, <1>3, <1>4, <1>6
<1>8. left \in Level
  <2> HIDE DEF old
  <2>1. QED
    BY <1>6 DEF Level
<1>9. /\ Shape(a1)
      /\ a1.levels = a.levels /\ a1.side_qty = a.side_qty /\ a1.side_orders = a.side_orders
      /\ \A r \in Participant, t \in Side :
           a1.footprint[r][t] =
             IF r = o.participant /\ t = o.side
               THEN [qty |-> a.footprint[o.participant][o.side].qty + (-fill),
                     orders |-> Max2(a.footprint[o.participant][o.side].orders + 0, 0)]
               ELSE a.footprint[r][t]
  <2>1. FootprintMoved(a, a1, o.side, o.participant, -fill, 0)
    BY <1>1, FootprintEffect DEF Agree
  <2> HIDE DEF a1
  <2>2. QED
    BY <2>1 DEF FootprintMoved
<1> HIDE DEF a1
<1>10. /\ Shape(b)
       /\ b.footprint = a1.footprint
       /\ \A t \in Side : b.side_orders[t] = a.side_orders[t]
       /\ \A t \in Side \ {o.side} : /\ b.levels[t] = a.levels[t]
                                     /\ b.side_qty[t] = a.side_qty[t]
       /\ b.levels[o.side] = Bind(a.levels[o.side], o.price, left)
       /\ b.side_qty[o.side] = a.side_qty[o.side] - fill
  <2>1. /\ Shape(a1) /\ o.side \in Side /\ fill \in Int
        /\ o.price \in DOMAIN a1.levels[o.side] /\ a1.levels[o.side][o.price] = old
        /\ old \in Level /\ old.quantity - fill > 0
    BY <1>1, <1>6, <1>7, <1>9
  <2>2. /\ Shape(b)
        /\ b.footprint = a1.footprint
        /\ \A t \in Side : b.side_orders[t] = a1.side_orders[t]
        /\ \A t \in Side \ {o.side} : /\ b.levels[t] = a1.levels[t]
                                      /\ b.side_qty[t] = a1.side_qty[t]
        /\ b.levels[o.side] = Bind(a1.levels[o.side], o.price, left)
        /\ b.side_qty[o.side] = a1.side_qty[o.side] - fill
    <3>1. LevelReduced(a1, b, o.side, o.price, fill)
      BY <2>1, ReduceLevelEffect
    <3> HIDE DEF b
    <3>2. QED
      BY <2>1, <3>1 DEF LevelReduced
  <2> HIDE DEF b, left, old
  <2>3. QED
    BY <1>9, <2>2
<1> HIDE DEF b, here, left
<1>11. ASSUME NEW s \in Side PROVE SideAgrees(b, map2, s)
  <2>1. SideAgrees(a, map, s)
    BY DEF Agree
  <2>2. CASE s = o.side
    <3>1. DOMAIN b.levels[s] = DOMAIN a.levels[s]
      BY <1>6, <1>10, <2>2 DEF Bind
    <3>2. /\ Share(SideOrders(s), o) = o.remaining /\ One(SideOrders(s), o) = 1
          /\ Share(SideOrders(s), new) = new.remaining /\ One(SideOrders(s), new) = 1
      BY <1>1, <1>3, <2>2 DEF Share, One, SideOrders
    <3>3. QED
      BY <1>1, <1>2, <1>3, <1>10, <2>1, <2>2, <3>1, <3>2 DEF SideAgrees
  <2>3. CASE s # o.side
    <3>1. /\ Share(SideOrders(s), o) = 0 /\ One(SideOrders(s), o) = 0
          /\ Share(SideOrders(s), new) = 0 /\ One(SideOrders(s), new) = 0
      BY <1>3, <2>3 DEF Share, One, SideOrders
    <3>2. QED
      BY <1>2, <1>10, <2>1, <2>3, <3>1 DEF SideAgrees
  <2>4. QED
    BY <2>2, <2>3
<1>12. ASSUME NEW s \in Side, NEW px \in Price
       PROVE  /\ LevelAgrees(b, map2, s, px)
              /\ px \in DOMAIN b.levels[s] =>
                   /\ px \in DOMAIN a.levels[s]
                   /\ b.levels[s][px].newest_ts = a.levels[s][px].newest_ts
  <2> DEFINE K == LevelOrders(s, px)
  <2>1. LevelAgrees(a, map, s, px)
    BY DEF Agree
  <2>2. CASE s = o.side /\ px = o.price
    <3>1. K = here
      BY <2>2 DEF here
    <3>2. px \in DOMAIN b.levels[s] /\ b.levels[s][px] = left
      BY <1>10, <2>2 DEF Bind
    <3>3. LevelAt(b, s, px) = left
      BY <3>2 DEF LevelAt
    <3>4. Share(here, new) = new.remaining /\ One(here, new) = 1
      BY <1>1, <1>3 DEF Share, One, LevelOrders, here
    <3>5. /\ left.quantity = Quantities(map2, here) /\ left.orders = Number(map2, here)
          /\ Number(map2, here) # 0
      <4> HIDE DEF old
      <4>1. left.quantity = old.quantity - fill /\ left.orders = old.orders
        BY DEF left
      <4>2. QED
        BY <1>1, <1>2, <1>3, <1>4, <1>6, <3>4, <4>1
    <3>6. left.newest_ts = a.levels[s][px].newest_ts
      BY <2>2 DEF left
    <3>7. QED
      BY <1>6, <1>8, <2>2, <3>1, <3>2, <3>3, <3>5, <3>6 DEF LevelAgrees
  <2>3. CASE ~(s = o.side /\ px = o.price)
    <3>1. /\ Share(K, o) = 0 /\ One(K, o) = 0
          /\ Share(K, new) = 0 /\ One(K, new) = 0
      BY <1>3, <2>3 DEF Share, One, LevelOrders
    <3>2. /\ LevelAt(b, s, px) = LevelAt(a, s, px)
          /\ px \in DOMAIN b.levels[s] <=> px \in DOMAIN a.levels[s]
          /\ px \in DOMAIN b.levels[s] => b.levels[s][px] = a.levels[s][px]
      <4>1. CASE s # o.side
        <5>1. b.levels[s] = a.levels[s]
          BY <1>10, <4>1
        <5>2. QED
          BY <5>1 DEF LevelAt
      <4>2. CASE s = o.side /\ px # o.price
        <5>1. b.levels[s] = Bind(a.levels[s], o.price, left)
          BY <1>10, <4>2
        <5>2. ASSUME NEW f, f = Bind(a.levels[s], o.price, left)
              PROVE  /\ px \in DOMAIN f <=> px \in DOMAIN a.levels[s]
                     /\ px \in DOMAIN f => f[px] = a.levels[s][px]
          BY <4>2, <5>2 DEF Bind
        <5>3. /\ px \in DOMAIN b.levels[s] <=> px \in DOMAIN a.levels[s]
              /\ px \in DOMAIN b.levels[s] => b.levels[s][px] = a.levels[s][px]
          BY <4>2, <5>1, <5>2
        <5>4. QED
          BY <5>3 DEF LevelAt
      <4>3. QED
        BY <2>3, <4>1, <4>2
    <3>3. QED
      BY <1>2, <2>1, <3>1, <3>2 DEF LevelAgrees
  <2>4. QED
    BY <2>2, <2>3
<1>13. ASSUME NEW p \in Participant, NEW s \in Side PROVE OwnAgrees(b, map2, p, s)
  <2> DEFINE K == OwnOrders(p, s)
  <2>1. OwnAgrees(a, map, p, s)
    BY DEF Agree
  <2>2. CASE p = o.participant /\ s = o.side
    <3>1. /\ Share(K, o) = o.remaining /\ One(K, o) = 1
          /\ Share(K, new) = new.remaining /\ One(K, new) = 1
      BY <1>1, <1>3, <2>2 DEF Share, One, OwnOrders
    <3>2. b.footprint[p][s] = [qty |-> a.footprint[p][s].qty + (-fill),
                               orders |-> Max2(a.footprint[p][s].orders + 0, 0)]
      BY <1>9, <1>10, <2>2
    <3>3. QED
      BY <1>1, <1>2, <1>3, <2>1, <3>1, <3>2 DEF OwnAgrees, Max2
  <2>3. CASE ~(p = o.participant /\ s = o.side)
    <3>1. /\ Share(K, o) = 0 /\ One(K, o) = 0
          /\ Share(K, new) = 0 /\ One(K, new) = 0
      BY <1>3, <2>3 DEF Share, One, OwnOrders
    <3>2. b.footprint[p][s] = a.footprint[p][s]
      BY <1>9, <1>10, <2>3
    <3>3. QED
      BY <1>2, <2>1, <3>1, <3>2 DEF OwnAgrees
  <2>4. QED
    BY <2>2, <2>3
<1>14. Within(b, a)
  BY <1>11, <1>12 DEF Within, SideAgrees
<1>15. Agree(b, map2)
  BY <1>10, <1>11, <1>12, <1>13 DEF Agree
<1>16. QED
  BY <1>14, <1>15 DEF b, a1, map2, o

-----------------------------------------------------------------------------
\* No level was refreshed after t.
Stamps(a, t) ==
  \A s \in Side : \A px \in DOMAIN a.levels[s] : a.levels[s][px].newest_ts <= t

LEMMA EnterStamps ==
  ASSUME NEW a, NEW map, Agree(a, map), NEW o \in Order, NEW ts \in Nat, Stamps(a, ts)
  PROVE  LET b == Enter(a, o, ts) IN
         /\ Stamps(b, ts)
         /\ o.price \in DOMAIN b.levels[o.side]
         /\ b.levels[o.side][o.price].newest_ts = ts
<1> DEFINE b == Enter(a, o, ts)
           old == LevelAt(a, o.side, o.price)
           lv == [quantity |-> old.quantity + o.remaining, orders |-> old.orders + 1,
                  newest_ts |-> Max2(old.newest_ts, ts)]
<1>1. o.side \in Side /\ o.price \in Price /\ o.participant \in Participant
  BY DEF Order
<1>2. /\ \A t \in Side \ {o.side} : b.levels[t] = a.levels[t]
      /\ b.levels[o.side] = Bind(a.levels[o.side], o.price, lv)
  <2> DEFINE a1 == AddLevel(a, o.side, o.price, o.remaining, ts)
  <2>1. /\ Shape(a1)
        /\ \A t \in Side \ {o.side} : a1.levels[t] = a.levels[t]
        /\ a1.levels[o.side] = Bind(a.levels[o.side], o.price, lv)
    <3>1. LevelAdded(a, a1, o.side, o.price, o.remaining, ts)
      BY <1>1, AddLevelEffect DEF Agree
    <3> HIDE DEF a1
    <3>2. QED
      BY <3>1 DEF LevelAdded
  <2>2. b = Footprint(a1, o.participant, o.side, o.remaining, 1)
    BY DEF Enter
  <2> HIDE DEF a1, b, lv
  <2>3. Footprint(a1, o.participant, o.side, o.remaining, 1).levels = a1.levels
    BY <2>1 DEF Footprint, Shape
  <2>4. QED
    BY <2>1, <2>2, <2>3
<1>3. old.newest_ts \in Nat /\ old.newest_ts <= ts
  <2>1. old \in Level
    BY <1>1 DEF Agree, LevelAgrees
  <2>2. old = NoLevel \/ (o.price \in DOMAIN a.levels[o.side] /\ old = a.levels[o.side][o.price])
    BY DEF LevelAt
  <2>3. CASE old = NoLevel
    BY <2>3 DEF NoLevel
  <2>4. CASE o.price \in DOMAIN a.levels[o.side] /\ old = a.levels[o.side][o.price]
    BY <1>1, <2>1, <2>4 DEF Stamps, Level
  <2>5. QED
    BY <2>2, <2>3, <2>4
<1>4. lv.newest_ts = ts
  <2> HIDE DEF old
  <2>1. QED
    BY <1>3 DEF Max2
<1> HIDE DEF b, lv
<1>5. ASSUME NEW s \in Side, NEW px \in DOMAIN b.levels[s]
      PROVE  b.levels[s][px].newest_ts <= ts
  <2>1. CASE s # o.side
    BY <1>2, <2>1 DEF Stamps
  <2>2. CASE s = o.side
    BY <1>2, <1>4, <2>2 DEF Stamps, Bind
  <2>3. QED
    BY <2>1, <2>2
<1>6. o.price \in DOMAIN b.levels[o.side] /\ b.levels[o.side][o.price] = lv
  BY <1>2 DEF Bind
<1>7. QED
  BY <1>4, <1>5, <1>6 DEF Stamps, b

\* A set of natural numbers that is not empty has a least element.
LEMMA LeastNumber ==
  ASSUME NEW T \in SUBSET Nat, T # {}
  PROVE  \E m \in T : \A n \in T : m <= n
<1> DEFINE Less == OpToRel(<, Nat)
<1>1. IsWellFoundedOn(Less, Nat)
  BY NatLessThanWellFounded
<1>2. \A m, n \in Nat : <<m, n>> \in Less <=> m < n
  BY DEF OpToRel
<1> HIDE DEF Less
<1>3. PICK m \in T : \A n \in T : ~(<<n, m>> \in Less)
  BY <1>1, WFMin
<1>4. ASSUME NEW n \in T PROVE m <= n
  <2>1. m \in Nat /\ n \in Nat
    OBVIOUS
  <2>2. ~(n < m)
    BY <1>2, <1>3, <2>1
  <2>3. QED
    BY <2>1, <2>2
<1>5. QED
  BY <1>4

\* Induction, over the set of the numbers for which the claim holds.
LEMMA NaturalInduction ==
  ASSUME NEW P \in SUBSET Nat, 0 \in P, \A n \in P : n + 1 \in P
  PROVE  P = Nat
<1> SUFFICES ASSUME P # Nat PROVE FALSE
  OBVIOUS
<1>1. Nat \ P # {} /\ Nat \ P \in SUBSET Nat
  OBVIOUS
<1>2. PICK m \in Nat \ P : \A n \in Nat \ P : m <= n
  BY <1>1, LeastNumber
<1>3. m # 0 /\ m - 1 \in Nat
  BY <1>2
<1>4. m - 1 \in P
  BY <1>2, <1>3
<1>5. m - 1 + 1 \in P
  BY <1>4
<1>6. QED
  BY <1>2, <1>5

\* A finite set of integers that is not empty has a greatest and a least element.
LEMMA FiniteExtremes ==
  ASSUME NEW S \in SUBSET Int, IsFiniteSet(S), S # {}
  PROVE  /\ \E m \in S : \A x \in S : m >= x
         /\ \E m \in S : \A x \in S : m <= x
<1> DEFINE Extremes(T) == /\ \E m \in T : \A x \in T : m >= x
                          /\ \E m \in T : \A x \in T : m <= x
           P == {n \in Nat : \A T \in SUBSET Int :
                   IsFiniteSet(T) /\ Cardinality(T) = n + 1 => Extremes(T)}
<1>1. 0 \in P
  <2>1. ASSUME NEW T \in SUBSET Int, IsFiniteSet(T), Cardinality(T) = 1
        PROVE  Extremes(T)
    <3>1. PICK x : T = {x}
      BY <2>1, FS_Singleton
    <3>2. x \in Int
      BY <3>1
    <3>3. QED
      BY <3>1, <3>2
  <2>2. QED
    BY <2>1
<1>2. ASSUME NEW n \in P PROVE n + 1 \in P
  <2>1. ASSUME NEW T \in SUBSET Int, IsFiniteSet(T), Cardinality(T) = (n + 1) + 1
        PROVE  Extremes(T)
    <3>1. n \in Nat
      OBVIOUS
    <3>2. T # {}
      BY <2>1, <3>1, FS_EmptySet
    <3>3. PICK x \in T : TRUE
      BY <3>2
    <3>4. /\ IsFiniteSet(T \ {x}) /\ Cardinality(T \ {x}) = n + 1
          /\ T \ {x} \in SUBSET Int
      BY <2>1, <3>1, FS_RemoveElement
    <3>5. Extremes(T \ {x})
      BY <3>4
    <3>6. PICK hi \in T \ {x} : \A y \in T \ {x} : hi >= y
      BY <3>5
    <3>7. PICK lo \in T \ {x} : \A y \in T \ {x} : lo <= y
      BY <3>5
    <3>8. x \in Int /\ hi \in Int /\ lo \in Int
      OBVIOUS
    <3>9. \E m \in T : \A y \in T : m >= y
      <4> DEFINE m == IF x >= hi THEN x ELSE hi
      <4>1. m \in T /\ \A y \in T : m >= y
        BY <3>6, <3>8
      <4>2. QED
        BY <4>1
    <3>10. \E m \in T : \A y \in T : m <= y
      <4> DEFINE m == IF x <= lo THEN x ELSE lo
      <4>1. m \in T /\ \A y \in T : m <= y
        BY <3>7, <3>8
      <4>2. QED
        BY <4>1
    <3>11. QED
      BY <3>9, <3>10
  <2>2. QED
    BY <2>1
<1>3. P = Nat
  <2> HIDE DEF P
  <2>1. P \in SUBSET Nat
    BY DEF P
  <2>2. QED
    BY <1>1, <1>2, <2>1, NaturalInduction
<1>4. Cardinality(S) \in Nat /\ Cardinality(S) # 0
  BY FS_CardinalityType, FS_EmptySet
<1>5. Cardinality(S) - 1 \in P
  BY <1>3, <1>4
<1>6. (Cardinality(S) - 1) + 1 = Cardinality(S)
  BY <1>4
<1>7. QED
  BY <1>5, <1>6

(***************************************************************************)
(* The best price of a side is one of its levels, and the book is crossed  *)
(* exactly when some bid meets some ask.                                   *)
(***************************************************************************)
LEMMA BestIsALevel ==
  ASSUME NEW a, NEW map, Agree(a, map), NEW s \in Side
  PROVE  /\ DOMAIN a.levels[s] \subseteq Int
         /\ DOMAIN a.levels[s] = {} => Best(a, s) = NoPrice
         /\ DOMAIN a.levels[s] # {} =>
              /\ Best(a, s) \in DOMAIN a.levels[s]
              /\ s = "Buy" => \A px \in DOMAIN a.levels[s] : Best(a, s) >= px
              /\ s = "Sell" => \A px \in DOMAIN a.levels[s] : Best(a, s) <= px
<1> DEFINE D == DOMAIN a.levels[s]
<1>1. D \in SUBSET Int /\ IsFiniteSet(D)
  BY DEF Agree, SideAgrees
<1>2. ASSUME D # {}
      PROVE  /\ \E m \in D : \A x \in D : m >= x
             /\ \E m \in D : \A x \in D : m <= x
  <2> HIDE DEF D
  <2>1. QED
    BY <1>1, <1>2, FiniteExtremes
<1>3. Best(a, s) = IF D = {} THEN NoPrice ELSE IF s = "Buy" THEN Max(D) ELSE Min(D)
  BY DEF Best
<1> HIDE DEF D
<1>4. ASSUME D # {}
      PROVE  /\ Max(D) \in D /\ \A x \in D : Max(D) >= x
             /\ Min(D) \in D /\ \A x \in D : Min(D) <= x
  BY <1>2, <1>4 DEF Max, Min
<1>5. /\ D \subseteq Int
      /\ D = {} => Best(a, s) = NoPrice
      /\ D # {} => /\ Best(a, s) \in D
                   /\ s = "Buy" => \A px \in D : Best(a, s) >= px
                   /\ s = "Sell" => \A px \in D : Best(a, s) <= px
  BY <1>1, <1>3, <1>4
<1>6. QED
  BY <1>5 DEF D

LEMMA CrossedMeansMeeting ==
  ASSUME NEW a, NEW map, Agree(a, map)
  PROVE  CrossedBook(a) <=>
           \E bid \in DOMAIN a.levels["Buy"], ask \in DOMAIN a.levels["Sell"] : bid >= ask
<1> DEFINE B == DOMAIN a.levels["Buy"]
           A == DOMAIN a.levels["Sell"]
<1>1. /\ B \subseteq Int
      /\ B = {} => Best(a, "Buy") = NoPrice
      /\ B # {} => Best(a, "Buy") \in B /\ \A px \in B : Best(a, "Buy") >= px
  BY BestIsALevel DEF Side
<1>2. /\ A \subseteq Int
      /\ A = {} => Best(a, "Sell") = NoPrice
      /\ A # {} => Best(a, "Sell") \in A /\ \A px \in A : Best(a, "Sell") <= px
  BY BestIsALevel DEF Side
<1>3. CrossedBook(a) <=> /\ Best(a, "Buy") # NoPrice /\ Best(a, "Sell") # NoPrice
                         /\ Best(a, "Buy") >= Best(a, "Sell")
  BY DEF CrossedBook
<1> HIDE DEF A, B
<1>4. NoPrice \notin Int
  BY DEF Side
<1>5. CrossedBook(a) => \E bid \in B, ask \in A : bid >= ask
  BY <1>1, <1>2, <1>3
<1>6. ASSUME NEW bid \in B, NEW ask \in A, bid >= ask PROVE CrossedBook(a)
  <2>1. /\ Best(a, "Buy") \in Int /\ Best(a, "Sell") \in Int /\ bid \in Int /\ ask \in Int
        /\ Best(a, "Buy") >= bid /\ Best(a, "Sell") <= ask
    BY <1>1, <1>2
  <2>2. QED
    BY <1>3, <1>4, <1>6, <2>1
<1>7. QED
  BY <1>5, <1>6 DEF A, B

\* Taking away cannot cross a book.
LEMMA WithinStaysUncrossed ==
  ASSUME NEW a, NEW map, Agree(a, map), NEW b, NEW rest, Agree(b, rest),
         Within(b, a), CrossedBook(b)
  PROVE  CrossedBook(a)
<1>1. PICK bid \in DOMAIN b.levels["Buy"], ask \in DOMAIN b.levels["Sell"] : bid >= ask
  BY CrossedMeansMeeting
<1>2. bid \in DOMAIN a.levels["Buy"] /\ ask \in DOMAIN a.levels["Sell"]
  BY DEF Within, Side
<1>3. QED
  BY <1>1, <1>2, CrossedMeansMeeting

-----------------------------------------------------------------------------
AggInv == Agree(agg, orders)

\* A handler took an order in: whatever it withdrew first, the order last
\* entered stands in the book with the timestamp of the event.
Entered ==
  \E a, map, o :
    /\ Agree(a, map) /\ Within(a, agg)
    /\ o \in Order /\ agg' = Enter(a, o, now')
    /\ entrant' \in DOMAIN orders' /\ orders'[entrant'] = o

\* A handler took an order out, or part of one, or changed nothing: what is
\* left stands where it stood.
Lessened ==
  /\ Within(agg', agg) /\ entrant' = entrant
  /\ \A x \in DOMAIN orders' : /\ x \in DOMAIN orders
                               /\ orders'[x].side = orders[x].side
                               /\ orders'[x].price = orders[x].price

LEMMA BookMapHolds == BookInv => BookMap(orders)
BY DEF BookInv, OrdersOK, Ledger, BookMap

LEMMA WithinItself ==
  ASSUME NEW a
  PROVE  Within(a, a)
BY DEF Within

LEMMA RefuseMoves ==
  ASSUME AggInv, NEW c, Refuse(c)
  PROVE  AggInv' /\ Lessened
BY WithinItself DEF Refuse, AggInv, Lessened

LEMMA OnOrderMoves ==
  ASSUME BookInv, AggInv, NEW id \in OrderId, NEW p \in Participant, NEW s \in Side,
         NEW px \in Price \cup {NoPrice}, NEW q \in Quantity, OnOrder(id, p, s, px, q)
  PROVE  AggInv' /\ Entered
<1> DEFINE r == [participant |-> p, side |-> s, price |-> px, original_qty |-> q,
                 remaining |-> q, filled |-> 0, entry_ts |-> now']
<1>1. now' \in Nat /\ px \in Price /\ q \in Nat \ {0} /\ id \notin DOMAIN orders
  BY DEF OnOrder, Arrive, BookInv, Controls
<1>2. r \in Order
  BY <1>1 DEF Order
<1>3. orders' = Bind(orders, id, r) /\ agg' = Enter(agg, r, now') /\ entrant' = id
  BY DEF OnOrder
<1> HIDE DEF r
<1>4. Agree(agg, orders) /\ BookMap(orders)
  BY BookMapHolds DEF AggInv
<1>5. Agree(agg', orders')
  BY <1>1, <1>2, <1>3, <1>4, EnterAgrees
<1>6. id \in DOMAIN orders' /\ orders'[id] = r
  BY <1>3 DEF Bind
<1>7. Entered
  BY <1>2, <1>3, <1>4, <1>6, WithinItself DEF Entered
<1>8. QED
  BY <1>5, <1>7 DEF AggInv

LEMMA LeaveMoves ==
  ASSUME BookInv, AggInv, NEW id \in DOMAIN orders,
         agg' = Leave(agg, orders[id]), orders' = Unbind(orders, id)
  PROVE  /\ AggInv' /\ Within(agg', agg)
         /\ DOMAIN orders' = DOMAIN orders \ {id}
         /\ \A x \in DOMAIN orders' : orders'[x] = orders[x]
<1>1. Agree(agg, orders) /\ BookMap(orders)
  BY BookMapHolds DEF AggInv
<1>2. /\ Agree(Leave(agg, orders[id]), Unbind(orders, id))
      /\ Within(Leave(agg, orders[id]), agg)
  BY <1>1, LeaveAgrees
<1>3. QED
  BY <1>2 DEF AggInv, Unbind

LEMMA WithdrawMoves ==
  ASSUME BookInv, AggInv, NEW id \in DOMAIN orders, Withdraw(id)
  PROVE  AggInv' /\ Lessened
BY LeaveMoves DEF Withdraw, Lessened

LEMMA AmendMoves ==
  ASSUME BookInv, AggInv, Arrive, NEW id \in DOMAIN orders,
         NEW px \in Price \cup {NoPrice}, NEW q \in Quantity, q > 0, Amend(id, px, q)
  PROVE  AggInv' /\ Entered
<1> DEFINE old == orders[id]
           new_px == IF px = NoPrice THEN old.price ELSE px
           new == [old EXCEPT !.price = new_px,
                              !.remaining = q,
                              !.original_qty = Max2(@, q + old.filled),
                              !.entry_ts = IF new_px # old.price THEN now' ELSE @]
           a == Leave(agg, old)
           rest == Unbind(orders, id)
<1>1. old \in Order /\ now' \in Nat /\ q \in Nat \ {0}
  BY DEF BookInv, OrdersOK, Arrive, Controls
<1>2. new_px \in Price /\ Max2(old.original_qty, q + old.filled) \in Nat
  BY <1>1 DEF Order, Max2
<1>3. new \in Order
  BY <1>1, <1>2 DEF Order
<1>4. /\ orders' = [orders EXCEPT ![id] = new] /\ entrant' = id
      /\ agg' = Enter(a, new, now')
  BY DEF Amend
<1> HIDE DEF new
<1>5. Agree(agg, orders) /\ BookMap(orders)
  BY BookMapHolds DEF AggInv
<1>6. Agree(a, rest) /\ Within(a, agg)
  BY <1>5, LeaveAgrees
<1>7. orders' = Bind(rest, id, new) /\ BookMap(rest) /\ id \notin DOMAIN rest
  BY <1>4, <1>5, ChangeIsLeaveAndEnter
<1> HIDE DEF a, rest
<1>8. Agree(agg', orders')
  <2>1. Agree(Enter(a, new, now'), Bind(rest, id, new))
    BY ONLY <1>1, <1>3, <1>6, <1>7, EnterAgrees
  <2>2. QED
    BY <1>4, <1>7, <2>1
<1>9. id \in DOMAIN orders' /\ orders'[id] = new
  BY <1>4
<1>10. Entered
  BY <1>3, <1>4, <1>6, <1>9 DEF Entered
<1>11. QED
  BY <1>8, <1>10 DEF AggInv

LEMMA FillMoves ==
  ASSUME BookInv, AggInv, NEW id \in DOMAIN orders, NEW q \in Quantity, Fill(id, q)
  PROVE  AggInv' /\ Lessened
<1> DEFINE r == orders[id]
           fill == Min2(q, r.remaining)
           new == [r EXCEPT !.remaining = @ - fill, !.filled = @ + fill]
<1>1. r \in Order /\ q \in Int
  BY DEF BookInv, OrdersOK
<1>2. fill \in Int /\ fill <= r.remaining
  BY <1>1 DEF Order, Min2
<1>3. CASE fill < r.remaining
  <2>1. /\ r.remaining \in Nat /\ r.filled \in Int /\ r.original_qty \in Nat
        /\ r.participant \in Participant /\ r.side \in Side /\ r.price \in Price
        /\ r.entry_ts \in Nat
    BY <1>1 DEF Order
  <2>2. /\ new \in Order
        /\ new.side = r.side /\ new.price = r.price /\ new.participant = r.participant
        /\ new.remaining = r.remaining - fill
    <3> HIDE DEF r, fill
    <3>1. r.remaining - fill \in Nat \ {0} /\ r.filled + fill \in Int
      BY <1>2, <1>3, <2>1
    <3>2. QED
      BY <1>1, <2>1, <3>1 DEF Order
  <2>3. /\ orders' = [orders EXCEPT ![id] = new] /\ entrant' = entrant
        /\ agg' = ReduceLevel(Footprint(agg, r.participant, r.side, -fill, 0),
                              r.side, r.price, fill)
    BY <1>3 DEF Fill
  <2>4. Agree(agg, orders) /\ BookMap(orders)
    BY BookMapHolds DEF AggInv
  <2> HIDE DEF new, fill
  <2>5. Agree(agg', orders') /\ Within(agg', agg)
    BY <1>2, <1>3, <2>2, <2>3, <2>4, ReduceAgrees
  <2>6. \A x \in DOMAIN orders' : /\ x \in DOMAIN orders
                                 /\ orders'[x].side = orders[x].side
                                 /\ orders'[x].price = orders[x].price
    <3> HIDE DEF r
    <3>1. DOMAIN orders' = DOMAIN orders /\ orders'[id] = new
          /\ \A x \in DOMAIN orders : x # id => orders'[x] = orders[x]
      BY <2>3
    <3>2. new.side = orders[id].side /\ new.price = orders[id].price
      BY <2>2 DEF r
    <3>3. QED
      BY <3>1, <3>2
  <2>7. QED
    BY <2>3, <2>5, <2>6 DEF AggInv, Lessened
<1>4. CASE ~(fill < r.remaining)
  <2>1. agg' = Leave(agg, r) /\ orders' = Unbind(orders, id) /\ entrant' = entrant
    BY <1>4 DEF Fill
  <2>2. QED
    BY <2>1, LeaveMoves DEF Lessened
<1>5. QED
  BY <1>3, <1>4

\* The handlers together.
Handled ==
  \/ \E id \in OrderId, px \in Price \cup {NoPrice}, q \in Quantity :
       \/ OnOrderRefused(id, q, px)
       \/ \E p \in Participant, s \in Side : OnOrder(id, p, s, px, q)
       \/ OnModify(id, px, q)
  \/ \E id \in OrderId : OnCancel(id)
  \/ \E id \in OrderId, q \in Quantity : OnTrade(id, q)

LEMMA HandlerMoves ==
  ASSUME BookInv, AggInv, Handled
  PROVE  /\ AggInv' /\ Arrive /\ ThenRepair
         /\ Lessened \/ Entered
<1>1. ASSUME NEW id \in OrderId, NEW px \in Price \cup {NoPrice}, NEW q \in Quantity,
             OnOrderRefused(id, q, px)
      PROVE  AggInv' /\ Arrive /\ ThenRepair /\ Lessened
  BY <1>1, RefuseMoves DEF OnOrderRefused, Refuse
<1>2. ASSUME NEW id \in OrderId, NEW px \in Price \cup {NoPrice}, NEW q \in Quantity,
             NEW p \in Participant, NEW s \in Side, OnOrder(id, p, s, px, q)
      PROVE  AggInv' /\ Arrive /\ ThenRepair /\ Entered
  BY <1>2, OnOrderMoves DEF OnOrder
<1>3. ASSUME NEW id \in OrderId, NEW px \in Price \cup {NoPrice}, NEW q \in Quantity,
             OnModify(id, px, q)
      PROVE  AggInv' /\ Arrive /\ ThenRepair /\ (Lessened \/ Entered)
  <2>1. CASE id \notin DOMAIN orders /\ Refuse(Count("unknown_modify"))
    BY <1>3, <2>1, RefuseMoves DEF OnModify, Refuse
  <2>2. CASE id \in DOMAIN orders /\ q <= 0 /\ Withdraw(id)
    BY <1>3, <2>2, WithdrawMoves DEF OnModify, Withdraw
  <2>3. CASE id \in DOMAIN orders /\ q > 0 /\ Amend(id, px, q)
    BY <1>3, <2>3, AmendMoves DEF OnModify, Amend
  <2>4. QED
    BY <1>3, <2>1, <2>2, <2>3 DEF OnModify
<1>4. ASSUME NEW id \in OrderId, OnCancel(id)
      PROVE  AggInv' /\ Arrive /\ ThenRepair /\ Lessened
  BY <1>4, RefuseMoves, WithdrawMoves DEF OnCancel, Refuse, Withdraw
<1>5. ASSUME NEW id \in OrderId, NEW q \in Quantity, OnTrade(id, q)
      PROVE  AggInv' /\ Arrive /\ ThenRepair /\ Lessened
  BY <1>5, RefuseMoves, FillMoves DEF OnTrade, Refuse, Fill
<1>6. QED
  BY <1>1, <1>2, <1>3, <1>4, <1>5 DEF Handled

(***************************************************************************)
(* The repair.  A best level always has orders behind it, so that the      *)
(* branch of repair_cross that drops an empty level is never taken.        *)
(***************************************************************************)
LEMMA AtLevelIsClass ==
  ASSUME BookInv, NEW s, NEW px
  PROVE  AtLevel(s, px) = Of(orders, LevelOrders(s, px))
BY DEF AtLevel, Of, LevelOrders, BookInv, OrdersOK

LEMMA BestHasOrders ==
  ASSUME BookInv, AggInv, Crossed, NEW s \in Side
  PROVE  /\ Best(agg, s) \in DOMAIN agg.levels[s]
         /\ Best(agg, s) \in Price
         /\ AtLevel(s, Best(agg, s)) # {}
<1> DEFINE px == Best(agg, s)
<1>1. Agree(agg, orders) /\ BookMap(orders)
  BY BookMapHolds DEF AggInv
<1>2. DOMAIN agg.levels[s] # {}
  <2>1. Best(agg, s) # NoPrice
    BY DEF Crossed, CrossedBook, Side
  <2>2. QED
    BY <1>1, <2>1, BestIsALevel
<1>3. px \in DOMAIN agg.levels[s]
  BY <1>1, <1>2, BestIsALevel
<1>4. px \in Price
  BY <1>1, <1>3 DEF Agree, SideAgrees
<1>5. LevelAgrees(agg, orders, s, px)
  BY <1>1, <1>4 DEF Agree
<1>6. Of(orders, LevelOrders(s, px)) # {}
  BY <1>1, <1>3, <1>5, OfFinite DEF LevelAgrees, Number
<1>7. QED
  BY <1>3, <1>4, <1>6, AtLevelIsClass

LEMMA ChooseMoves ==
  ASSUME BookInv, AggInv, ChooseLevel
  PROVE  /\ AggInv' /\ UNCHANGED <<agg, orders, now, entrant>>
         /\ ids' = AtLevel(StaleSide, Best(agg, StaleSide)) /\ ids' # {}
         /\ stage' = "erase"
<1>1. StaleSide \in Side
  BY DEF StaleSide, Side
<1>2. ids' = AtLevel(StaleSide, Best(agg, StaleSide)) /\ Crossed
  BY DEF ChooseLevel
<1>3. ids' # {}
  BY <1>1, <1>2, BestHasOrders
<1>4. agg' = agg /\ orders' = orders /\ now' = now /\ entrant' = entrant /\ stage' = "erase"
  BY <1>3 DEF ChooseLevel
<1>5. QED
  BY <1>2, <1>3, <1>4 DEF AggInv

LEMMA EraseMoves ==
  ASSUME BookInv, AggInv, EraseOrder
  PROVE  /\ AggInv' /\ Within(agg', agg) /\ now' = now /\ entrant' = entrant
         /\ \E id \in ids : /\ DOMAIN orders' = DOMAIN orders \ {id} /\ ids' = ids \ {id}
                            /\ \A x \in DOMAIN orders' : orders'[x] = orders[x]
<1>1. PICK id \in ids : /\ agg' = Leave(agg, orders[id])
                        /\ orders' = Unbind(orders, id) /\ ids' = ids \ {id}
  BY DEF EraseOrder
<1>2. id \in DOMAIN orders
  BY DEF BookInv, Controls
<1>3. QED
  BY <1>1, <1>2, LeaveMoves DEF EraseOrder

LEMMA BookCases ==
  ASSUME [BookNext]_bookVars
  PROVE  Handled \/ ChooseLevel \/ EraseOrder \/ RepairDone \/ UNCHANGED bookVars
BY DEF BookNext, Handled, Repair

LEMMA AggKept ==
  ASSUME BookInv, AggInv, [BookNext]_bookVars
  PROVE  AggInv'
<1>1. ASSUME RepairDone \/ UNCHANGED bookVars PROVE AggInv'
  BY <1>1 DEF RepairDone, bookVars, AggInv
<1>2. QED
  BY <1>1, BookCases, HandlerMoves, ChooseMoves, EraseMoves

LEMMA AggInitially == BookInit => AggInv
<1> SUFFICES ASSUME BookInit PROVE Agree(agg, orders)
  BY DEF AggInv
<1>1. DOMAIN orders = {}
  BY DEF BookInit
<1>2. /\ Shape(agg)
      /\ \A s \in Side : /\ DOMAIN agg.levels[s] = {}
                         /\ agg.side_qty[s] = 0 /\ agg.side_orders[s] = 0
      /\ \A p \in Participant, s \in Side : agg.footprint[p][s] = [qty |-> 0, orders |-> 0]
  BY DEF BookInit, Shape
<1>3. \A K : Quantities(orders, K) = 0 /\ Number(orders, K) = 0
  <2>1. \A K : Of(orders, K) = {}
    BY <1>1 DEF Of
  <2>2. LotsOf(orders, {}) = 0 /\ Cardinality({}) = 0
    BY NoOrdersNoLots, FS_EmptySet
  <2>3. QED
    BY <2>1, <2>2 DEF Quantities, Number
<1>4. ASSUME NEW s \in Side PROVE SideAgrees(agg, orders, s)
  BY <1>2, <1>3, FS_EmptySet DEF SideAgrees
<1>5. ASSUME NEW s \in Side, NEW px \in Price PROVE LevelAgrees(agg, orders, s, px)
  <2>1. px \notin DOMAIN agg.levels[s] /\ LevelAt(agg, s, px) = NoLevel
    BY <1>2 DEF LevelAt
  <2>2. NoLevel \in Level /\ NoLevel.quantity = 0 /\ NoLevel.orders = 0
    BY DEF NoLevel, Level
  <2>3. QED
    BY <1>3, <2>1, <2>2 DEF LevelAgrees
<1>6. ASSUME NEW p \in Participant, NEW s \in Side PROVE OwnAgrees(agg, orders, p, s)
  BY <1>2, <1>3 DEF OwnAgrees
<1>7. QED
  BY <1>2, <1>4, <1>5, <1>6 DEF Agree

LEMMA AggCorrect == BookSpec => []AggInv
<1>1. BookInv /\ AggInv /\ [BookNext]_bookVars => AggInv'
  BY AggKept
<1>2. QED
  BY <1>1, AggInitially, BookInvCorrect, PTL DEF BookSpec

(***************************************************************************)
(* The figures kept beside the orders are what the orders add up to: the   *)
(* levels, the totals of a side and every participant's footprint, after   *)
(* any sequence of messages and at every step of a repair                  *)
(* (book_state.cpp:7-39).                                                  *)
(***************************************************************************)
THEOREM AggregatesCorrect == BookSpec => []AggregatesAgree
<1>1. ASSUME BookInv, AggInv PROVE AggregatesAgree
  <2>1. Agree(agg, orders) /\ BookMap(orders)
    BY <1>1, BookMapHolds DEF AggInv
  <2>2. ASSUME NEW s \in Side
        PROVE  /\ DOMAIN agg.levels[s] = {orders[id].price : id \in OnSide(s)}
               /\ \A px \in DOMAIN agg.levels[s] :
                    /\ agg.levels[s][px].quantity = Lots(AtLevel(s, px))
                    /\ agg.levels[s][px].orders = Cardinality(AtLevel(s, px))
    <3>1. DOMAIN agg.levels[s] \subseteq Price
      BY <2>1 DEF Agree, SideAgrees
    <3>2. ASSUME NEW px \in Price
          PROVE  /\ px \in DOMAIN agg.levels[s] <=> AtLevel(s, px) # {}
                 /\ px \in DOMAIN agg.levels[s] =>
                      /\ agg.levels[s][px].quantity = Lots(AtLevel(s, px))
                      /\ agg.levels[s][px].orders = Cardinality(AtLevel(s, px))
      <4>1. LevelAgrees(agg, orders, s, px)
        BY <2>1 DEF Agree
      <4>2. Of(orders, LevelOrders(s, px)) = AtLevel(s, px)
        BY <1>1, AtLevelIsClass
      <4>3. Number(orders, LevelOrders(s, px)) # 0 <=> AtLevel(s, px) # {}
        BY <2>1, <4>2, OfFinite DEF Number
      <4>4. QED
        BY <4>1, <4>2, <4>3 DEF LevelAgrees, LevelAt, Quantities, Number, Lots
    <3>3. \A id \in OnSide(s) : orders[id].price \in Price
      BY <1>1 DEF OnSide, BookInv, OrdersOK, Order
    <3>4. ASSUME NEW px PROVE px \in DOMAIN agg.levels[s] <=> \E id \in OnSide(s) : px = orders[id].price
      BY ZenonT(40), <3>1, <3>2, <3>3 DEF AtLevel, OnSide
    <3>5. QED
      BY <3>1, <3>2, <3>4
  <2>3. ASSUME NEW s \in Side
        PROVE  /\ agg.side_qty[s] = Lots(OnSide(s))
               /\ agg.side_orders[s] = Cardinality(OnSide(s))
    <3>1. Of(orders, SideOrders(s)) = OnSide(s)
      BY <1>1 DEF Of, SideOrders, OnSide, BookInv, OrdersOK
    <3>2. QED
      BY <2>1, <3>1 DEF Agree, SideAgrees, Quantities, Number, Lots
  <2>4. ASSUME NEW s \in Side, NEW p \in Participant
        PROVE  agg.footprint[p][s] = [qty |-> Lots(OwnedBy(p, s)),
                                      orders |-> Cardinality(OwnedBy(p, s))]
    <3>1. Of(orders, OwnOrders(p, s)) = OwnedBy(p, s)
      BY <1>1 DEF Of, OwnOrders, OwnedBy, OnSide, BookInv, OrdersOK
    <3>2. QED
      BY <2>1, <3>1 DEF Agree, OwnAgrees, Quantities, Number, Lots
  <2>5. QED
    BY <2>2, <2>3, <2>4 DEF AggregatesAgree
<1>2. QED
  BY <1>1, AggCorrect, BookInvCorrect, PTL

-----------------------------------------------------------------------------
(***************************************************************************)
(* How long a repair takes: every round discards a level with at least one *)
(* order behind it, so the rounds and the orders left never exceed the     *)
(* cap, and only a repair that ran out of rounds leaves the book crossed.  *)
(***************************************************************************)
RoundsInv ==
  /\ round + Cardinality(DOMAIN orders \ ids) <= MaxOrders
  /\ stage = "idle" /\ Crossed => round = RepairRounds

LEMMA RoundsKept ==
  ASSUME BookInv, BookInv', AggInv, RoundsInv, [BookNext]_bookVars
  PROVE  RoundsInv'
<1>1. ASSUME Handled PROVE RoundsInv'
  <2>1. Arrive /\ ThenRepair
    BY <1>1, HandlerMoves
  <2>2. ids' = {} /\ round' = 0
    BY <2>1 DEF Arrive, ThenRepair, BookInv, Controls
  <2>3. DOMAIN orders' \ ids' = DOMAIN orders' /\ Cardinality(DOMAIN orders') <= MaxOrders
        /\ Cardinality(DOMAIN orders') \in Nat
    BY <2>2, FS_CardinalityType DEF BookInv, Ledger, CapRespected
  <2>4. stage' = "idle" => ~Crossed'
    BY <2>1 DEF ThenRepair, Crossed
  <2>5. QED
    BY <2>2, <2>3, <2>4 DEF RoundsInv
<1>2. ASSUME ChooseLevel PROVE RoundsInv'
  <2>1. /\ orders' = orders /\ ids' # {} /\ ids' \subseteq DOMAIN orders
        /\ stage' = "erase" /\ round' = round + 1 /\ ids = {}
    BY <1>2, ChooseMoves DEF ChooseLevel, BookInv, Controls
  <2>2. PICK id \in DOMAIN orders : id \in ids'
    BY <2>1
  <2>3. /\ IsFiniteSet(DOMAIN orders) /\ IsFiniteSet(DOMAIN orders \ {id})
        /\ Cardinality(DOMAIN orders \ {id}) = Cardinality(DOMAIN orders) - 1
        /\ Cardinality(DOMAIN orders) \in Nat
    BY <2>2, FS_RemoveElement, FS_CardinalityType DEF BookInv, Ledger
  <2>4. DOMAIN orders \ ids' \in SUBSET (DOMAIN orders \ {id})
    BY <2>2
  <2>5. /\ Cardinality(DOMAIN orders \ ids') <= Cardinality(DOMAIN orders \ {id})
        /\ Cardinality(DOMAIN orders \ ids') \in Nat
    BY <2>3, <2>4, FS_Subset, FS_CardinalityType
  <2>6. round + Cardinality(DOMAIN orders) <= MaxOrders /\ round \in Nat
    BY <2>1 DEF RoundsInv, BookInv, Controls
  <2>7. QED
    BY <2>1, <2>3, <2>5, <2>6 DEF RoundsInv
<1>3. ASSUME EraseOrder PROVE RoundsInv'
  <2>1. PICK id \in ids : DOMAIN orders' = DOMAIN orders \ {id} /\ ids' = ids \ {id}
    BY <1>3, EraseMoves
  <2>2. DOMAIN orders' \ ids' = DOMAIN orders \ ids /\ round' = round /\ stage' # "idle"
    BY <1>3, <2>1 DEF EraseOrder
  <2>3. QED
    BY <2>2 DEF RoundsInv
<1>4. ASSUME RepairDone PROVE RoundsInv'
  BY <1>4 DEF RepairDone, RoundsInv, Crossed, BookInv, Controls
<1>5. CASE UNCHANGED bookVars
  BY <1>5 DEF bookVars, RoundsInv, Crossed
<1>6. QED
  BY <1>1, <1>2, <1>3, <1>4, <1>5, BookCases

LEMMA RoundsCorrect == BookSpec => []RoundsInv
<1>1. BookInit => RoundsInv
  <2> SUFFICES ASSUME BookInit PROVE RoundsInv
    OBVIOUS
  <2>1. DOMAIN orders \ ids = {} /\ round = 0 /\ DOMAIN agg.levels["Buy"] = {}
    BY DEF BookInit, Side
  <2>2. ~Crossed
    BY <2>1 DEF Crossed, CrossedBook, Best
  <2>3. QED
    BY <2>1, <2>2, FS_EmptySet DEF RoundsInv
<1>2. BookInv /\ BookInv' /\ AggInv /\ RoundsInv /\ [BookNext]_bookVars => RoundsInv'
  BY RoundsKept
<1>3. QED
  BY <1>1, <1>2, BookInvCorrect, AggCorrect, PTL DEF BookSpec

\* A crossed book has an order on either side.
LEMMA CrossedHoldsTwo ==
  ASSUME BookInv, AggInv, Crossed
  PROVE  Cardinality(DOMAIN orders) \in Nat /\ Cardinality(DOMAIN orders) >= 2
<1>1. PICK x \in AtLevel("Buy", Best(agg, "Buy")) : TRUE
  BY BestHasOrders DEF Side
<1>2. PICK y \in AtLevel("Sell", Best(agg, "Sell")) : TRUE
  BY BestHasOrders DEF Side
<1>3. x \in DOMAIN orders /\ y \in DOMAIN orders \ {x}
  BY <1>1, <1>2 DEF AtLevel
<1>4. IsFiniteSet(DOMAIN orders)
  BY DEF BookInv, Ledger
<1>5. /\ IsFiniteSet(DOMAIN orders \ {x})
      /\ Cardinality(DOMAIN orders \ {x}) = Cardinality(DOMAIN orders) - 1
      /\ Cardinality(DOMAIN orders) \in Nat /\ Cardinality(DOMAIN orders \ {x}) \in Nat
  BY <1>3, <1>4, FS_RemoveElement, FS_CardinalityType
<1>6. Cardinality(DOMAIN orders \ {x}) # 0
  BY <1>3, <1>5, FS_EmptySet
<1>7. QED
  BY <1>5, <1>6

(***************************************************************************)
(* A book is handed on crossed only when the repair used up all its rounds *)
(* (64 in the code), which takes a book with two orders more than that     *)
(* (book_state.cpp:206-209).                                               *)
(***************************************************************************)
THEOREM CrossedOnlyWhenExhaustedCorrect == BookSpec => []CrossedOnlyWhenExhausted
<1>1. BookInv /\ AggInv /\ RoundsInv => CrossedOnlyWhenExhausted
  <2> SUFFICES ASSUME BookInv, AggInv, RoundsInv, stage = "idle", Crossed
               PROVE  round = RepairRounds /\ RepairRounds + 2 <= MaxOrders
    BY DEF CrossedOnlyWhenExhausted
  <2>1. DOMAIN orders \ ids = DOMAIN orders
    BY DEF BookInv, Controls
  <2>2. QED
    BY <2>1, CrossedHoldsTwo DEF RoundsInv
<1>2. QED
  BY <1>1, BookInvCorrect, AggCorrect, RoundsCorrect, PTL

-----------------------------------------------------------------------------
(***************************************************************************)
(* Freshness: no level was refreshed in the future, and none after the     *)
(* level of the order last entered, while that order rests.  The order is  *)
(* the one a repair is about, also when a repair that gave up is resumed   *)
(* after a later event.                                                    *)
(***************************************************************************)
LevelOf(id) == agg.levels[orders[id].side][orders[id].price]

FreshInv ==
  /\ Stamps(agg, now)
  /\ entrant \in DOMAIN orders => Stamps(agg, LevelOf(entrant).newest_ts)

\* The level of a resting order is one of its side's.
LEMMA OrderHasLevel ==
  ASSUME NEW a, NEW map, Agree(a, map), BookMap(map), NEW id \in DOMAIN map
  PROVE  /\ map[id].side \in Side
         /\ map[id].price \in DOMAIN a.levels[map[id].side]
<1> DEFINE s == map[id].side
           px == map[id].price
<1>1. map[id] \in Order /\ s \in Side /\ px \in Price
  BY DEF BookMap, Order
<1>2. LevelAgrees(a, map, s, px)
  BY <1>1 DEF Agree
<1>3. id \in Of(map, LevelOrders(s, px))
  BY <1>1 DEF Of, LevelOrders
<1>4. Number(map, LevelOrders(s, px)) # 0
  BY <1>3, OfFinite DEF Number
<1>5. QED
  BY <1>1, <1>2, <1>4 DEF LevelAgrees

LEMMA WithinStamps ==
  ASSUME NEW a, NEW map, Agree(a, map), NEW b, Within(b, a),
         NEW t \in Nat, NEW u \in Nat, t <= u, Stamps(a, t)
  PROVE  Stamps(b, u)
<1>1. ASSUME NEW s \in Side, NEW px \in DOMAIN b.levels[s]
      PROVE  b.levels[s][px].newest_ts <= u
  <2>1. px \in DOMAIN a.levels[s] /\ b.levels[s][px].newest_ts = a.levels[s][px].newest_ts
    BY DEF Within
  <2>2. px \in Price
    BY <2>1 DEF Agree, SideAgrees
  <2>3. a.levels[s][px] \in Level
    BY <2>1, <2>2 DEF Agree, LevelAgrees, LevelAt
  <2>4. a.levels[s][px].newest_ts \in Nat /\ a.levels[s][px].newest_ts <= t
    BY <2>1, <2>3 DEF Level, Stamps
  <2>5. QED
    BY <2>1, <2>4
<1>2. QED
  BY <1>1 DEF Stamps

\* What is left of the book stands under the level of the order last entered.
LEMMA LessenedStaysFresh ==
  ASSUME BookInv, BookInv', AggInv, AggInv', FreshInv, Lessened, now <= now'
  PROVE  FreshInv'
<1>1. /\ Agree(agg, orders) /\ Agree(agg', orders')
      /\ BookMap(orders) /\ BookMap(orders')
      /\ Within(agg', agg) /\ now \in Nat /\ now' \in Nat
  <2>1. BookMap(orders) /\ BookMap(orders')
    BY DEF BookInv, OrdersOK, Ledger, BookMap
  <2>2. QED
    BY <2>1 DEF AggInv, Lessened, BookInv, Controls
<1>2. Stamps(agg', now')
  BY <1>1, WithinStamps DEF FreshInv
<1>3. ASSUME entrant' \in DOMAIN orders' PROVE Stamps(agg', LevelOf(entrant)'.newest_ts)
  <2> DEFINE s == orders[entrant].side
             px == orders[entrant].price
  <2>1. /\ entrant' = entrant /\ entrant \in DOMAIN orders
        /\ orders'[entrant].side = s /\ orders'[entrant].price = px
    BY <1>3 DEF Lessened
  <2>2. s \in Side /\ px \in DOMAIN agg.levels[s] /\ px \in Price
    BY <1>1, <2>1, OrderHasLevel DEF Agree, SideAgrees
  <2>3. px \in DOMAIN agg'.levels[s]
    <3>1. orders'[entrant].price \in DOMAIN agg'.levels[orders'[entrant].side]
      BY <1>1, <1>3, <2>1, OrderHasLevel
    <3>2. QED
      BY <2>1, <3>1
  <2>4. LevelOf(entrant)' = agg'.levels[s][px]
    BY <2>1 DEF LevelOf
  <2>5. agg'.levels[s][px].newest_ts = agg.levels[s][px].newest_ts
    BY <1>1, <2>2, <2>3 DEF Within
  <2>6. agg.levels[s][px].newest_ts \in Nat
    BY <1>1, <2>2 DEF Agree, LevelAgrees, LevelAt, Level
  <2>7. Stamps(agg, agg.levels[s][px].newest_ts)
    BY <2>1 DEF FreshInv, LevelOf
  <2> HIDE DEF s, px
  <2>8. Stamps(agg', agg.levels[s][px].newest_ts)
    BY <1>1, <2>6, <2>7, WithinStamps
  <2>9. QED
    BY <2>4, <2>5, <2>8
<1>4. QED
  BY <1>2, <1>3 DEF FreshInv

LEMMA FreshKept ==
  ASSUME BookInv, BookInv', AggInv, FreshInv, [BookNext]_bookVars
  PROVE  FreshInv'
<1>0. Agree(agg, orders) /\ now \in Nat /\ now' \in Nat
  BY DEF AggInv, BookInv, Controls
<1>1. ASSUME Handled PROVE FreshInv'
  <2>1. /\ AggInv' /\ Arrive /\ ThenRepair
        /\ Lessened \/ Entered
    BY <1>1, HandlerMoves
  <2>2. now <= now'
    BY <1>0, <2>1 DEF Arrive
  <2>3. CASE Lessened
    BY <2>1, <2>2, <2>3, LessenedStaysFresh
  <2>4. CASE Entered
    <3>1. PICK a, map, o :
            /\ Agree(a, map) /\ Within(a, agg)
            /\ o \in Order /\ agg' = Enter(a, o, now')
            /\ entrant' \in DOMAIN orders' /\ orders'[entrant'] = o
      BY <2>4 DEF Entered
    <3>2. Stamps(a, now')
      BY <1>0, <2>2, <3>1, WithinStamps DEF FreshInv
    <3>3. /\ Stamps(Enter(a, o, now'), now')
          /\ Enter(a, o, now').levels[o.side][o.price].newest_ts = now'
      BY <1>0, <3>1, <3>2, EnterStamps
    <3>4. QED
      BY <3>1, <3>3 DEF FreshInv, LevelOf
  <2>5. QED
    BY <2>1, <2>3, <2>4
<1>2. ASSUME ChooseLevel PROVE FreshInv'
  BY <1>2, ChooseMoves DEF ChooseLevel, FreshInv, LevelOf
<1>3. ASSUME EraseOrder PROVE FreshInv'
  <2>1. /\ AggInv' /\ Within(agg', agg) /\ now' = now /\ entrant' = entrant
    BY <1>3, EraseMoves DEF EraseOrder
  <2>2. PICK id \in ids : /\ DOMAIN orders' = DOMAIN orders \ {id}
                          /\ \A x \in DOMAIN orders' : orders'[x] = orders[x]
    BY <1>3, EraseMoves
  <2>3. Lessened
    BY <2>1, <2>2 DEF Lessened
  <2>4. QED
    BY <1>0, <2>1, <2>3, LessenedStaysFresh
<1>4. ASSUME RepairDone \/ UNCHANGED bookVars PROVE FreshInv'
  BY <1>4 DEF RepairDone, bookVars, FreshInv, LevelOf
<1>5. QED
  BY <1>1, <1>2, <1>3, <1>4, BookCases

LEMMA FreshCorrect == BookSpec => []FreshInv
<1>1. BookInit => FreshInv
  BY DEF BookInit, FreshInv, Stamps
<1>2. BookInv /\ BookInv' /\ AggInv /\ FreshInv /\ [BookNext]_bookVars => FreshInv'
  BY FreshKept
<1>3. QED
  BY <1>1, <1>2, BookInvCorrect, AggCorrect, PTL DEF BookSpec

(***************************************************************************)
(* The repair discards the side that was refreshed longer ago: the order   *)
(* whose arrival crossed the book goes only when the level it crossed is   *)
(* as fresh as its own (book_state.hpp:102-104), whatever the cap on the   *)
(* orders, and also in a repair that resumes one which gave up.            *)
(***************************************************************************)
THEOREM FreshOrderSurvivesCorrect == BookSpec => FreshOrderSurvives
<1> DEFINE Stamp(s) == agg.levels[s][Best(agg, s)].newest_ts
<1>1. ASSUME BookInv, AggInv, FreshInv, [BookNext]_bookVars,
             stage = "repair", entrant \in ids'
      PROVE  Stamp("Buy") = Stamp("Sell")
  <2>1. ChooseLevel
    <3>1. ids = {}
      BY <1>1 DEF BookInv, Controls
    <3>2. ~Handled
      BY <1>1, HandlerMoves DEF Arrive
    <3>3. ids' # ids
      BY <1>1, <3>1
    <3>4. QED
      BY <1>1, <3>2, <3>3, BookCases DEF EraseOrder, RepairDone, bookVars
  <2>2. /\ ids' = AtLevel(StaleSide, Best(agg, StaleSide)) /\ Crossed
        /\ StaleSide \in Side
    BY <1>1, <2>1, ChooseMoves DEF ChooseLevel, StaleSide, Side
  <2>3. /\ entrant \in DOMAIN orders
        /\ orders[entrant].side = StaleSide
        /\ orders[entrant].price = Best(agg, StaleSide)
    BY <1>1, <2>2 DEF AtLevel
  <2>4. Stamps(agg, Stamp(StaleSide))
    BY <1>1, <2>3 DEF FreshInv, LevelOf
  <2>5. ASSUME NEW t \in Side
        PROVE  Stamp(t) \in Nat /\ Stamp(t) <= Stamp(StaleSide)
    <3>1. Best(agg, t) \in DOMAIN agg.levels[t] /\ Best(agg, t) \in Price
      BY <1>1, <2>2, BestHasOrders
    <3>2. agg.levels[t][Best(agg, t)] \in Level
      BY <1>1, <3>1 DEF AggInv, Agree, LevelAgrees, LevelAt
    <3>3. QED
      BY <2>4, <3>1, <3>2 DEF Level, Stamps
  <2>6. StaleSide = IF Stamp("Buy") <= Stamp("Sell") THEN "Buy" ELSE "Sell"
    BY DEF StaleSide
  <2> HIDE DEF Stamp
  <2>7. QED
    BY <2>5, <2>6 DEF Side
<1>2. /\ BookInv /\ AggInv /\ FreshInv /\ [BookNext]_bookVars
      => [stage = "repair" /\ entrant \in ids' => Stamp("Buy") = Stamp("Sell")]_bookVars
  BY <1>1
<1>3. BookSpec => []FreshInv
  BY FreshCorrect
<1>4. QED
  BY <1>2, <1>3, BookInvCorrect, AggCorrect, PTL DEF BookSpec, FreshOrderSurvives

-----------------------------------------------------------------------------
(***************************************************************************)
(* The book is a function of what it was fed.  A handler is deterministic, *)
(* and so is a round of the repair taken as a whole: in whatever order the *)
(* ids of a level are erased, the figures left are those of the orders     *)
(* left, and no level left is refreshed on the way.                        *)
(***************************************************************************)
IsMap(f) == f = [x \in DOMAIN f |-> f[x]]

\* The figures are maps, all the way down.
Formed(a) ==
  /\ Shape(a)
  /\ IsMap(a) /\ IsMap(a.levels) /\ IsMap(a.side_qty) /\ IsMap(a.side_orders)
  /\ IsMap(a.footprint)
  /\ \A s \in Side : IsMap(a.levels[s])
  /\ \A p \in Participant : IsMap(a.footprint[p])

FormInv == IsMap(orders) /\ Formed(agg)

LEMMA BindIsMap ==
  /\ \A f, k, v : IsMap(Bind(f, k, v))
  /\ \A f, k : IsMap(Unbind(f, k))
BY DEF IsMap, Bind, Unbind

LEMMA SameMaps ==
  ASSUME NEW f, NEW g, IsMap(f), IsMap(g), DOMAIN f = DOMAIN g,
         \A x \in DOMAIN f : f[x] = g[x]
  PROVE  f = g
BY DEF IsMap

LEMMA ExceptIsMap ==
  /\ \A f, k, v : IsMap([f EXCEPT ![k] = v])
  /\ \A a, x, y, z : IsMap([a EXCEPT !.levels = x, !.side_qty = y, !.side_orders = z])
BY DEF IsMap

\* An update of the levels, quantities and counts of one side.
LEMMA SideForms ==
  ASSUME NEW a, Formed(a), NEW s \in Side, NEW m, IsMap(m), NEW y, NEW z
  PROVE  Formed([a EXCEPT !.levels[s] = m, !.side_qty[s] = y, !.side_orders[s] = z])
<1> DEFINE b == [a EXCEPT !.levels[s] = m, !.side_qty[s] = y, !.side_orders[s] = z]
           lv == [a.levels EXCEPT ![s] = m]
           qt == [a.side_qty EXCEPT ![s] = y]
           no == [a.side_orders EXCEPT ![s] = z]
<1>1. b = [a EXCEPT !.levels = lv, !.side_qty = qt, !.side_orders = no]
  OBVIOUS
<1>2. IsMap(b) /\ IsMap(lv) /\ IsMap(qt) /\ IsMap(no)
  <2>1. IsMap(b)
    BY <1>1, ExceptIsMap
  <2>2. QED
    BY <2>1, ExceptIsMap
<1>3. \A t \in Side : IsMap(lv[t])
  BY DEF Formed
<1>4. /\ b.levels = lv /\ b.side_qty = qt /\ b.side_orders = no
      /\ b.footprint = a.footprint
      /\ DOMAIN b = DOMAIN a /\ DOMAIN lv = Side /\ DOMAIN qt = Side /\ DOMAIN no = Side
  BY DEF Formed, Shape
<1> HIDE DEF b, lv, qt, no
<1>5. Shape(b)
  BY <1>4 DEF Formed, Shape
<1>6. QED
  BY <1>2, <1>3, <1>4, <1>5 DEF Formed, b

LEMMA AddLevelForms ==
  ASSUME NEW a, Formed(a), NEW s \in Side, NEW px, NEW q, NEW ts
  PROVE  Formed(AddLevel(a, s, px, q, ts))
<1> DEFINE old == LevelAt(a, s, px)
           new == [quantity |-> old.quantity + q, orders |-> old.orders + 1,
                   newest_ts |-> Max2(old.newest_ts, ts)]
           m == Bind(a.levels[s], px, new)
           y == a.side_qty[s] + q
           z == a.side_orders[s] + 1
<1>1. AddLevel(a, s, px, q, ts) =
        [a EXCEPT !.levels[s] = m, !.side_qty[s] = y, !.side_orders[s] = z]
  BY DEF AddLevel
<1>2. IsMap(m)
  BY BindIsMap
<1> HIDE DEF m, y, z
<1>3. Formed([a EXCEPT !.levels[s] = m, !.side_qty[s] = y, !.side_orders[s] = z])
  BY <1>2, SideForms
<1>4. QED
  BY <1>1, <1>3

LEMMA RemoveLevelForms ==
  ASSUME NEW a, Formed(a), NEW s \in Side, NEW px, NEW q
  PROVE  Formed(RemoveLevel(a, s, px, q))
<1> DEFINE left == [a.levels[s][px] EXCEPT !.quantity = @ - q, !.orders = Max2(@ - 1, 0)]
           m == IF left.quantity <= 0 \/ left.orders = 0
                  THEN Unbind(a.levels[s], px) ELSE Bind(a.levels[s], px, left)
           y == a.side_qty[s] - q
           z == Max2(a.side_orders[s] - 1, 0)
<1>1. \/ RemoveLevel(a, s, px, q) = a
      \/ RemoveLevel(a, s, px, q) =
           [a EXCEPT !.levels[s] = m, !.side_qty[s] = y, !.side_orders[s] = z]
  BY DEF RemoveLevel
<1>2. IsMap(m)
  BY BindIsMap
<1> HIDE DEF m, y, z
<1>3. Formed([a EXCEPT !.levels[s] = m, !.side_qty[s] = y, !.side_orders[s] = z])
  BY <1>2, SideForms
<1>4. QED
  BY <1>1, <1>3

LEMMA ReduceLevelForms ==
  ASSUME NEW a, Formed(a), NEW s \in Side, NEW px, NEW q
  PROVE  Formed(ReduceLevel(a, s, px, q))
<1> DEFINE left == [a.levels[s][px] EXCEPT !.quantity = @ - q]
           gone == left.quantity <= 0
           m == IF gone THEN Unbind(a.levels[s], px) ELSE Bind(a.levels[s], px, left)
           y == a.side_qty[s] - q
           z == IF gone THEN a.side_orders[s] - Min2(a.side_orders[s], left.orders)
                        ELSE a.side_orders[s]
<1>1. \/ ReduceLevel(a, s, px, q) = a
      \/ ReduceLevel(a, s, px, q) =
           [a EXCEPT !.levels[s] = m, !.side_qty[s] = y, !.side_orders[s] = z]
  BY DEF ReduceLevel
<1>2. IsMap(m)
  BY BindIsMap
<1> HIDE DEF m, y, z
<1>3. Formed([a EXCEPT !.levels[s] = m, !.side_qty[s] = y, !.side_orders[s] = z])
  BY <1>2, SideForms
<1>4. QED
  BY <1>1, <1>3

LEMMA FootprintForms ==
  ASSUME NEW a, Formed(a), NEW s \in Side, NEW p \in Participant, NEW q, NEW n
  PROVE  Formed(Footprint(a, p, s, q, n))
<1> DEFINE b == Footprint(a, p, s, q, n)
           v == [qty |-> a.footprint[p][s].qty + q,
                 orders |-> Max2(a.footprint[p][s].orders + n, 0)]
           own == [a.footprint[p] EXCEPT ![s] = v]
           fp == [a.footprint EXCEPT ![p] = own]
<1>1. b = [a EXCEPT !.footprint = fp]
  BY DEF Footprint
<1>2. Shape(b)
  BY FootprintEffect DEF FootprintMoved, Formed
<1>3. IsMap(b) /\ IsMap(fp) /\ IsMap(own)
  <2> HIDE DEF v
  <2>1. IsMap([a EXCEPT !.footprint = fp])
    BY ExceptIsMap
  <2>2. QED
    BY <1>1, <2>1, ExceptIsMap
<1>4. \A r \in Participant : IsMap(fp[r])
  <2>1. \A r \in Participant : fp[r] = IF r = p THEN own ELSE a.footprint[r]
    BY DEF Formed, Shape
  <2> HIDE DEF fp, own
  <2>2. QED
    BY <1>3, <2>1 DEF Formed
<1>5. /\ b.footprint = fp
      /\ b.levels = a.levels /\ b.side_qty = a.side_qty /\ b.side_orders = a.side_orders
  BY <1>1 DEF Formed, Shape
<1> HIDE DEF b, fp, own
<1>6. Formed(b)
  BY <1>2, <1>3, <1>4, <1>5 DEF Formed
<1>7. QED
  BY <1>6 DEF b

LEMMA EnterForms ==
  ASSUME NEW a, Formed(a), NEW o \in Order, NEW ts
  PROVE  Formed(Enter(a, o, ts))
<1>1. o.side \in Side /\ o.participant \in Participant
  BY DEF Order
<1>2. Formed(AddLevel(a, o.side, o.price, o.remaining, ts))
  BY <1>1, AddLevelForms
<1>3. QED
  BY <1>1, <1>2, FootprintForms DEF Enter

LEMMA LeaveForms ==
  ASSUME NEW a, Formed(a), NEW o \in Order
  PROVE  Formed(Leave(a, o))
<1>1. o.side \in Side /\ o.participant \in Participant
  BY DEF Order
<1>2. Formed(RemoveLevel(a, o.side, o.price, o.remaining))
  BY <1>1, RemoveLevelForms
<1> DEFINE q == -o.remaining
           n == -1
<1> HIDE DEF q, n
<1>3. Formed(Footprint(RemoveLevel(a, o.side, o.price, o.remaining), o.participant, o.side, q, n))
  BY <1>1, <1>2, FootprintForms
<1>4. QED
  BY <1>3 DEF Leave, q, n

LEMMA HandlersForm ==
  ASSUME BookInv, FormInv, Handled
  PROVE  FormInv'
<1>0. \A id \in DOMAIN orders : orders[id] \in Order
  BY DEF BookInv, OrdersOK
<1>1. ASSUME NEW c, Refuse(c) PROVE FormInv'
  BY <1>1 DEF Refuse, FormInv
<1>2. ASSUME NEW id \in DOMAIN orders, Withdraw(id) PROVE FormInv'
  <2>1. Formed(Leave(agg, orders[id]))
    BY <1>0, LeaveForms DEF FormInv
  <2>2. QED
    BY <1>2, <2>1, BindIsMap DEF Withdraw, FormInv
<1>3. ASSUME NEW id \in OrderId, NEW p \in Participant, NEW s \in Side,
             NEW px \in Price \cup {NoPrice}, NEW q \in Quantity, OnOrder(id, p, s, px, q)
      PROVE  FormInv'
  <2> DEFINE r == [participant |-> p, side |-> s, price |-> px, original_qty |-> q,
                   remaining |-> q, filled |-> 0, entry_ts |-> now']
  <2>1. r \in Order
    BY <1>3 DEF OnOrder, Arrive, BookInv, Controls, Order
  <2>2. orders' = Bind(orders, id, r) /\ agg' = Enter(agg, r, now')
    BY <1>3 DEF OnOrder
  <2> HIDE DEF r
  <2>3. Formed(Enter(agg, r, now'))
    BY <2>1, EnterForms DEF FormInv
  <2>4. QED
    BY <2>2, <2>3, BindIsMap DEF FormInv
<1>4. ASSUME NEW id \in DOMAIN orders, NEW px \in Price \cup {NoPrice}, NEW q \in Quantity,
             q > 0, Arrive, Amend(id, px, q)
      PROVE  FormInv'
  <2> DEFINE old == orders[id]
             new_px == IF px = NoPrice THEN old.price ELSE px
             new == [old EXCEPT !.price = new_px,
                                !.remaining = q,
                                !.original_qty = Max2(@, q + old.filled),
                                !.entry_ts = IF new_px # old.price THEN now' ELSE @]
  <2>1. old \in Order /\ now' \in Nat /\ q \in Nat \ {0}
    BY <1>0, <1>4 DEF BookInv, Arrive, Controls
  <2>2. new_px \in Price /\ Max2(old.original_qty, q + old.filled) \in Nat
    BY <2>1 DEF Order, Max2
  <2>3. new \in Order
    BY <2>1, <2>2 DEF Order
  <2>4. orders' = [orders EXCEPT ![id] = new] /\ agg' = Enter(Leave(agg, old), new, now')
    BY <1>4 DEF Amend
  <2> HIDE DEF new, old
  <2>5. Formed(Leave(agg, old))
    BY <2>1, LeaveForms DEF FormInv
  <2>6. Formed(Enter(Leave(agg, old), new, now'))
    BY <2>3, <2>5, EnterForms
  <2>7. IsMap([orders EXCEPT ![id] = new])
    BY ExceptIsMap
  <2>8. QED
    BY <2>4, <2>6, <2>7 DEF FormInv
<1>5. ASSUME NEW id \in DOMAIN orders, NEW q \in Quantity, Fill(id, q)
      PROVE  FormInv'
  <2> DEFINE r == orders[id]
             fill == Min2(q, r.remaining)
             new == [r EXCEPT !.remaining = @ - fill, !.filled = @ + fill]
  <2>1. r \in Order /\ r.side \in Side /\ r.participant \in Participant
    BY <1>0 DEF Order
  <2>2. CASE fill < r.remaining
    <3>1. /\ orders' = [orders EXCEPT ![id] = new]
          /\ agg' = ReduceLevel(Footprint(agg, r.participant, r.side, -fill, 0),
                                r.side, r.price, fill)
      BY <1>5, <2>2 DEF Fill
    <3> HIDE DEF r, new, fill
    <3>2. Formed(Footprint(agg, r.participant, r.side, -fill, 0))
      <4> DEFINE n == -fill
      <4> HIDE DEF n
      <4>1. Formed(Footprint(agg, r.participant, r.side, n, 0))
        BY <2>1, FootprintForms DEF FormInv
      <4>2. QED
        BY <4>1 DEF n
    <3>3. Formed(ReduceLevel(Footprint(agg, r.participant, r.side, -fill, 0),
                             r.side, r.price, fill))
      BY <2>1, <3>2, ReduceLevelForms
    <3>4. IsMap([orders EXCEPT ![id] = new])
      BY ExceptIsMap
    <3>5. QED
      BY <3>1, <3>3, <3>4 DEF FormInv
  <2>3. CASE ~(fill < r.remaining)
    <3>1. agg' = Leave(agg, r) /\ orders' = Unbind(orders, id)
      BY <1>5, <2>3 DEF Fill
    <3>2. QED
      BY <2>1, <3>1, LeaveForms, BindIsMap DEF FormInv
  <2>4. QED
    BY <2>2, <2>3
<1>6. ASSUME NEW id \in OrderId, NEW px \in Price \cup {NoPrice}, NEW q \in Quantity
      PROVE  OnOrderRefused(id, q, px) \/ OnModify(id, px, q) \/ OnCancel(id) \/ OnTrade(id, q)
               => FormInv'
  BY <1>1, <1>2, <1>4, <1>5 DEF OnOrderRefused, OnModify, OnCancel, OnTrade
<1>7. ASSUME NEW id \in OrderId, OnCancel(id) PROVE FormInv'
  BY <1>1, <1>2, <1>7 DEF OnCancel
<1>8. ASSUME NEW id \in OrderId, NEW q \in Quantity, OnTrade(id, q) PROVE FormInv'
  BY <1>1, <1>5, <1>8 DEF OnTrade
<1>9. QED
  BY <1>3, <1>6, <1>7, <1>8 DEF Handled

LEMMA FormKept ==
  ASSUME BookInv, AggInv, FormInv, [BookNext]_bookVars
  PROVE  FormInv'
<1>1. ASSUME ChooseLevel PROVE FormInv'
  BY <1>1, ChooseMoves DEF FormInv
<1>2. ASSUME EraseOrder PROVE FormInv'
  <2>1. PICK id \in ids : agg' = Leave(agg, orders[id]) /\ orders' = Unbind(orders, id)
    BY <1>2 DEF EraseOrder
  <2>2. orders[id] \in Order
    BY DEF BookInv, Controls, OrdersOK
  <2>3. QED
    BY <2>1, <2>2, LeaveForms, BindIsMap DEF FormInv
<1>3. ASSUME RepairDone \/ UNCHANGED bookVars PROVE FormInv'
  BY <1>3 DEF RepairDone, bookVars, FormInv
<1>4. QED
  BY <1>1, <1>2, <1>3, BookCases, HandlersForm

LEMMA FormCorrect == BookSpec => []FormInv
<1>1. BookInit => FormInv
  BY DEF BookInit, FormInv, Formed, Shape, IsMap
<1>2. BookInv /\ AggInv /\ FormInv /\ [BookNext]_bookVars => FormInv'
  BY FormKept
<1>3. QED
  BY <1>1, <1>2, BookInvCorrect, AggCorrect, PTL DEF BookSpec

-----------------------------------------------------------------------------
\* Figures that agree with the same orders, and show no level fresher than a
\* third book does, are the same figures.
LEMMA SameFigures ==
  ASSUME NEW map, NEW a, Agree(a, map), Formed(a), NEW b, Agree(b, map), Formed(b),
         NEW c, Within(a, c), Within(b, c)
  PROVE  a = b
<1>1. ASSUME NEW s \in Side PROVE a.levels[s] = b.levels[s]
  <2>1. DOMAIN a.levels[s] \subseteq Price /\ DOMAIN b.levels[s] \subseteq Price
    BY DEF Agree, SideAgrees
  <2>2. ASSUME NEW px \in Price
        PROVE  /\ px \in DOMAIN a.levels[s] <=> px \in DOMAIN b.levels[s]
               /\ px \in DOMAIN a.levels[s] => a.levels[s][px] = b.levels[s][px]
    <3>1. LevelAgrees(a, map, s, px) /\ LevelAgrees(b, map, s, px)
      BY DEF Agree
    <3>2. px \in DOMAIN a.levels[s] <=> px \in DOMAIN b.levels[s]
      BY <3>1 DEF LevelAgrees
    <3>3. ASSUME px \in DOMAIN a.levels[s] PROVE a.levels[s][px] = b.levels[s][px]
      <4> DEFINE x == a.levels[s][px]
                 y == b.levels[s][px]
      <4>1. /\ x \in Level /\ y \in Level /\ x.quantity = y.quantity /\ x.orders = y.orders
        BY <3>1, <3>2, <3>3 DEF LevelAgrees, LevelAt
      <4>2. x.newest_ts = y.newest_ts
        BY <3>2, <3>3 DEF Within
      <4> HIDE DEF x, y
      <4>3. x = y
        BY <4>1, <4>2 DEF Level
      <4>4. QED
        BY <4>3 DEF x, y
    <3>4. QED
      BY <3>2, <3>3
  <2>3. DOMAIN a.levels[s] = DOMAIN b.levels[s]
    BY <2>1, <2>2
  <2>4. \A px \in DOMAIN a.levels[s] : a.levels[s][px] = b.levels[s][px]
    BY <2>1, <2>2
  <2>5. IsMap(a.levels[s]) /\ IsMap(b.levels[s])
    BY DEF Formed
  <2>6. QED
    BY <2>3, <2>4, <2>5, SameMaps
<1>2. ASSUME NEW p \in Participant PROVE a.footprint[p] = b.footprint[p]
  <2>1. \A s \in Side : OwnAgrees(a, map, p, s) /\ OwnAgrees(b, map, p, s)
    BY DEF Agree
  <2>2. \A s \in Side : a.footprint[p][s] = b.footprint[p][s]
    BY <2>1 DEF OwnAgrees
  <2>3. /\ IsMap(a.footprint[p]) /\ IsMap(b.footprint[p])
        /\ DOMAIN a.footprint[p] = Side /\ DOMAIN b.footprint[p] = Side
    BY DEF Formed, Shape
  <2>4. QED
    BY <2>2, <2>3, SameMaps
<1>3. \A s \in Side : a.side_qty[s] = b.side_qty[s] /\ a.side_orders[s] = b.side_orders[s]
  BY DEF Agree, SideAgrees
<1>4. /\ DOMAIN a = {"levels", "side_qty", "side_orders", "footprint"} /\ DOMAIN b = DOMAIN a
      /\ DOMAIN a.levels = Side /\ DOMAIN b.levels = Side
      /\ DOMAIN a.side_qty = Side /\ DOMAIN b.side_qty = Side
      /\ DOMAIN a.side_orders = Side /\ DOMAIN b.side_orders = Side
      /\ DOMAIN a.footprint = Participant /\ DOMAIN b.footprint = Participant
  BY DEF Formed, Shape
<1>5. /\ IsMap(a) /\ IsMap(a.levels) /\ IsMap(a.side_qty) /\ IsMap(a.side_orders)
      /\ IsMap(a.footprint)
      /\ IsMap(b) /\ IsMap(b.levels) /\ IsMap(b.side_qty) /\ IsMap(b.side_orders)
      /\ IsMap(b.footprint)
  BY DEF Formed
<1>6. a.levels = b.levels
  BY <1>1, <1>4, <1>5, SameMaps
<1>7. a.side_qty = b.side_qty /\ a.side_orders = b.side_orders
  BY <1>3, <1>4, <1>5, SameMaps
<1>8. a.footprint = b.footprint
  BY <1>2, <1>4, <1>5, SameMaps
<1>9. QED
  BY <1>4, <1>5, <1>6, <1>7, <1>8, SameMaps

-----------------------------------------------------------------------------
(***************************************************************************)
(* What a handler leaves, given the book and the event.                    *)
(***************************************************************************)
Joining(e) == [participant |-> e.who, side |-> e.side, price |-> e.px, original_qty |-> e.q,
               remaining |-> e.q, filled |-> 0, entry_ts |-> e.ts]

Joins(o, e) == /\ e.kind = "order" /\ e.id \notin DOMAIN o
               /\ Cardinality(DOMAIN o) < MaxOrders /\ e.q > 0 /\ e.px # NoPrice

Filling(o, e) == Min2(e.q, o[e.id].remaining)

\* The event takes the order out: a cancel, an amend to zero, a complete fill.
Departs(o, e) == /\ e.id \in DOMAIN o
                 /\ \/ e.kind = "cancel"
                    \/ e.kind = "modify" /\ e.q <= 0
                    \/ e.kind = "trade" /\ ~(Filling(o, e) < o[e.id].remaining)

Amends(o, e) == e.kind = "modify" /\ e.id \in DOMAIN o /\ e.q > 0

Amended(o, e) ==
  LET old == o[e.id]
      new_px == IF e.px = NoPrice THEN old.price ELSE e.px IN
  [old EXCEPT !.price = new_px,
              !.remaining = e.q,
              !.original_qty = Max2(@, e.q + old.filled),
              !.entry_ts = IF new_px # old.price THEN e.ts ELSE @]

Shrinks(o, e) == /\ e.kind = "trade" /\ e.id \in DOMAIN o
                 /\ Filling(o, e) < o[e.id].remaining

AfterOrders(o, e) ==
  IF Joins(o, e) THEN Bind(o, e.id, Joining(e))
  ELSE IF Departs(o, e) THEN Unbind(o, e.id)
  ELSE IF Amends(o, e) THEN [o EXCEPT ![e.id] = Amended(o, e)]
  ELSE IF Shrinks(o, e) THEN [o EXCEPT ![e.id].remaining = @ - Filling(o, e),
                                       ![e.id].filled = @ + Filling(o, e)]
  ELSE o

AfterAgg(o, a, e) ==
  IF Joins(o, e) THEN Enter(a, Joining(e), e.ts)
  ELSE IF Departs(o, e) THEN Leave(a, o[e.id])
  ELSE IF Amends(o, e) THEN Enter(Leave(a, o[e.id]), Amended(o, e), e.ts)
  ELSE IF Shrinks(o, e)
         THEN ReduceLevel(Footprint(a, o[e.id].participant, o[e.id].side, -Filling(o, e), 0),
                          o[e.id].side, o[e.id].price, Filling(o, e))
  ELSE a

LEMMA HandleLeaves ==
  ASSUME BookInv, NEW e, e.q \in Int, Handle(e), now' = e.ts
  PROVE  /\ orders' = AfterOrders(orders, e)
         /\ agg' = AfterAgg(orders, agg, e)
         /\ stage = "idle" /\ ThenRepair
<1>0. Cardinality(DOMAIN orders) \in Nat
  BY FS_CardinalityType DEF BookInv, Ledger
<1>1. ASSUME e.kind = "order", OnOrderRefused(e.id, e.q, e.px)
      PROVE  /\ ~Joins(orders, e) /\ ~Departs(orders, e) /\ ~Amends(orders, e)
             /\ ~Shrinks(orders, e)
             /\ orders' = orders /\ agg' = agg /\ stage = "idle" /\ ThenRepair
  BY <1>0, <1>1 DEF OnOrderRefused, Arrive, Refuse, Joins, Departs, Amends, Shrinks
<1>2. ASSUME e.kind = "order", OnOrder(e.id, e.who, e.side, e.px, e.q)
      PROVE  /\ Joins(orders, e)
             /\ orders' = Bind(orders, e.id, Joining(e)) /\ agg' = Enter(agg, Joining(e), e.ts)
             /\ stage = "idle" /\ ThenRepair
  BY <1>2 DEF OnOrder, Arrive, Joins, Joining
<1>3. ASSUME e.id \notin DOMAIN orders, e.kind # "order", NEW c, Refuse(c), Arrive
      PROVE  /\ ~Joins(orders, e) /\ ~Departs(orders, e) /\ ~Amends(orders, e)
             /\ ~Shrinks(orders, e)
             /\ orders' = orders /\ agg' = agg /\ stage = "idle" /\ ThenRepair
  BY <1>3 DEF Arrive, Refuse, Joins, Departs, Amends, Shrinks
<1>4. ASSUME e.id \in DOMAIN orders, Withdraw(e.id), Arrive,
             e.kind = "cancel" \/ (e.kind = "modify" /\ e.q <= 0)
      PROVE  /\ ~Joins(orders, e) /\ Departs(orders, e)
             /\ orders' = Unbind(orders, e.id) /\ agg' = Leave(agg, orders[e.id])
             /\ stage = "idle" /\ ThenRepair
  BY <1>4 DEF Arrive, Withdraw, Joins, Departs
<1>5. ASSUME e.id \in DOMAIN orders, e.kind = "modify", e.q > 0, Amend(e.id, e.px, e.q), Arrive
      PROVE  /\ ~Joins(orders, e) /\ ~Departs(orders, e) /\ Amends(orders, e)
             /\ orders' = [orders EXCEPT ![e.id] = Amended(orders, e)]
             /\ agg' = Enter(Leave(agg, orders[e.id]), Amended(orders, e), e.ts)
             /\ stage = "idle" /\ ThenRepair
  BY <1>5 DEF Arrive, Amend, Amended, Joins, Departs, Amends
<1>6. ASSUME e.id \in DOMAIN orders, e.kind = "trade", Fill(e.id, e.q), Arrive,
             Filling(orders, e) < orders[e.id].remaining
      PROVE  /\ ~Joins(orders, e) /\ ~Departs(orders, e) /\ ~Amends(orders, e)
             /\ Shrinks(orders, e)
             /\ orders' = [orders EXCEPT ![e.id].remaining = @ - Filling(orders, e),
                                         ![e.id].filled = @ + Filling(orders, e)]
             /\ agg' = ReduceLevel(Footprint(agg, orders[e.id].participant, orders[e.id].side,
                                             -Filling(orders, e), 0),
                                   orders[e.id].side, orders[e.id].price, Filling(orders, e))
             /\ stage = "idle" /\ ThenRepair
  BY <1>6 DEF Arrive, Fill, Filling, Joins, Departs, Amends, Shrinks
<1>7. ASSUME e.id \in DOMAIN orders, e.kind = "trade", Fill(e.id, e.q), Arrive,
             ~(Filling(orders, e) < orders[e.id].remaining)
      PROVE  /\ ~Joins(orders, e) /\ Departs(orders, e)
             /\ orders' = Unbind(orders, e.id) /\ agg' = Leave(agg, orders[e.id])
             /\ stage = "idle" /\ ThenRepair
  BY <1>7 DEF Arrive, Fill, Filling, Joins, Departs
<1>8. CASE e.kind = "order"
  BY <1>1, <1>2, <1>8 DEF Handle, AfterOrders, AfterAgg
<1>9. CASE e.kind = "cancel" /\ OnCancel(e.id)
  <2>1. Arrive /\ e.kind # "order"
    BY <1>9 DEF OnCancel
  <2>2. CASE e.id \notin DOMAIN orders /\ Refuse(Count("unknown_cancel"))
    BY <1>3, <2>1, <2>2 DEF AfterOrders, AfterAgg
  <2>3. CASE e.id \in DOMAIN orders /\ Withdraw(e.id)
    <3>1. /\ ~Joins(orders, e) /\ Departs(orders, e)
          /\ orders' = Unbind(orders, e.id) /\ agg' = Leave(agg, orders[e.id])
          /\ stage = "idle" /\ ThenRepair
      <4>1. e.kind = "cancel" \/ (e.kind = "modify" /\ e.q <= 0)
        BY <1>9
      <4>2. QED
        BY <1>4, <2>1, <2>3, <4>1
    <3>2. QED
      BY <3>1 DEF AfterOrders, AfterAgg
  <2>4. QED
    BY <1>9, <2>2, <2>3 DEF OnCancel
<1>10. CASE e.kind = "modify" /\ OnModify(e.id, e.px, e.q)
  BY <1>3, <1>4, <1>5, <1>10 DEF OnModify, AfterOrders, AfterAgg
<1>11. CASE e.kind = "trade" /\ OnTrade(e.id, e.q)
  BY <1>3, <1>6, <1>7, <1>11 DEF OnTrade, AfterOrders, AfterAgg
<1>12. QED
  BY <1>8, <1>9, <1>10, <1>11 DEF Handle

-----------------------------------------------------------------------------
(***************************************************************************)
(* A snapshot of a book: a record with its orders and figures, taken       *)
(* between events ("idle") or between two rounds of a repair ("repair").   *)
(***************************************************************************)
\* d is c with event e handled, or with the event passed over.
Reads(c, e, d) ==
  /\ c.stage = "idle"
  /\ d.orders = AfterOrders(c.orders, e)
  /\ d.agg = AfterAgg(c.orders, c.agg, e)
  /\ d.stage = IF CrossedBook(d.agg) THEN "repair" ELSE "idle"
  /\ d.round = 0

\* Where a round of the repair starts, and the orders it discards.
Starts(c) == c.stage = "repair" /\ CrossedBook(c.agg) /\ c.round < RepairRounds

StaleIn(a) ==
  IF a.levels["Buy"][Best(a, "Buy")].newest_ts <= a.levels["Sell"][Best(a, "Sell")].newest_ts
    THEN "Buy" ELSE "Sell"

Discarded(c) ==
  LET s == StaleIn(c.agg) IN
  {id \in DOMAIN c.orders : /\ c.orders[id].side = s
                            /\ c.orders[id].price = Best(c.agg, s)}

\* d is c one round further, or c with the repair over.
Onward(c, d) ==
  \/ /\ Starts(c)
     /\ IsMap(d.orders) /\ DOMAIN d.orders = DOMAIN c.orders \ Discarded(c)
     /\ \A id \in DOMAIN d.orders : d.orders[id] = c.orders[id]
     /\ Agree(d.agg, d.orders) /\ Formed(d.agg) /\ Within(d.agg, c.agg)
     /\ d.stage = "repair" /\ d.round = c.round + 1
  \/ /\ c.stage = "repair" /\ ~Starts(c)
     /\ d.orders = c.orders /\ d.agg = c.agg /\ d.round = c.round /\ d.stage = "idle"

\* The book is at snapshot c, or inside the round that follows it.
Stands(c) ==
  /\ stage # "erase"
  /\ orders = c.orders /\ agg = c.agg /\ stage = c.stage /\ round = c.round

Erasing(c) ==
  /\ stage = "erase"
  /\ Starts(c) /\ round = c.round + 1
  /\ ids # {} /\ ids \subseteq Discarded(c)
  /\ DOMAIN orders = DOMAIN c.orders \ (Discarded(c) \ ids)
  /\ \A id \in DOMAIN orders : orders[id] = c.orders[id]
  /\ Within(agg, c.agg)

Follows(c) == Stands(c) \/ Erasing(c)

\* An event takes the book from one snapshot to the next.
LEMMA HandleFollows ==
  ASSUME BookInv, NEW e, e.q \in Int, Handle(e), now' = e.ts, NEW c, Follows(c)
  PROVE  /\ c.stage = "idle" /\ stage' \in {"idle", "repair"}
         /\ \A d : Reads(c, e, d) <=> Stands(d)'
<1>1. /\ orders' = AfterOrders(orders, e) /\ agg' = AfterAgg(orders, agg, e)
      /\ stage = "idle"
      /\ stage' = IF CrossedBook(agg') THEN "repair" ELSE "idle"
      /\ round' = 0
  BY HandleLeaves DEF ThenRepair
<1>2. orders = c.orders /\ agg = c.agg /\ c.stage = "idle"
  BY <1>1 DEF Follows, Stands, Erasing
<1>3. ASSUME NEW d PROVE Reads(c, e, d) <=> Stands(d)'
  BY <1>1, <1>2 DEF Reads, Stands
<1>4. QED
  BY <1>1, <1>2, <1>3

LEMMA ChooseFollows ==
  ASSUME BookInv, AggInv, ChooseLevel, NEW c, Follows(c)
  PROVE  Erasing(c)'
<1>1. /\ agg' = agg /\ orders' = orders /\ stage' = "erase" /\ ids' # {}
      /\ ids' = AtLevel(StaleSide, Best(agg, StaleSide))
      /\ stage = "repair" /\ Crossed /\ round < RepairRounds /\ round' = round + 1
  BY ChooseMoves DEF ChooseLevel
<1>2. orders = c.orders /\ agg = c.agg /\ c.stage = "repair" /\ c.round = round
  BY <1>1 DEF Follows, Stands, Erasing
<1>3. ids' = Discarded(c)
  BY <1>1, <1>2 DEF AtLevel, Discarded, StaleSide, StaleIn
<1>4. Starts(c)
  BY <1>1, <1>2 DEF Starts, Crossed
<1>5. Within(agg', c.agg)
  BY <1>1, <1>2, WithinItself
<1>6. DOMAIN orders' = DOMAIN c.orders \ (Discarded(c) \ ids')
  BY <1>1, <1>2, <1>3
<1>7. \A id \in DOMAIN orders' : orders'[id] = c.orders[id]
  BY <1>1, <1>2
<1>8. QED
  BY <1>1, <1>2, <1>3, <1>4, <1>5, <1>6, <1>7 DEF Erasing

LEMMA EraseFollows ==
  ASSUME BookInv, AggInv, FormInv, FormInv', EraseOrder, NEW c, Follows(c)
  PROVE  \/ Erasing(c)'
         \/ stage' = "repair" /\ \A d : Onward(c, d) <=> Stands(d)'
<1>1. /\ Agree(agg', orders') /\ Within(agg', agg)
      /\ stage = "erase" /\ round' = round /\ stage' = IF ids' = {} THEN "repair" ELSE "erase"
  BY EraseMoves DEF EraseOrder, AggInv
<1>2. PICK id \in ids : /\ DOMAIN orders' = DOMAIN orders \ {id} /\ ids' = ids \ {id}
                        /\ \A x \in DOMAIN orders' : orders'[x] = orders[x]
  BY EraseMoves
<1>3. /\ Starts(c) /\ round = c.round + 1 /\ ids \subseteq Discarded(c)
      /\ DOMAIN orders = DOMAIN c.orders \ (Discarded(c) \ ids)
      /\ \A x \in DOMAIN orders : orders[x] = c.orders[x]
      /\ Within(agg, c.agg)
  BY <1>1 DEF Follows, Stands, Erasing
<1>4. Within(agg', c.agg)
  BY <1>1, <1>3 DEF Within
<1>5. /\ DOMAIN orders' = DOMAIN c.orders \ (Discarded(c) \ ids')
      /\ \A x \in DOMAIN orders' : orders'[x] = c.orders[x]
      /\ ids' \subseteq Discarded(c)
  <2>1. id \in Discarded(c) /\ Discarded(c) \subseteq DOMAIN c.orders
    BY <1>2, <1>3 DEF Discarded
  <2>2. QED
    BY <1>2, <1>3, <2>1
<1>6. CASE ids' # {}
  BY <1>1, <1>3, <1>4, <1>5, <1>6 DEF Erasing
<1>7. CASE ids' = {}
  <2>1. stage' = "repair" /\ DOMAIN orders' = DOMAIN c.orders \ Discarded(c)
    BY <1>1, <1>5, <1>7
  <2>2. IsMap(orders') /\ Formed(agg')
    BY DEF FormInv
  <2>3. ASSUME NEW d, Stands(d)' PROVE Onward(c, d)
    <3>1. d.orders = orders' /\ d.agg = agg' /\ d.stage = "repair" /\ d.round = c.round + 1
      BY <1>1, <1>3, <2>1, <2>3 DEF Stands
    <3>2. QED
      BY <1>1, <1>3, <1>4, <1>5, <2>1, <2>2, <3>1 DEF Onward
  <2>4. ASSUME NEW d, Onward(c, d) PROVE Stands(d)'
    <3>1. /\ IsMap(d.orders) /\ DOMAIN d.orders = DOMAIN c.orders \ Discarded(c)
          /\ \A x \in DOMAIN d.orders : d.orders[x] = c.orders[x]
          /\ Agree(d.agg, d.orders) /\ Formed(d.agg) /\ Within(d.agg, c.agg)
          /\ d.stage = "repair" /\ d.round = c.round + 1
      BY <1>3, <2>4 DEF Onward
    <3>2. d.orders = orders'
      <4>1. DOMAIN d.orders = DOMAIN orders'
        BY <2>1, <3>1
      <4>2. \A x \in DOMAIN d.orders : d.orders[x] = orders'[x]
        BY <1>5, <3>1, <4>1
      <4> DEFINE f == orders'
      <4>3. IsMap(f) /\ DOMAIN d.orders = DOMAIN f /\ \A x \in DOMAIN d.orders : d.orders[x] = f[x]
        BY <2>2, <4>1, <4>2
      <4> HIDE DEF f
      <4>4. d.orders = f
        BY <3>1, <4>3, SameMaps
      <4>5. QED
        BY <4>4 DEF f
    <3>3. d.agg = agg'
      <4>1. Agree(d.agg, orders')
        BY <3>1, <3>2
      <4> DEFINE a == agg'
                 o == orders'
      <4>2. Agree(d.agg, o) /\ Agree(a, o) /\ Formed(a) /\ Within(a, c.agg)
        BY <1>1, <1>4, <2>2, <4>1
      <4> HIDE DEF a, o
      <4>3. d.agg = a
        BY <3>1, <4>2, SameFigures
      <4>4. QED
        BY <4>3 DEF a
    <3>4. QED
      BY <1>1, <1>3, <2>1, <3>1, <3>2, <3>3 DEF Stands
  <2>5. QED
    BY <2>1, <2>3, <2>4
<1>8. QED
  BY <1>6, <1>7

\* A step of the repair stays within the round, or takes the book to the
\* snapshot behind it.
LEMMA RepairFollows ==
  ASSUME BookInv, AggInv, FormInv, FormInv', Repair, NEW c, Follows(c)
  PROVE  /\ c.stage = "repair"
         /\ \/ Erasing(c)'
            \/ stage' \in {"idle", "repair"} /\ \A d : Onward(c, d) <=> Stands(d)'
<1>1. c.stage = "repair"
  BY DEF Repair, ChooseLevel, EraseOrder, RepairDone, Follows, Stands, Erasing, Starts
<1>2. CASE RepairDone
  <2>1. /\ stage = "repair" /\ ~(Crossed /\ round < RepairRounds) /\ stage' = "idle"
        /\ orders' = orders /\ agg' = agg /\ round' = round
    BY <1>2 DEF RepairDone
  <2>2. orders = c.orders /\ agg = c.agg /\ round = c.round
    BY <2>1 DEF Follows, Stands, Erasing
  <2>3. ~Starts(c)
    BY <2>1, <2>2 DEF Starts, Crossed
  <2>4. \A d : Onward(c, d) <=> Stands(d)'
    BY <1>1, <2>1, <2>2, <2>3 DEF Onward, Stands
  <2>5. QED
    BY <1>1, <2>1, <2>4
<1>3. QED
  BY <1>1, <1>2, ChooseFollows, EraseFollows DEF Repair

LEMMA StillFollows ==
  ASSUME UNCHANGED bookVars, NEW c, Follows(c)
  PROVE  Follows(c)'
BY DEF bookVars, Follows, Stands, Erasing

(***************************************************************************)
(* An order there is no room for is counted, and nothing takes the count   *)
(* back: while it stands at zero the cap has changed nothing.              *)
(***************************************************************************)
HasRoom(o, e) ==
  e.kind = "order" /\ e.id \notin DOMAIN o => Cardinality(DOMAIN o) < MaxOrders

Dropped == stats["orders_dropped_cap"]

LEMMA DroppedIsNat == ASSUME BookInv PROVE Dropped \in Nat
BY DEF BookInv, Controls, Counter, Dropped

LEMMA DropsAreCounted ==
  ASSUME BookInv, BookInv', NEW e, Handle(e)
  PROVE  /\ Dropped <= Dropped'
         /\ Dropped' = Dropped => HasRoom(orders, e)
<1>0. /\ stats \in [Counter -> Nat] /\ Cardinality(DOMAIN orders) \in Nat /\ Dropped \in Nat
  BY DroppedIsNat, FS_CardinalityType DEF BookInv, Controls, Ledger
<1>1. ASSUME NEW c \in Counter \ {"orders_dropped_cap"}, stats' = Count(c)
      PROVE  Dropped' = Dropped
  BY <1>0, <1>1, CountMoves DEF Counter, Dropped
<1>2. \A c \in [Counter -> Nat] : NoteCrossed(c)["orders_dropped_cap"] = c["orders_dropped_cap"]
  BY DEF NoteCrossed, Counter
<1>3. CASE e.kind = "order" /\ OnOrderRefused(e.id, e.q, e.px)
  <2>1. CASE e.id \in DOMAIN orders /\ Refuse(Count("duplicate_order_id"))
    BY <1>0, <1>1, <2>1 DEF Refuse, HasRoom, Counter
  <2>2. CASE Refuse(Count("orders_dropped_cap"))
    <3>1. Dropped' = Dropped + 1
      BY <1>0, <2>2, CountMoves DEF Refuse, Dropped, Counter
    <3>2. QED
      BY <1>0, <3>1
  <2>3. CASE Cardinality(DOMAIN orders) < MaxOrders /\ Refuse(stats)
    BY <1>0, <2>3 DEF Refuse, HasRoom, Dropped
  <2>4. QED
    BY <1>3, <2>1, <2>2, <2>3 DEF OnOrderRefused
<1>4. CASE e.kind = "order" /\ OnOrder(e.id, e.who, e.side, e.px, e.q)
  <2>1. /\ stats' = NoteCrossed(Count("orders_added"))
        /\ Cardinality(DOMAIN orders) < MaxOrders
    BY <1>4 DEF OnOrder
  <2>2. Count("orders_added") \in [Counter -> Nat]
        /\ Count("orders_added")["orders_dropped_cap"] = Dropped
    BY <1>0, CountMoves DEF Counter, Dropped
  <2>3. Dropped' = Dropped
    BY <1>2, <2>1, <2>2 DEF Dropped
  <2>4. QED
    BY <1>0, <2>1, <2>3 DEF HasRoom
<1>5. ASSUME e.kind # "order", Handle(e) PROVE Dropped' = Dropped
  <2>1. CASE OnCancel(e.id)
    <3>1. stats' = stats \/ stats' = Count("unknown_cancel")
      BY <2>1 DEF OnCancel, Refuse, Withdraw
    <3>2. QED
      BY <1>1, <3>1 DEF Counter, Dropped
  <2>2. CASE OnModify(e.id, e.px, e.q)
    <3>1. stats' = stats \/ stats' = Count("unknown_modify") \/ stats' = NoteCrossed(stats)
      BY <2>2 DEF OnModify, Refuse, Withdraw, Amend
    <3>2. QED
      BY <1>0, <1>1, <1>2, <3>1 DEF Counter, Dropped
  <2>3. CASE OnTrade(e.id, e.q)
    <3>1. stats' = stats \/ stats' = Count("unknown_maker") \/ stats' = Count("oversized_fill")
      BY <2>3 DEF OnTrade, Refuse, Fill
    <3>2. QED
      BY <1>1, <3>1 DEF Counter, Dropped
  <2>4. QED
    BY <1>5, <2>1, <2>2, <2>3 DEF Handle
<1>6. QED
  BY <1>0, <1>3, <1>4, <1>5 DEF Handle, HasRoom

LEMMA RepairDropsNothing ==
  ASSUME BookInv, Repair
  PROVE  Dropped' = Dropped
<1>1. stats \in [Counter -> Nat]
  BY DEF BookInv, Controls
<1>2. \/ stats' = stats \/ stats' = Count("stale_levels_removed")
      \/ stats' = Count("stale_orders_removed")
  BY DEF Repair, ChooseLevel, EraseOrder, RepairDone
<1>3. QED
  BY <1>1, <1>2, CountMoves DEF Counter, Dropped
=============================================================================
