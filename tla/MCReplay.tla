------------------------------ MODULE MCReplay ------------------------------
(***************************************************************************)
(* Instance of ConsoleReplay for TLC: a bid, an ask, a trade against the   *)
(* bid, something that may cross the book, and an event of another symbol, *)
(* at timestamps that tie or step; the tape is damaged, read by the engine *)
(* and replayed.                                                           *)
(***************************************************************************)
EXTENDS ConsoleReplay, TLC

Line(kind, sym, id, side, px, q) ==
  [kind |-> kind, sym |-> sym, id |-> id, who |-> 1, side |-> side, px |-> px, q |-> q]

\* The fourth event withdraws the ask, fills the bid, or crosses the book.
MCStories ==
  { <<Line("order", "A", 1, "Buy", 1, 2), Line("order", "A", 2, "Sell", 2, 1),
      Line("trade", "A", 1, "Sell", 1, 1), last>> :
      last \in {Line("cancel", "A", 2, "Sell", 2, 1),
                Line("trade", "A", 1, "Sell", 1, 1),
                Line("modify", "A", 2, "Sell", 1, 1),
                Line("order", "B", 3, "Buy", 2, 1)} }

MCTapes ==
  { [i \in 1 .. 4 |-> [ts |-> t[i], seq |-> i, eid |-> i] @@ story[i]] :
      story \in MCStories,
      t \in { f \in [1 .. 4 -> 0 .. MaxTs] : \A i \in 1 .. 3 : f[i] <= f[i + 1] } }

MCRequests ==
  { [symbol |-> "A", from_ts |-> w[1], to_ts |-> w[2], max_frames |-> max] :
      w \in {<<0, 1>>, <<0, 3>>, <<2, 3>>}, max \in {1, 2, 4} }
=============================================================================
