----------------------------- MODULE FeedPromise -----------------------------
(***************************************************************************)
(* What the two feed-integrity stages promise the engine behind them: the  *)
(* feed may lose events on the way, but those it does not lose are applied *)
(* one at a time, in the order the venue numbered them and once each.      *)
(***************************************************************************)
EXTENDS Integers, Sequences

VARIABLES
  pending,    \* the venue's events neither lost nor applied: their numbers
  delivered   \* the events applied, in order

promiseVars == <<pending, delivered>>

PromiseInit == delivered = <<>>

Lose ==
  /\ \E k \in pending : pending' = pending \ {k}
  /\ UNCHANGED delivered

Deliver ==
  \E k \in pending :
    /\ \A m \in pending : k <= m
    /\ delivered' = Append(delivered, k)
    /\ pending' = pending \ {k}

PromiseSpec == PromiseInit /\ [][Lose \/ Deliver]_promiseVars
=============================================================================
