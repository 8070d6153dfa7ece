--------------------------- MODULE MCFeedIntegrity ---------------------------
(***************************************************************************)
(* Instance of FeedIntegrity for TLC.  The clean tapes are what the        *)
(* generator writes: sequence numbers and ids count up together and        *)
(* timestamps never decrease, though they often tie.                       *)
(***************************************************************************)
EXTENDS FeedIntegrity

CONSTANTS Length, MaxTs

MCTapes ==
  { [i \in 1 .. Length |-> [ts |-> t[i], seq |-> i, eid |-> i]] :
      t \in { f \in [1 .. Length -> 0 .. MaxTs] :
                \A i \in 1 .. Length - 1 : f[i] <= f[i + 1] } }

\* Forwards only: a line set back among others looks like the others set forward.
MCSkews == {2}
=============================================================================
