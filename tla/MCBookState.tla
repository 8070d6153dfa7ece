----------------------------- MODULE MCBookState -----------------------------
(***************************************************************************)
(* Instance of BookState for TLC: any sequence of order, cancel, modify    *)
(* and trade messages, those for unknown orders included, as a feed that   *)
(* lost messages would leave them.                                         *)
(***************************************************************************)
EXTENDS BookState, TLC

\* The parser reads signed quantities: none, one lot, two, and one below zero.
SignedQuantity == -1 .. 2

BookSymmetry == Permutations(OrderId) \cup Permutations(Participant)
=============================================================================
