--------------------------- MODULE MCReorderBuffer ---------------------------
(***************************************************************************)
(* Instance of ReorderBuffer for TLC: timestamps and sequence numbers from *)
(* small ranges, combined freely, so that a tape may repeat a line, tie on *)
(* a timestamp, or contradict its own sequence order.                      *)
(***************************************************************************)
EXTENDS ReorderBuffer

CONSTANTS MaxTs, MaxSeq

MCEvent == [ts : 0 .. MaxTs, seq : 1 .. MaxSeq]
=============================================================================
