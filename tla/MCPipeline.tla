----------------------------- MODULE MCPipeline -----------------------------
(***************************************************************************)
(* Instance of Pipeline for TLC: a detector that judges at once, as the    *)
(* wash test does, and one that waits, as the other three do.              *)
(***************************************************************************)
EXTENDS Pipeline, TLC

CONSTANTS MaxTs, MaxSeq, Eids, Symbols, Wait, Pause

MCEvent == [ts : 1 .. MaxTs, seq : 1 .. MaxSeq, eid : Eids, sym : Symbols]
EidSymmetry == Permutations(Eids)

MCDetector == {"wash", "spoofing"}
MCDelay == [d \in MCDetector |-> IF d = "wash" THEN 0 ELSE Wait]
MCCooldown == [d \in MCDetector |-> IF d = "wash" THEN Pause ELSE 0]
=============================================================================
