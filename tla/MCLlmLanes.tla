----------------------------- MODULE MCLlmLanes -----------------------------
(* TLC instances of LlmLanes.                                               *)
EXTENDS LlmLanes, TLC

ProcSymmetry == Permutations(Briefs) \cup Permutations(Skills)
=============================================================================
