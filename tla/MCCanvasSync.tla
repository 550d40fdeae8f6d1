---------------------------- MODULE MCCanvasSync ----------------------------
(* Instances of CanvasSync for TLC. *)
EXTENDS CanvasSync, TLC

Symmetry == Permutations(Workers) \cup Permutations(Nodes)
=============================================================================
