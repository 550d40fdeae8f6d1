-------------------------- MODULE MCFeatureFolders --------------------------
(* Instances of FeatureFolders for TLC. *)
EXTENDS FeatureFolders, TLC

(* Names without a character that sanitize_filename removes. *)
Plain == [n \in Names |-> n]

Symmetry == Permutations(Features) \cup Permutations(Names)
            \cup Permutations(Files) \cup Permutations(Bases)
=============================================================================
