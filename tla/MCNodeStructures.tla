-------------------------- MODULE MCNodeStructures --------------------------
(* A small instance of NodeStructures: two configurations of three slots,  *)
(* a structure in the first; two more to create there, one in the second.  *)
EXTENDS NodeStructures, TLC

CONSTANTS i1, i2, i3, i4, ka, kb, u1, u2, o1, o2

MCConfigOf == [i \in Ids |-> IF i = i4 THEN kb ELSE ka]
MCRowsAtFirst == [i \in Ids |-> IF i = i1 THEN <<1, 1>> ELSE None]
Symmetry == Permutations(Users) \cup Permutations({o1, o2})
=============================================================================
