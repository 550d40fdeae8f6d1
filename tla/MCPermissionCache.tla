------------------------- MODULE MCPermissionCache -------------------------
(* A small instance of PermissionCache: two users, two groups, two workers *)
(* and two levels, none and view.                                          *)
EXTENDS PermissionCache, TLC

Symmetry == Permutations(Users) \cup Permutations(Groups) \cup Permutations(Workers)
=============================================================================
