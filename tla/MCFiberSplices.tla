--------------------------- MODULE MCFiberSplices ---------------------------
(* Instances of FiberSplices for TLC. *)
EXTENDS FiberSplices, TLC

CONSTANTS f1, f2, c1, c2, g1, g2

OneCableEach == f1 :> c1 @@ f2 :> c2
OneFiber == f1 :> c1
Swap(x, y) == x :> y @@ y :> x
Same == [x \in {f1, f2, c1, c2} |-> x]

(* Groups permute freely, a fiber only together with its cable. *)
Symmetry ==
    {p @@ q : p \in {Same, Swap(f1, f2) @@ Swap(c1, c2)},
              q \in Permutations({g1, g2})}
=============================================================================
