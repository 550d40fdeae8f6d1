---------------------------- MODULE MCCableLinks ----------------------------
(* A small instance of CableLinks: two ducts in two conduits, two trenches *)
(* and a cable with both ends at one address, and a node without address   *)
(* that an end may be moved to.                                            *)
EXTENDS CableLinks, TLC

CONSTANTS c1, d1, d2, k1, k2, t1, t2, n1, n2, a1, r1, r2

MCConduitOf == d1 :> k1 @@ d2 :> k2
MCTrenchLength == t1 :> 3 @@ t2 :> 5
MCAddressOf == n1 :> a1 @@ n2 :> None
MCEndsAtFirst == [c \in Cables |-> [e \in Ends |-> n1]]
MCLaidAtFirst == {<<t1, k1>>, <<t1, k2>>, <<t2, k2>>}
MCLinkedAtFirst == {<<d1, c1>>}
\* Between the first ends the route needs both trenches and uses a part of
\* each; to the other node there is one through the first trench.
MCRouted ==
    [x \in EndNodes |-> [S \in SUBSET Trenches |->
        CASE x["start"] = n1 /\ x["end"] = n1 /\ S = {t1, t2} -> 6
          [] x["start"] = n1 /\ x["end"] = n2 /\ t1 \in S -> 2
          [] OTHER -> 0]]
\* A PATCH that sends nothing, and one for each column.
Unsent == [reserve |-> None, length |-> None, total |-> None, ends |-> [e \in Ends |-> None]]
MCPatches ==
    {[Unsent EXCEPT !.reserve = 1], [Unsent EXCEPT !.length = 4], [Unsent EXCEPT !.total = 9],
     [Unsent EXCEPT !.ends["end"] = n2]}
Symmetry == Permutations({r1, r2})
=============================================================================
