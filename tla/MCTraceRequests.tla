-------------------------- MODULE MCTraceRequests ---------------------------
(* Four fibers in three cables on a line of nodes n1 - n2 - n3 - n4, three   *)
(* splice rows, the last one at a node away from the line.                   *)
EXTENDS TraceRequests, TLC

CONSTANTS f1, f2, f3, f4, c1, c2, c3, s1, s2, s3, n1, n2, n3, n4, u1, a1, a2,
          t1, t2

FourFibers == f1 :> c1 @@ f2 :> c2 @@ f3 :> c2 @@ f4 :> c3
SpliceNode == s1 :> n2 @@ s2 :> n3 @@ s3 :> n3
Line == c1 :> [start |-> n1, end |-> n2]
     @@ c2 :> [start |-> n2, end |-> n3]
     @@ c3 :> [start |-> n4, end |-> n3]
AddressBook == n1 :> None @@ n2 :> None @@ n3 :> a1 @@ n4 :> None @@ u1 :> a2
Trenched == c1 :> {t1} @@ c2 :> {t1, t2} @@ c3 :> {}

S(f, g, u) == [fiber |-> f, shared |-> g, unit |-> u]
Port(f) == S(f, None, None)
Group(f) == S(None, f, None)
Free == S(None, None, None)

(* s1 at n2, where c1 and c2 meet; s2 and s3 at n3.  A side may hold a     *)
(* port's fiber, a group's shared fiber, both, a unit or nothing.          *)
Rows1 == {None, [a |-> Port(f1), b |-> Port(f2)], [a |-> Port(f1), b |-> Port(f3)],
          [a |-> Group(f1), b |-> Port(f2)], [a |-> S(f1, f4, None), b |-> Port(f2)],
          [a |-> Port(f2), b |-> Free]}
Rows2 == {None, [a |-> Port(f2), b |-> Port(f4)], [a |-> Group(f1), b |-> Port(f3)],
          [a |-> Port(f3), b |-> Port(f2)]}
Rows3 == {None, [a |-> Port(f3), b |-> S(None, None, u1)],
          [a |-> Port(f3), b |-> Group(f4)], [a |-> Group(f1), b |-> Port(f4)],
          [a |-> S(None, None, u1), b |-> Port(f4)]}
SmallTables ==
    {s1 :> x @@ s2 :> y @@ s3 :> z : x \in Rows1, y \in Rows2, z \in Rows3}
=============================================================================
