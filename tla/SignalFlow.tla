----------------------------- MODULE SignalFlow -----------------------------
(* What a trace says about the signal (services.analyze_signal_flow) and    *)
(* what damage to a trench cuts off (services.simulate_fault).              *)
EXTENDS FiberTrace

(***************************************************************************)
(* The state of a node of the tree.  The walk starts at the root with      *)
(* "lit": the source node that was asked for changes nothing.              *)
(***************************************************************************)
FiberOf(n) == Last(Last(n)).fiber
Above_ParentOnly(n) == {Last(n[i]).fiber : i \in {Len(n) - 1} \ {0}}
Above(n) == {Last(n[i]).fiber : i \in 1..(Len(n) - 1)}

SignalState(n, broken) ==
    IF Above(n) \cap broken # {} THEN "dark"
    ELSE IF FiberOf(n) \in broken THEN "break_point"
    ELSE "lit"

NodesInState(levels, broken, states) ==
    {n \in TreeNodes(levels) : SignalState(n, broken) \in states}

(* The node and the address of the splice that led to a node of the tree;  *)
(* the root has none.                                                      *)
SpliceNodeOf(n) ==
    LET s == Last(Last(n)).splice IN IF s = None THEN None ELSE NodeOf[s]
AddressesAt(N) ==
    {AddressOf[m] : m \in {SpliceNodeOf(n) : n \in N} \ {None}} \ {None}
UnitsAt(tab, N) == UNION {UnitsOf(tab, FiberOf(n)) : n \in N}

(* _collect_affected_summary counts nodes of the tree, so a fiber that has *)
(* two nodes counts twice; the fiber of the break is not "affected" here.  *)
Summary(tab, levels, broken) ==
    LET dark == NodesInState(levels, broken, {"dark"})
        spliced(N) == {n \in N : SpliceNodeOf(n) # None}
    IN  [lit_fibers |-> Cardinality(NodesInState(levels, broken, {"lit"})),
         dark_fibers |-> Cardinality(dark),
         break_fibers |->
            Cardinality(NodesInState(levels, broken, {"break_point"})),
         lit_nodes |-> Cardinality(spliced(TreeNodes(levels) \ dark)),
         dark_nodes |-> Cardinality(spliced(dark)),
         affected_addresses |-> Cardinality(AddressesAt(dark)),
         affected_residential_units |-> Cardinality(UnitsAt(tab, dark))]

(* Both ends of the cables of the trace can be chosen as the source; an    *)
(* unknown choice falls back to the start of the cable of the root, then   *)
(* to any of them.                                                         *)
Sources(levels) == EndNodes(levels)
SourcesChosen(levels, asked) ==
    LET root == (CHOOSE p \in levels[0] : TRUE)[1].fiber
        start == EndsOf[CableOf[root]].start
    IN  IF asked \in Sources(levels) THEN {asked}
        ELSE IF start \in Sources(levels) THEN {start}
        ELSE Sources(levels)

(***************************************************************************)
(* Fault simulation: the fibers of every cable whose conduits lie in the   *)
(* damaged trench are broken; each of them is traced from itself, and the  *)
(* nodes that are dark or broken give what is affected.                    *)
(***************************************************************************)
CablesIn(t) == {c \in Cables : t \in TrenchesOf[c]}
BrokenBy(t) == UNION {FibersOfCable(c) : c \in CablesIn(t)}

HitNodes_DarkOnly(levels, broken) == NodesInState(levels, broken, {"dark"})
HitNodes(levels, broken) ==
    NodesInState(levels, broken, {"dark", "break_point"})

UnitsHit(tab, levels, broken) == UnitsAt(tab, HitNodes(levels, broken))
AddressesHit(tab, levels, broken) ==
    AddressesAt(HitNodes(levels, broken))
        \cup ({AddressOf[u] : u \in UnitsHit(tab, levels, broken)} \ {None})

DarkCount(tab, levels, broken) ==
    LET s == Summary(tab, levels, broken) IN s.dark_fibers + s.break_fibers
=============================================================================
