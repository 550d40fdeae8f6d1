----------------------------- MODULE FiberTrace -----------------------------
(* Tracing one fiber through the splice table (services.trace_fiber), the   *)
(* tree built from the rows of the recursive query (_build_trace_result),   *)
(* the summary of a trace and the fibers that a cable, a node, an address   *)
(* or a residential unit is traced from.  Pure operators: every one takes   *)
(* the table as it was when the query ran.                                  *)
EXTENDS Naturals, Sequences, FiniteSets, FiniteSetsExt

CONSTANTS
    Fibers, Cables, Splices, Nodes, Units, Addresses, Trenches,
    None,        \* SQL NULL
    MaxDepth,    \* the cap "ft.depth < 100" of the recursive query
    CableOf,     \* fiber  |-> its cable
    NodeOf,      \* splice |-> node of the structure the splice row sits in
    EndsOf,      \* cable  |-> [start, end], nodes or None
    AddressOf,   \* node or unit |-> address or None
    TrenchesOf   \* cable  |-> trenches of the conduits of its microducts

ASSUME ConstantsAssumption ==
    /\ MaxDepth \in Nat
    /\ IsFiniteSet(Fibers) /\ IsFiniteSet(Splices)
    /\ None \notin Fibers \cup Splices \cup Nodes \cup Units \cup Addresses
    /\ CableOf \in [Fibers -> Cables]
    /\ NodeOf \in [Splices -> Nodes]
    /\ EndsOf \in [Cables -> [start : Nodes \cup {None}, end : Nodes \cup {None}]]
    /\ AddressOf \in [Nodes \cup Units -> Addresses \cup {None}]
    /\ TrenchesOf \in [Cables -> SUBSET Trenches]

(***************************************************************************)
(* The table.  A row joins side a and side b; each side has the fiber of   *)
(* the port, the fiber shared by its merge group and a residential unit.   *)
(***************************************************************************)
Side == [fiber : Fibers \cup {None}, shared : Fibers \cup {None},
         unit : Units \cup {None}]
Row == [a : Side, b : Side]
Table == [Splices -> Row \cup {None}]

ASSUME NoneAssumption == None \notin Row

RowsOf(tab) == {s \in Splices : tab[s] # None}
Coalesce(x, y) == IF x # None THEN x ELSE y
FiberAt(side) == Coalesce(side.fiber, side.shared)
FibersIn(row) ==
    {row.a.fiber, row.a.shared, row.b.fiber, row.b.shared} \ {None}

(* The CASE of the query: fiber_a, fiber_b, shared_fiber_a, shared_fiber_b. *)
OnSideA_PortOnly(row, f) == row.a.fiber = f
OnSideA(row, f) ==
    \/ row.a.fiber = f
    \/ row.b.fiber # f /\ row.a.shared = f
Across(row, f) == FiberAt(IF OnSideA(row, f) THEN row.b ELSE row.a)

(* The units on the other side of the splices of f. *)
UnitsOf(tab, f) ==
    {IF f \in {tab[s].a.fiber, tab[s].a.shared}
        THEN tab[s].b.unit ELSE tab[s].a.unit :
        s \in {t \in RowsOf(tab) : f \in FibersIn(tab[t])}} \ {None}

(***************************************************************************)
(* The recursive query.  A row of its result is the path that led to it,   *)
(* a sequence of [fiber, splice]; "visited" is the fibers of the path, so  *)
(* a fiber that two paths reach has two rows.                              *)
(***************************************************************************)
Last(p) == p[Len(p)]
Visited(p) == {p[i].fiber : i \in 1..Len(p)}

Hops(tab, f) ==
    {[fiber |-> Across(tab[s], f), splice |-> s] :
        s \in {t \in RowsOf(tab) : f \in FibersIn(tab[t])}}

Extend_NullFiber(tab, p) ==
    {Append(p, h) : h \in {x \in Hops(tab, Last(p).fiber) :
                              x.fiber \notin Visited(p)}}
Extend(tab, p) ==
    {Append(p, h) : h \in {x \in Hops(tab, Last(p).fiber) :
                              /\ x.fiber # None
                              /\ x.fiber \notin Visited(p)}}

(* Levels(tab, f)[d]: the rows of depth d of the trace from f. *)
Levels(tab, f) ==
    LET level[d \in 0..MaxDepth] ==
          IF d = 0 THEN {<<[fiber |-> f, splice |-> None]>>}
                   ELSE UNION {Extend(tab, p) : p \in level[d - 1]}
    IN  level

RowsAt(levels) == UNION {levels[d] : d \in 0..MaxDepth}
TracedFibers(levels) == {Last(p).fiber : p \in RowsAt(levels)}
TracedSplices(levels) == {Last(p).splice : p \in RowsAt(levels)} \ {None}
TracedCables(levels) == {CableOf[f] : f \in TracedFibers(levels)}
SpliceNodes(levels) == {NodeOf[s] : s \in TracedSplices(levels)}
EndNodes(levels) ==
    (UNION {{EndsOf[c].start, EndsOf[c].end} : c \in TracedCables(levels)})
        \ {None}

(***************************************************************************)
(* The tree.  build_children(parent, d) gives every parent of depth d - 1  *)
(* ALL the rows of depth d, so a node of the tree is the choice of one row *)
(* per depth down to its own: the sequence of these rows.                  *)
(***************************************************************************)
TreeNodes(levels) ==
    LET nodes[d \in 0..MaxDepth] ==
          IF d = 0 THEN {<<p>> : p \in levels[0]}
                   ELSE {Append(n, p) : n \in nodes[d - 1], p \in levels[d]}
    IN  UNION {nodes[d] : d \in 0..MaxDepth}

HasBranches(levels) == \E d \in 1..MaxDepth : Cardinality(levels[d]) > 1

(* "statistics" of _build_trace_result. *)
TracedUnits(tab, levels) ==
    UNION {UnitsOf(tab, f) : f \in TracedFibers(levels)}
TracedAddresses(tab, levels) ==
    {AddressOf[x] : x \in SpliceNodes(levels) \cup EndNodes(levels)
                            \cup TracedUnits(tab, levels)} \ {None}
TrenchCount(levels) ==
    MapThenSumSet(LAMBDA c : Cardinality(TrenchesOf[c]), TracedCables(levels))
Statistics(tab, levels) ==
    [total_fibers |-> Cardinality(TracedFibers(levels)),
     total_nodes |-> Cardinality(SpliceNodes(levels) \cup EndNodes(levels)),
     total_splices |-> Cardinality(TracedSplices(levels)),
     total_addresses |-> Cardinality(TracedAddresses(tab, levels)),
     total_residential_units |-> Cardinality(TracedUnits(tab, levels)),
     total_cables |-> Cardinality(TracedCables(levels)),
     total_trenches |-> TrenchCount(levels),
     has_branches |-> HasBranches(levels)]

(***************************************************************************)
(* trace_fiber_summary: the ends of the cables that no splice of the tree  *)
(* sits at; when there is none, both ends of the cable of the root.        *)
(***************************************************************************)
TerminalNodes_AllEnds(levels) == EndNodes(levels)
TerminalNodes(levels) == EndNodes(levels) \ SpliceNodes(levels)

SummaryEnds(levels) ==
    LET root == (CHOOSE p \in levels[0] : TRUE)[1].fiber
    IN  IF TerminalNodes(levels) # {}
          THEN TerminalNodes(levels)
          ELSE {EndsOf[CableOf[root]].start, EndsOf[CableOf[root]].end}
                  \ {None}

(***************************************************************************)
(* The fibers a trace starts from, by what is traced.  Of a splice row the *)
(* query takes one fiber, the first of the four columns that is set.       *)
(***************************************************************************)
FirstFiber(row) == Coalesce(FiberAt(row.a), FiberAt(row.b))

FibersOfCable(c) == {f \in Fibers : CableOf[f] = c}
SplicesAtNode(tab, n) == {s \in RowsOf(tab) : NodeOf[s] = n}
SplicesOfUnit(tab, u) == {s \in RowsOf(tab) : u \in {tab[s].a.unit, tab[s].b.unit}}
FirstFibers(tab, S) == {FirstFiber(tab[s]) : s \in S} \ {None}

StartOfNode(tab, n) ==
    FirstFibers(tab, SplicesAtNode(tab, n))
        \cup UNION {FibersOfCable(c) :
                      c \in {d \in Cables : n \in {EndsOf[d].start, EndsOf[d].end}}}

StartOfUnit(tab, u) == FirstFibers(tab, SplicesOfUnit(tab, u))

StartOfAddress(tab, x) ==
    (UNION {FirstFibers(tab, SplicesAtNode(tab, n)) :
              n \in {m \in Nodes : AddressOf[m] = x}})
        \cup UNION {StartOfUnit(tab, u) : u \in {v \in Units : AddressOf[v] = x}}
=============================================================================
