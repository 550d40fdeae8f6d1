--------------------------- MODULE TraceRequests ----------------------------
(* Trace, signal and fault requests against a splice table that other users *)
(* edit meanwhile.  A request first collects the fibers it starts from and  *)
(* then traces them one query after the other; there is no transaction, so  *)
(* each query sees the table of its own moment.                             *)
EXTENDS SignalFlow

CONSTANTS
    Tables,      \* the splice tables a behaviour may begin with
    MaxBroken,   \* bound on the fibers with a status
    MaxEdits     \* bound on the edits made while one request runs

ASSUME TablesAssumption == Tables \subseteq Table /\ {MaxBroken, MaxEdits} \subseteq Nat

VARIABLES
    splice,      \* the table fiber_splice
    status,      \* the fibers whose fiber_status is set: broken or defective
    req,         \* the request in progress
    edits        \* the edits made since the request in progress began

vars == <<splice, status, req, edits>>

(* The kinds of request and the fibers each begins with. *)
Kinds == {"fiber", "cable", "node", "address", "unit", "fault"}
Targets(kind) ==
    CASE kind = "fiber" -> Fibers
      [] kind = "cable" -> Cables
      [] kind = "node" -> Nodes
      [] kind = "address" -> Addresses
      [] kind = "unit" -> Units
      [] kind = "fault" -> Trenches

StartFibers(kind, x) ==
    CASE kind = "fiber" -> {x}
      [] kind = "cable" -> FibersOfCable(x)
      [] kind = "node" -> StartOfNode(splice, x)
      [] kind = "address" -> StartOfAddress(splice, x)
      [] kind = "unit" -> StartOfUnit(splice, x)
      [] kind = "fault" -> BrokenBy(x)

(* A cable and a fault trace every fiber; the others skip what an earlier  *)
(* trace of the request has passed through.                                *)
SkipsSeen(kind) == kind \in {"node", "address", "unit"}

Idle == [kind |-> "none", of |-> None, asked |-> {}, todo |-> {},
         seen |-> {}, traces |-> {}]

Paths == Seq([fiber : Fibers, splice : Splices \cup {None}])
Trace == [root : Fibers, splice : Table,
          levels : [0..MaxDepth -> SUBSET Paths]]
Request == [kind : Kinds \cup {"none"},
            of : (UNION {Targets(kind) : kind \in Kinds}) \cup {None},
            asked : SUBSET Fibers, todo : SUBSET Fibers, seen : SUBSET Fibers,
            traces : SUBSET Trace]

Init ==
    /\ splice \in Tables
    /\ status \in {B \in SUBSET Fibers : Cardinality(B) <= MaxBroken}
    /\ req = Idle
    /\ edits = 0

Ask(kind, x) ==
    /\ req.kind = "none"
    /\ req' = [Idle EXCEPT !.kind = kind, !.of = x,
                           !.asked = StartFibers(kind, x),
                           !.todo = StartFibers(kind, x)]
    /\ edits' = 0
    /\ UNCHANGED <<splice, status>>

Skip(f) ==
    /\ f \in req.todo
    /\ SkipsSeen(req.kind)
    /\ f \in req.seen
    /\ req' = [req EXCEPT !.todo = @ \ {f}]
    /\ UNCHANGED <<splice, status, edits>>

TraceNext_NoneSeen(f) ==
    /\ f \in req.todo
    /\ ~(SkipsSeen(req.kind) /\ f \in req.seen)
    /\ LET levels == Levels(splice, f)
       IN  req' = [req EXCEPT
                     !.todo = @ \ {f},
                     !.traces = @ \cup {[root |-> f, splice |-> splice,
                                         levels |-> levels]},
                     !.seen = @]
    /\ UNCHANGED <<splice, status, edits>>

TraceNext_CableSeen(f) ==
    /\ f \in req.todo
    /\ ~(SkipsSeen(req.kind) /\ f \in req.seen)
    /\ LET levels == Levels(splice, f)
       IN  req' = [req EXCEPT
                     !.todo = @ \ {f},
                     !.traces = @ \cup {[root |-> f, splice |-> splice,
                                         levels |-> levels]},
                     !.seen = @ \cup FibersOfCable(CableOf[f])]
    /\ UNCHANGED <<splice, status, edits>>

TraceNext(f) ==
    /\ f \in req.todo
    /\ ~(SkipsSeen(req.kind) /\ f \in req.seen)
    /\ LET levels == Levels(splice, f)
       IN  req' = [req EXCEPT
                     !.todo = @ \ {f},
                     !.traces = @ \cup {[root |-> f, splice |-> splice,
                                         levels |-> levels]},
                     !.seen = @ \cup TracedFibers(levels)]
    /\ UNCHANGED <<splice, status, edits>>

Answer ==
    /\ req.kind # "none"
    /\ req.todo = {}
    /\ req' = Idle
    /\ UNCHANGED <<splice, status, edits>>

(* Another user clears a row while the request runs; a row cleared before *)
(* it began is another table of Tables.                                    *)
ClearRow(s) ==
    /\ req.kind # "none"
    /\ edits < MaxEdits
    /\ splice[s] # None
    /\ splice' = [splice EXCEPT ![s] = None]
    /\ edits' = edits + 1
    /\ UNCHANGED <<status, req>>

Next ==
    \/ \E kind \in Kinds : \E x \in Targets(kind) : Ask(kind, x)
    \/ \E f \in req.todo : Skip(f) \/ TraceNext(f)
    \/ Answer
    \/ \E s \in Splices : ClearRow(s)

Spec == Init /\ [][Next]_vars
-----------------------------------------------------------------------------
TypeOK ==
    /\ splice \in Table
    /\ status \subseteq Fibers
    /\ req \in Request
    /\ edits \in 0..MaxEdits

Answered == req.kind # "none" /\ req.todo = {}

(* A side of a row names one fiber: the one of the port or the shared one. *)
OneFiberPerSide(tab) ==
    \A s \in RowsOf(tab) :
        \A side \in {tab[s].a, tab[s].b} : None \in {side.fiber, side.shared}

(* Two fibers are joined by a row that has one on each side. *)
JoinedTo(tab, f) ==
    {g \in Fibers : \E s \in RowsOf(tab) :
        {f, g} = {FiberAt(tab[s].a), FiberAt(tab[s].b)}}

(* The fibers connected with f: the smallest set with f that no join leaves. *)
Connected(tab, f) ==
    LET closed == {C \in SUBSET Fibers :
                     f \in C /\ \A g \in C : JoinedTo(tab, g) \subseteq C}
    IN  {g \in Fibers : \A C \in closed : g \in C}

(* A trace reaches exactly the fibers connected with the one it starts     *)
(* from, through loops, splitters and shared fibers: services.py 1730-2021.*)
TraceReachesConnected ==
    \A t \in req.traces :
        OneFiberPerSide(t.splice) =>
            TracedFibers(t.levels) = Connected(t.splice, t.root)

(* Every fiber the request collected is in one of its traces when it       *)
(* answers, whatever is edited meanwhile; and although one fiber is        *)
(* collected per splice row, with no edit in between a node trace shows    *)
(* every fiber spliced at the node, and a unit trace the unit itself:      *)
(* services.py 2126-2207 and 2362-2420.                                    *)
EveryFiberTraced ==
    Answered =>
        LET shown == UNION {TracedFibers(t.levels) : t \in req.traces}
            spliced == CASE req.kind = "node" -> SplicesAtNode(splice, req.of)
                         [] req.kind = "unit" -> SplicesOfUnit(splice, req.of)
                         [] OTHER -> {}
        IN  /\ req.asked \subseteq shown
            /\ edits = 0 /\ OneFiberPerSide(splice) =>
                 \A s \in spliced : FibersIn(splice[s]) \subseteq shown

(* The totals of a node, address or unit are sums over its traces: with no *)
(* edit in between they count no fiber twice.                              *)
TotalsCountOnce ==
    Answered /\ edits = 0 /\ SkipsSeen(req.kind) /\ OneFiberPerSide(splice) =>
        MapThenSumSet(LAMBDA t : Statistics(t.splice, t.levels).total_fibers,
                      req.traces)
          = Cardinality(UNION {TracedFibers(t.levels) : t \in req.traces})

(* What really lies behind a break: every path of the query to the fiber   *)
(* passes a broken one before it.                                          *)
Behind(t, g) ==
    /\ g \in TracedFibers(t.levels)
    /\ \A p \in RowsAt(t.levels) :
         Last(p).fiber = g =>
            \E i \in 1..(Len(p) - 1) : p[i].fiber \in status

ShownDark(t) ==
    {FiberOf(n) : n \in NodesInState(t.levels, status, {"dark"})}

(* Nothing behind a break is ever left out of what is shown dark, and      *)
(* without branches the analysis is exact, its count included.  With       *)
(* branches the tree has nodes that are no path of the query, and more is  *)
(* shown dark.  analyze_signal_flow, services.py 3738-3973.                *)
DarkLiesBehindTheBreak ==
    \A t \in req.traces :
        LET behind == {g \in Fibers : Behind(t, g)}
        IN  /\ behind \subseteq ShownDark(t)
            /\ ~HasBranches(t.levels) =>
                 /\ ShownDark(t) = behind
                 /\ Summary(t.splice, t.levels, status).dark_fibers
                      = Cardinality(behind)

(* A simulated fault reports every unit connected with a fiber of the       *)
(* damaged cables, every address of a splice between such fibers and no     *)
(* others, and where nothing branches it counts each fiber once per trace:  *)
(* simulate_fault, services.py 3976-4256.                                   *)
FaultReportsConnected ==
    Answered /\ req.kind = "fault" /\ edits = 0 /\ OneFiberPerSide(splice) =>
        LET broken == BrokenBy(req.of)
            hit == UNION {Connected(splice, f) : f \in broken}
            units == UNION {UnitsOf(splice, f) : f \in hit}
            spliced == {s \in RowsOf(splice) :
                          \E f, g \in hit : f # g /\ FibersIn(splice[s]) = {f, g}}
        IN  /\ UNION {UnitsHit(t.splice, t.levels, broken) : t \in req.traces}
                 = units
            /\ UNION {AddressesHit(t.splice, t.levels, broken) : t \in req.traces}
                 = {AddressOf[x] : x \in units \cup {NodeOf[s] : s \in spliced}}
                       \ {None}
            /\ \A t \in req.traces :
                 ~HasBranches(t.levels) =>
                    DarkCount(t.splice, t.levels, broken)
                      = Cardinality(Connected(splice, t.root))

(* On a line of cables spliced where they meet, the summary names the two  *)
(* nodes at which only one cable of the line ends; a line of k cables has  *)
(* k - 1 splice nodes and k + 1 nodes, a ring has no ends to name:         *)
(* trace_fiber_summary, services.py 3549-3646.                             *)
CablesAt(t, n) ==
    {c \in TracedCables(t.levels) : n \in {EndsOf[c].start, EndsOf[c].end}}
EndsOfLine(t) == {n \in Nodes : Cardinality(CablesAt(t, n)) = 1}
SplicedWhereCablesMeet(t) ==
    \A n \in SpliceNodes(t.levels) : Cardinality(CablesAt(t, n)) = 2

SummaryNamesTheEnds ==
    \A t \in req.traces :
        LET cables == Cardinality(TracedCables(t.levels))
        IN  ( /\ SplicedWhereCablesMeet(t)
              /\ Cardinality(SpliceNodes(t.levels)) = cables - 1
              /\ Cardinality(EndNodes(t.levels)) = cables + 1 )
            => /\ SummaryEnds(t.levels) = EndsOfLine(t)
               /\ Cardinality(EndsOfLine(t)) = 2

(* A fiber shown lit receives the signal: no break lies between it and a   *)
(* cable that ends at the chosen source ("lit: Fiber is receiving signal   *)
(* from source", services.py 3886).                                        *)
Carries(t, n) ==
    {f \in TracedFibers(t.levels) \ status :
        n \in {EndsOf[CableOf[f]].start, EndsOf[CableOf[f]].end}}
LitReceivesSignal ==
    \A t \in req.traces :
        \A asked \in Nodes : \A source \in SourcesChosen(t.levels, asked) :
            \A node \in NodesInState(t.levels, status, {"lit"}) :
                \E f \in Carries(t, source) :
                    \E p \in RowsAt(Levels(t.splice, f)) :
                        /\ Last(p).fiber = FiberOf(node)
                        /\ Visited(p) \cap status = {}
=============================================================================
