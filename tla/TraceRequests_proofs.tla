------------------------ MODULE TraceRequests_proofs -------------------------
(* Proofs about traces: what the recursive query reaches, what the tree     *)
(* built from its rows shows, and what the totals, the signal analysis, the *)
(* fault simulation and the summary report from it.                         *)
(*                                                                          *)
(* The query, the tree and the sums are recursive functions.  What they     *)
(* compute is shown by induction on the depth: the numbers that miss a      *)
(* property would have a least one (LeastNumber, SetInduction).  Levels     *)
(* holds the simple paths of LevelsAreSimplePaths; TracedIsAllConnected     *)
(* says that they lead everywhere when no chain is longer than MaxDepth.    *)
(* The request's invariants are TraceInv (every trace is the query's answer *)
(* and accounts for what was collected), ChainInv (chains stay short) and   *)
(* TotalInv (traces of a kind that skips are separate).                     *)
EXTENDS TraceRequests, FiniteSetTheorems, FunctionTheorems, SequenceTheorems,
        TLAPS
-----------------------------------------------------------------------------
(* A non-empty set of numbers has a least one. *)
LEMMA LeastNumber ==
    ASSUME NEW T \in SUBSET Nat, T # {} PROVE \E n \in T : \A m \in T : n <= m
<1> DEFINE R == OpToRel(<, Nat)
<1>1. \A x, y \in Nat : x < y => <<x, y>> \in R
    BY DEF OpToRel
<1>2. IsWellFoundedOn(R, Nat)
    BY NatLessThanWellFounded
<1> HIDE DEF R
<1>3. PICK n \in T : \A m \in T : ~(<<m, n>> \in R)
    BY <1>2, WFMin
<1>4. ASSUME NEW m \in T PROVE n <= m
    <2>1. n \in Nat /\ m \in Nat /\ ~(<<m, n>> \in R)
        BY <1>3
    <2>2. ~(m < n)
        BY <1>1, <2>1
    <2> QED BY <2>1, <2>2
<1> QED BY <1>4

(* What holds at first and goes from each number to the next holds of all. *)
LEMMA SetInduction ==
    ASSUME NEW S, 0 \in S, \A n \in Nat : n \in S => n + 1 \in S
    PROVE  Nat \subseteq S
<1> SUFFICES ASSUME Nat \ S # {} PROVE FALSE
    OBVIOUS
<1>1. PICK n \in Nat \ S : \A m \in Nat \ S : n <= m
    BY LeastNumber
<1>2. n # 0 /\ n - 1 \in Nat /\ n - 1 \in S
    BY <1>1
<1> QED BY <1>1, <1>2

(* One row further on every path. *)
Further(tab, S) == UNION {Extend(tab, p) : p \in S}
RootRow(f) == <<[fiber |-> f, splice |-> None]>>

(* The levels of a trace are what the recursive query says.  *)
LEMMA LevelsEquation ==
    ASSUME NEW tab, NEW f
    PROVE  Levels(tab, f) = [d \in 0 .. MaxDepth |->
               IF d = 0 THEN {RootRow(f)} ELSE Further(tab, Levels(tab, f)[d - 1])]
<1> DEFINE IsUpTo(g, n) ==
        g = [d \in 0 .. n |-> IF d = 0 THEN {RootRow(f)} ELSE Further(tab, g[d - 1])]
<1> DEFINE S == {n \in Nat : \E g : IsUpTo(g, n)}
<1>1. 0 \in S
    <2> DEFINE h == [d \in 0 .. 0 |-> {RootRow(f)}]
    <2>1. h = [d \in 0 .. 0 |-> IF d = 0 THEN {RootRow(f)} ELSE Further(tab, h[d - 1])]
        OBVIOUS
    <2> QED BY <2>1
<1>2. ASSUME NEW n \in Nat, n \in S PROVE n + 1 \in S
    <2>1. PICK g : IsUpTo(g, n)
        BY <1>2
    <2> DEFINE h == [d \in 0 .. n + 1 |-> IF d <= n THEN g[d] ELSE Further(tab, g[n])]
    <2>2. ASSUME NEW d \in 0 .. n + 1
          PROVE  h[d] = IF d = 0 THEN {RootRow(f)} ELSE Further(tab, h[d - 1])
        <3>1. CASE d = 0
            BY <2>1, <3>1
        <3>2. CASE d # 0 /\ d <= n
            <4>1. d - 1 \in 0 .. n /\ d \in 0 .. n /\ h[d] = g[d] /\ h[d - 1] = g[d - 1]
                BY <3>2
            <4>2. g[d] = Further(tab, g[d - 1])
                BY <2>1, <3>2, <4>1
            <4> QED BY <3>2, <4>1, <4>2
        <3>3. CASE d = n + 1
            <4>1. h[d - 1] = g[n] /\ h[d] = Further(tab, g[n])
                BY <3>3
            <4> QED BY <3>3, <4>1
        <3> QED BY <3>1, <3>2, <3>3
    <2>3. h = [d \in 0 .. n + 1 |-> h[d]]
        OBVIOUS
    <2> HIDE DEF h
    <2>4. IsUpTo(h, n + 1)
        BY <2>2, <2>3
    <2> QED BY <2>4
<1>3. MaxDepth \in S
    <2>1. Nat \subseteq S
        <3> HIDE DEF S
        <3> QED BY <1>1, <1>2, SetInduction
    <2> QED BY <2>1, ConstantsAssumption
<1>4. Levels(tab, f) = CHOOSE g : IsUpTo(g, MaxDepth)
    BY DEF Levels, Further, RootRow
<1>5. PICK g : IsUpTo(g, MaxDepth)
    BY <1>3
<1> HIDE DEF IsUpTo
<1>6. IsUpTo(Levels(tab, f), MaxDepth)
    BY <1>4, <1>5
<1> QED BY <1>6 DEF IsUpTo
-----------------------------------------------------------------------------
(* The rows of depth 0 are the root, those of each depth the extensions of *)
(* the rows of the depth before.                                           *)
LEMMA LevelsSteps ==
    ASSUME NEW tab, NEW f
    PROVE  /\ MaxDepth \in Nat /\ Levels(tab, f)[0] = {RootRow(f)}
           /\ \A d \in 0 .. MaxDepth : d # 0 =>
                  Levels(tab, f)[d] = Further(tab, Levels(tab, f)[d - 1])
           /\ DOMAIN Levels(tab, f) = 0 .. MaxDepth
<1> DEFINE L == Levels(tab, f)
<1>1. /\ MaxDepth \in Nat /\ L[0] = {RootRow(f)}
      /\ \A d \in 0 .. MaxDepth : d # 0 => L[d] = Further(tab, L[d - 1])
    BY LevelsEquation, ConstantsAssumption
<1> DEFINE E(d) == IF d = 0 THEN {RootRow(f)} ELSE Further(tab, L[d - 1])
<1>2. L = [d \in 0 .. MaxDepth |-> E(d)]
    BY LevelsEquation
<1> HIDE DEF L, E
<1>3. DOMAIN L = 0 .. MaxDepth
    BY <1>2
<1> QED BY <1>1, <1>3 DEF L

(* What holds of the root row and of every extension holds of all rows.    *)
LEMMA LevelsInduction ==
    ASSUME NEW tab, NEW f, NEW S, RootRow(f) \in S[0],
           \A d \in 0 .. MaxDepth : d < MaxDepth =>
               \A p \in Levels(tab, f)[d] : p \in S[d] => Extend(tab, p) \subseteq S[d + 1]
    PROVE  \A d \in 0 .. MaxDepth : Levels(tab, f)[d] \subseteq S[d]
<1> DEFINE L == Levels(tab, f)
           T == {n \in Nat : n <= MaxDepth => L[n] \subseteq S[n]}
<1>1. /\ MaxDepth \in Nat /\ L[0] = {RootRow(f)}
      /\ \A d \in 0 .. MaxDepth : d # 0 => L[d] = Further(tab, L[d - 1])
    BY LevelsSteps
<1> HIDE DEF L
<1>2. 0 \in T
    BY <1>1
<1>3. ASSUME NEW n \in Nat, n \in T PROVE n + 1 \in T
    <2> SUFFICES ASSUME n + 1 <= MaxDepth PROVE L[n + 1] \subseteq S[n + 1]
        OBVIOUS
    <2>1. /\ L[n + 1] = Further(tab, L[n]) /\ L[n] \subseteq S[n]
          /\ n \in 0 .. MaxDepth /\ n < MaxDepth
        BY <1>1, <1>3
    <2>2. \A p \in L[n] : Extend(tab, p) \subseteq S[n + 1]
        BY <2>1 DEF L
    <2> QED BY <2>1, <2>2 DEF Further
<1>4. Nat \subseteq T
    <2> HIDE DEF T
    <2> QED BY <1>2, <1>3, SetInduction
<1> QED BY <1>1, <1>4 DEF L

(* The first i rows of a path.                                             *)
Prefix(p, i) == [k \in 1 .. i |-> p[k]]
Step == [fiber : Fibers, splice : Splices \cup {None}]

(* Paths of d hops from f along rows of the table that meet no fiber twice *)
(* and whose beginnings are rows of the query too.                         *)
SimplePaths(tab, f, d) ==
    {p \in Paths :
        /\ Len(p) = d + 1
        /\ p[1] = [fiber |-> f, splice |-> None]
        /\ \A i, j \in 1 .. d + 1 : p[i].fiber = p[j].fiber => i = j
        /\ \A i \in 1 .. d : p[i + 1] \in Hops(tab, p[i].fiber)
        /\ \A i \in 1 .. d + 1 : Prefix(p, i) \in Levels(tab, f)[i - 1]}

(* What a path says of its rows.                                           *)
LEMMA PathFacts ==
    ASSUME NEW p \in Paths
    PROVE  /\ Len(p) \in Nat /\ p = [k \in 1 .. Len(p) |-> p[k]]
           /\ \A i \in 1 .. Len(p) : /\ p[i] \in Step /\ p[i].fiber \in Fibers
                                     /\ p[i].splice \in Splices \cup {None}
<1>1. p \in Seq(Step)
    BY DEF Paths, Step
<1>2. Len(p) \in Nat /\ p \in [1 .. Len(p) -> Step]
    BY <1>1, LenProperties
<1> QED BY <1>2 DEF Step

(* A fiber is across a row from another one.                               *)
LEMMA AcrossType ==
    ASSUME NEW tab \in Table, NEW s \in RowsOf(tab), NEW f
    PROVE  Across(tab[s], f) \in Fibers \cup {None}
<1>1. tab[s] \in Row
    BY DEF RowsOf, Table
<1>2. tab[s].a \in Side /\ tab[s].b \in Side
    BY <1>1 DEF Row
<1>3. FiberAt(tab[s].a) \in Fibers \cup {None} /\ FiberAt(tab[s].b) \in Fibers \cup {None}
    BY <1>2 DEF Side, FiberAt, Coalesce
<1> QED BY <1>3 DEF Across

(* A path with one more row.                                               *)
LEMMA Appended ==
    ASSUME NEW p \in Paths, NEW h \in Step
    PROVE  /\ Append(p, h) \in Paths /\ Len(Append(p, h)) = Len(p) + 1
           /\ \A i \in 1 .. Len(p) : Append(p, h)[i] = p[i]
           /\ Append(p, h)[Len(p) + 1] = h
           /\ \A i \in 1 .. Len(p) : Prefix(Append(p, h), i) = Prefix(p, i)
           /\ Prefix(Append(p, h), Len(p) + 1) = Append(p, h)
<1>1. /\ Append(p, h) \in Paths /\ Len(Append(p, h)) = Len(p) + 1
      /\ \A i \in 1 .. Len(p) : Append(p, h)[i] = p[i]
      /\ Append(p, h)[Len(p) + 1] = h
    BY DEF Paths, Step
<1>2. Len(p) \in Nat
    BY PathFacts
<1> DEFINE q == Append(p, h)
<1>3. q = [k \in 1 .. Len(p) + 1 |-> q[k]]
    BY <1>1, PathFacts
<1> HIDE DEF q
<1>4. \A i \in 1 .. Len(p) : Prefix(q, i) = Prefix(p, i)
    BY <1>1, <1>2 DEF Prefix, q
<1>5. Prefix(q, Len(p) + 1) = q
    BY <1>3 DEF Prefix
<1> QED BY <1>1, <1>4, <1>5 DEF q

(* The rows of depth d of the query are such paths: the query follows      *)
(* rows of the table and never meets a fiber twice.                        *)
LEMMA LevelsAreSimplePaths ==
    ASSUME NEW tab \in Table, NEW f \in Fibers
    PROVE  \A d \in 0 .. MaxDepth : Levels(tab, f)[d] \subseteq SimplePaths(tab, f, d)
<1> DEFINE S == [d \in 0 .. MaxDepth |-> SimplePaths(tab, f, d)]
           L == Levels(tab, f)
<1>1. /\ MaxDepth \in Nat /\ L[0] = {RootRow(f)}
      /\ \A d \in 0 .. MaxDepth : d # 0 => L[d] = Further(tab, L[d - 1])
    BY LevelsSteps
<1> HIDE DEF L
<1>2. RootRow(f) \in S[0]
    <2> DEFINE r == RootRow(f)
    <2>1. r \in Paths /\ Len(r) = 1 /\ r[1] = [fiber |-> f, splice |-> None]
        BY DEF RootRow, Paths
    <2> HIDE DEF r
    <2>2. Prefix(r, 1) = r
        BY <2>1, PathFacts DEF Prefix
    <2>3. r \in L[0]
        BY <1>1 DEF r
    <2>4. r \in SimplePaths(tab, f, 0)
        BY <2>1, <2>2, <2>3 DEF SimplePaths, L
    <2> QED BY <1>1, <2>4 DEF r
<1>3. ASSUME NEW d \in 0 .. MaxDepth, d < MaxDepth, NEW p \in L[d], p \in S[d],
             NEW q \in Extend(tab, p)
      PROVE  q \in S[d + 1]
    <2>1. p \in Paths /\ Len(p) = d + 1 /\ d \in Nat
        BY <1>3 DEF SimplePaths
    <2>2. PICK h \in Hops(tab, p[d + 1].fiber) :
              h.fiber # None /\ h.fiber \notin Visited(p) /\ q = Append(p, h)
        BY <2>1 DEF Extend, Last
    <2>3. h \in Step
        BY <2>2, AcrossType DEF Hops, Step, RowsOf
    <2>4. /\ q \in Paths /\ Len(q) = d + 2
          /\ \A i \in 1 .. d + 1 : q[i] = p[i] /\ Prefix(q, i) = Prefix(p, i)
          /\ q[d + 2] = h /\ Prefix(q, d + 2) = q
        BY <2>1, <2>2, <2>3, Appended
    <2>5. \A i \in 1 .. d + 1 : p[i].fiber # h.fiber
        BY <2>1, <2>2 DEF Visited
    <2>6. q \in L[d + 1]
        BY <1>1, <1>3 DEF Further
    <2>7. /\ p[1] = [fiber |-> f, splice |-> None]
          /\ \A i, j \in 1 .. d + 1 : p[i].fiber = p[j].fiber => i = j
          /\ \A i \in 1 .. d : p[i + 1] \in Hops(tab, p[i].fiber)
          /\ \A i \in 1 .. d + 1 : Prefix(p, i) \in L[i - 1]
        BY <1>3 DEF SimplePaths, L
    <2>8. q[1] = [fiber |-> f, splice |-> None]
        BY <2>1, <2>4, <2>7
    <2>9. \A i, j \in 1 .. d + 2 : q[i].fiber = q[j].fiber => i = j
        BY <2>1, <2>4, <2>5, <2>7
    <2>10. ASSUME NEW i \in 1 .. d + 1 PROVE q[i + 1] \in Hops(tab, q[i].fiber)
        <3>1. CASE i = d + 1
            BY <2>1, <2>2, <2>4, <3>1
        <3>2. CASE i # d + 1
            BY <2>1, <2>4, <2>7, <3>2
        <3> QED BY <3>1, <3>2
    <2>11. ASSUME NEW i \in 1 .. d + 2 PROVE Prefix(q, i) \in L[i - 1]
        <3>1. CASE i = d + 2
            BY <2>1, <2>4, <2>6, <3>1
        <3>2. CASE i # d + 2
            BY <2>1, <2>4, <2>7, <3>2
        <3> QED BY <3>1, <3>2
    <2>12. q \in SimplePaths(tab, f, d + 1)
        BY <2>1, <2>4, <2>8, <2>9, <2>10, <2>11 DEF SimplePaths, L
    <2> QED BY <1>1, <1>3, <2>1, <2>12
<1>4. \A d \in 0 .. MaxDepth : L[d] \subseteq S[d]
    <2> HIDE DEF S
    <2>1. \A d \in 0 .. MaxDepth : d < MaxDepth =>
              \A p \in Levels(tab, f)[d] : p \in S[d] => Extend(tab, p) \subseteq S[d + 1]
        BY <1>3 DEF L
    <2> QED BY <1>2, <2>1, LevelsInduction DEF L
<1> QED BY <1>1, <1>4 DEF L
-----------------------------------------------------------------------------
(* Joining is symmetric.                                                   *)
LEMMA JoinedSymmetric ==
    ASSUME NEW tab, NEW f \in Fibers, NEW g \in JoinedTo(tab, f) PROVE f \in JoinedTo(tab, g)
<1>1. g \in Fibers /\ {f, g} = {g, f}
    BY DEF JoinedTo
<1> QED BY <1>1 DEF JoinedTo

(* The fibers connected with f are closed under joins ...                  *)
LEMMA ConnectedClosed ==
    ASSUME NEW tab, NEW f \in Fibers
    PROVE  /\ f \in Connected(tab, f) /\ Connected(tab, f) \subseteq Fibers
           /\ \A g \in Connected(tab, f) : JoinedTo(tab, g) \subseteq Connected(tab, f)
<1>1. \A g \in Fibers : JoinedTo(tab, g) \subseteq Fibers
    BY DEF JoinedTo
<1> QED BY <1>1 DEF Connected

(* ... and the least such set.                                             *)
LEMMA ConnectedLeast ==
    ASSUME NEW tab, NEW f \in Fibers, NEW C \in SUBSET Fibers, f \in C,
           \A g \in C : JoinedTo(tab, g) \subseteq C
    PROVE  Connected(tab, f) \subseteq C
BY DEF Connected

(* Connected fibers are connected with the same fibers.                    *)
LEMMA ConnectedSame ==
    ASSUME NEW tab, NEW f \in Fibers, NEW g \in Connected(tab, f)
    PROVE  Connected(tab, g) = Connected(tab, f)
<1>1. /\ g \in Fibers /\ Connected(tab, f) \subseteq Fibers
      /\ \A h \in Connected(tab, f) : JoinedTo(tab, h) \subseteq Connected(tab, f)
    BY ConnectedClosed
<1>2. Connected(tab, g) \subseteq Connected(tab, f)
    BY <1>1, ConnectedLeast
<1>3. f \in Connected(tab, g)
    <2> SUFFICES ASSUME f \notin Connected(tab, g) PROVE FALSE
        OBVIOUS
    <2> DEFINE C == Connected(tab, f) \ Connected(tab, g)
    <2>1. f \in C /\ C \in SUBSET Fibers
        BY <1>1, ConnectedClosed
    <2>2. ASSUME NEW h \in C, NEW k \in JoinedTo(tab, h) PROVE k \in C
        <3>1. h \in Fibers /\ k \in Connected(tab, f)
            BY <1>1
        <3>2. h \in JoinedTo(tab, k)
            BY <3>1, JoinedSymmetric
        <3>3. k \notin Connected(tab, g)
            BY <1>1, <3>2, ConnectedClosed
        <3> QED BY <3>1, <3>3
    <2>3. Connected(tab, f) \subseteq C
        <3> HIDE DEF C
        <3> QED BY <2>1, <2>2, ConnectedLeast
    <2>4. g \notin C
        BY <1>1, ConnectedClosed
    <2> QED BY <2>3, <2>4
<1>4. Connected(tab, f) \subseteq Connected(tab, g)
    <2>1. /\ Connected(tab, g) \in SUBSET Fibers
          /\ \A h \in Connected(tab, g) : JoinedTo(tab, h) \subseteq Connected(tab, g)
        BY <1>1, ConnectedClosed
    <2> QED BY <1>3, <2>1, ConnectedLeast
<1> QED BY <1>2, <1>4

(* The fibers of the sides of a row, where a side names one fiber.         *)
LEMMA SidesOfRow ==
    ASSUME NEW tab \in Table, OneFiberPerSide(tab), NEW s \in RowsOf(tab)
    PROVE  /\ FibersIn(tab[s]) = {FiberAt(tab[s].a), FiberAt(tab[s].b)} \ {None}
           /\ \A f \in FibersIn(tab[s]) :
                  {f, Across(tab[s], f)} = {FiberAt(tab[s].a), FiberAt(tab[s].b)}
<1> DEFINE a == tab[s].a
           b == tab[s].b
<1>1. None \in {a.fiber, a.shared} /\ None \in {b.fiber, b.shared}
    BY DEF OneFiberPerSide
<1>2. FibersIn(tab[s]) = {FiberAt(a), FiberAt(b)} \ {None}
    BY <1>1 DEF FibersIn, FiberAt, Coalesce
<1>3. ASSUME NEW f \in FibersIn(tab[s])
      PROVE  {f, Across(tab[s], f)} = {FiberAt(a), FiberAt(b)}
    <2>1. f # None /\ f \in {a.fiber, a.shared, b.fiber, b.shared}
        BY DEF FibersIn
    <2>2. CASE OnSideA(tab[s], f)
        <3>1. FiberAt(a) = f /\ Across(tab[s], f) = FiberAt(b)
            BY <1>1, <2>1, <2>2 DEF OnSideA, Across, FiberAt, Coalesce
        <3> QED BY <3>1
    <2>3. CASE ~OnSideA(tab[s], f)
        <3>1. FiberAt(b) = f /\ Across(tab[s], f) = FiberAt(a)
            BY <1>1, <2>1, <2>3 DEF OnSideA, Across, FiberAt, Coalesce
        <3> QED BY <3>1
    <2> QED BY <2>2, <2>3
<1> QED BY <1>2, <1>3

(* A hop of the query follows a join, and every join to another fiber is   *)
(* a hop.                                                                  *)
LEMMA HopsAreJoins ==
    ASSUME NEW tab \in Table, OneFiberPerSide(tab), NEW f \in Fibers
    PROVE  /\ \A h \in Hops(tab, f) : h.fiber \in Fibers => h.fiber \in JoinedTo(tab, f)
           /\ \A g \in JoinedTo(tab, f) : g # f =>
                  \E s \in RowsOf(tab) : [fiber |-> g, splice |-> s] \in Hops(tab, f)
<1>1. ASSUME NEW h \in Hops(tab, f), h.fiber \in Fibers PROVE h.fiber \in JoinedTo(tab, f)
    <2>1. PICK s \in RowsOf(tab) : f \in FibersIn(tab[s]) /\ h.fiber = Across(tab[s], f)
        BY DEF Hops
    <2> QED BY <1>1, <2>1, SidesOfRow DEF JoinedTo
<1>2. ASSUME NEW g \in JoinedTo(tab, f), g # f
      PROVE  \E s \in RowsOf(tab) : [fiber |-> g, splice |-> s] \in Hops(tab, f)
    <2>1. PICK s \in RowsOf(tab) : {f, g} = {FiberAt(tab[s].a), FiberAt(tab[s].b)}
        BY DEF JoinedTo
    <2>2. f \in FibersIn(tab[s])
        BY <2>1, SidesOfRow, ConstantsAssumption
    <2>3. {f, Across(tab[s], f)} = {f, g}
        BY <2>1, <2>2, SidesOfRow
    <2>4. Across(tab[s], f) = g
        BY <1>2, <2>3
    <2> QED BY <2>2, <2>4 DEF Hops
<1> QED BY <1>1, <1>2
-----------------------------------------------------------------------------
(* The fibers of a path are as many as its rows.                           *)
LEMMA VisitedCount ==
    ASSUME NEW tab, NEW f, NEW d \in Nat, NEW p \in SimplePaths(tab, f, d)
    PROVE  IsFiniteSet(Visited(p)) /\ Cardinality(Visited(p)) = d + 1
<1> DEFINE F == [i \in 1 .. d + 1 |-> p[i].fiber]
<1>1. Len(p) = d + 1 /\ \A i, j \in 1 .. d + 1 : p[i].fiber = p[j].fiber => i = j
    BY DEF SimplePaths
<1>2. F \in [1 .. d + 1 -> Visited(p)] /\ \A i, j \in 1 .. d + 1 : F[i] = F[j] => i = j
    BY <1>1 DEF Visited
<1>3. \A g \in Visited(p) : \E i \in 1 .. d + 1 : F[i] = g
    BY <1>1 DEF Visited
<1> HIDE DEF F
<1>4. F \in Bijection(1 .. d + 1, Visited(p))
    BY <1>2, <1>3, Fun_IsBij
<1>5. d + 1 \in Nat /\ ExistsBijection(1 .. d + 1, Visited(p))
    BY <1>4 DEF ExistsBijection
<1> QED BY <1>5, FS_CountingElements, FS_NatBijection

(* What a path passes is traced.                                           *)
LEMMA VisitedTraced ==
    ASSUME NEW tab \in Table, NEW f \in Fibers, NEW d \in 0 .. MaxDepth,
           NEW p \in Levels(tab, f)[d]
    PROVE  /\ p \in SimplePaths(tab, f, d) /\ p \in Paths /\ Len(p) = d + 1
           /\ Visited(p) \subseteq TracedFibers(Levels(tab, f))
<1>1. p \in SimplePaths(tab, f, d)
    BY LevelsAreSimplePaths
<1>2. p \in Paths /\ Len(p) = d + 1 /\ d \in Nat
    BY <1>1, ConstantsAssumption DEF SimplePaths
<1>3. ASSUME NEW i \in 1 .. d + 1 PROVE p[i].fiber \in TracedFibers(Levels(tab, f))
    <2>1. Prefix(p, i) \in Levels(tab, f)[i - 1] /\ i - 1 \in 0 .. MaxDepth
        BY <1>1, <1>2, ConstantsAssumption DEF SimplePaths
    <2>2. Prefix(p, i) \in SimplePaths(tab, f, i - 1)
        BY <2>1, LevelsAreSimplePaths
    <2>3. Len(Prefix(p, i)) = i
        BY <1>2, <2>2 DEF SimplePaths
    <2>4. Last(Prefix(p, i)) = p[i]
        BY <1>2, <2>3 DEF Last, Prefix
    <2> QED BY <2>1, <2>4 DEF TracedFibers, RowsAt
<1> QED BY <1>1, <1>2, <1>3 DEF Visited

(* What is traced is connected.                                            *)
LEMMA TracedIsConnected ==
    ASSUME NEW tab \in Table, OneFiberPerSide(tab), NEW f \in Fibers
    PROVE  TracedFibers(Levels(tab, f)) \subseteq Connected(tab, f)
<1> DEFINE L == Levels(tab, f)
           S == [d \in 0 .. MaxDepth |-> {p \in L[d] : Last(p).fiber \in Connected(tab, f)}]
<1>1. MaxDepth \in Nat /\ L[0] = {RootRow(f)}
      /\ \A d \in 0 .. MaxDepth : d # 0 => L[d] = Further(tab, L[d - 1])
    BY LevelsSteps
<1>2. RootRow(f) \in S[0]
    <2>1. Last(RootRow(f)).fiber = f
        BY DEF Last, RootRow
    <2> QED BY <1>1, <2>1, ConnectedClosed
<1>3. ASSUME NEW d \in 0 .. MaxDepth, d < MaxDepth, NEW p \in Levels(tab, f)[d], p \in S[d],
             NEW q \in Extend(tab, p)
      PROVE  q \in S[d + 1]
    <2>1. PICK h \in Hops(tab, Last(p).fiber) : h.fiber # None /\ q = Append(p, h)
        BY DEF Extend
    <2>2. p \in Paths /\ Last(p).fiber \in Connected(tab, f) /\ Last(p).fiber \in Fibers
        BY <1>3, VisitedTraced, ConnectedClosed
    <2>3. h \in Step
        BY <2>1, AcrossType DEF Hops, Step, RowsOf
    <2>4. h.fiber \in JoinedTo(tab, Last(p).fiber)
        BY <2>1, <2>2, <2>3, HopsAreJoins DEF Step
    <2>5. h.fiber \in Connected(tab, f)
        BY <2>2, <2>4, ConnectedClosed
    <2>6. Len(p) \in Nat /\ Len(q) = Len(p) + 1 /\ q[Len(q)] = h
        BY <2>1, <2>2, <2>3, Appended, PathFacts
    <2>7. q \in L[d + 1] /\ d + 1 \in 0 .. MaxDepth
        BY <1>1, <1>3 DEF Further
    <2> QED BY <2>5, <2>6, <2>7 DEF Last
<1>4. \A d \in 0 .. MaxDepth : L[d] \subseteq S[d]
    <2> HIDE DEF S, L
    <2>1. \A d \in 0 .. MaxDepth : d < MaxDepth =>
              \A p \in Levels(tab, f)[d] : p \in S[d] => Extend(tab, p) \subseteq S[d + 1]
        BY <1>3
    <2> QED BY <1>2, <2>1, LevelsInduction DEF L
<1> QED BY <1>4 DEF TracedFibers, RowsAt

(* No more fibers are connected with f than the query has levels.          *)
Near(tab, f) ==
    IsFiniteSet(Connected(tab, f)) /\ Cardinality(Connected(tab, f)) <= MaxDepth + 1

(* Then a path to a fiber can be followed to whatever else it is joined    *)
(* with, and the query has reached everything when it stops.               *)
LEMMA TracedFollowsJoins ==
    ASSUME NEW tab \in Table, OneFiberPerSide(tab), NEW f \in Fibers, Near(tab, f),
           NEW d \in 0 .. MaxDepth, NEW p \in Levels(tab, f)[d],
           NEW h \in Hops(tab, Last(p).fiber), h.fiber \in Fibers \ Visited(p)
    PROVE  d + 1 \in 0 .. MaxDepth /\ Append(p, h) \in Levels(tab, f)[d + 1]
<1>1. /\ p \in SimplePaths(tab, f, d) /\ p \in Paths /\ Len(p) = d + 1 /\ d \in Nat
      /\ Visited(p) \subseteq Connected(tab, f)
    BY VisitedTraced, TracedIsConnected, ConstantsAssumption
<1>2. Last(p).fiber \in Visited(p) /\ Last(p).fiber \in Fibers
    <2>1. d + 1 \in 1 .. Len(p) /\ Last(p) = p[d + 1]
        BY <1>1 DEF Last
    <2> QED BY <1>1, <2>1, PathFacts DEF Visited
<1>3. h.fiber \in Connected(tab, f)
    BY <1>1, <1>2, HopsAreJoins, ConnectedClosed
<1>4. IsFiniteSet(Visited(p)) /\ Cardinality(Visited(p)) = d + 1
    BY <1>1, VisitedCount
<1>5. Cardinality(Visited(p) \cup {h.fiber}) = d + 2
    <2>1. h.fiber \notin Visited(p)
        OBVIOUS
    <2>2. Cardinality(Visited(p) \cup {h.fiber}) = Cardinality(Visited(p)) + 1
        BY <1>4, <2>1, FS_AddElement
    <2> QED BY <1>1, <1>4, <2>2
<1>6. d + 2 <= Cardinality(Connected(tab, f)) /\ Cardinality(Connected(tab, f)) \in Nat
    BY <1>1, <1>3, <1>5, FS_Subset, FS_CardinalityType DEF Near
<1>7. d + 1 \in 0 .. MaxDepth
    BY <1>1, <1>6, ConstantsAssumption DEF Near
<1>8. Append(p, h) \in Extend(tab, p)
    BY ConstantsAssumption DEF Extend
<1>9. Levels(tab, f)[d + 1] = Further(tab, Levels(tab, f)[d])
    <2> DEFINE e == d + 1
    <2>1. e \in 0 .. MaxDepth /\ e # 0 /\ e - 1 = d
        BY <1>1, <1>7
    <2> HIDE DEF e
    <2>2. \A i \in 0 .. MaxDepth : i # 0 =>
              Levels(tab, f)[i] = Further(tab, Levels(tab, f)[i - 1])
        BY LevelsSteps
    <2>3. Levels(tab, f)[e] = Further(tab, Levels(tab, f)[e - 1])
        BY <2>1, <2>2
    <2> QED BY <2>1, <2>3 DEF e
<1> QED BY <1>7, <1>8, <1>9 DEF Further

(* A trace reaches exactly the fibers connected with its root.             *)
LEMMA TracedIsAllConnected ==
    ASSUME NEW tab \in Table, OneFiberPerSide(tab), NEW f \in Fibers, Near(tab, f)
    PROVE  TracedFibers(Levels(tab, f)) = Connected(tab, f)
<1> DEFINE R == TracedFibers(Levels(tab, f))
<1>1. R \subseteq Connected(tab, f) /\ R \in SUBSET Fibers
    BY TracedIsConnected, ConnectedClosed
<1>2. f \in R
    <2>1. RootRow(f) \in Levels(tab, f)[0] /\ 0 \in 0 .. MaxDepth /\ Last(RootRow(f)).fiber = f
        BY LevelsSteps DEF Last, RootRow
    <2> QED BY <2>1 DEF TracedFibers, RowsAt
<1>3. ASSUME NEW g \in R, NEW k \in JoinedTo(tab, g) PROVE k \in R
    <2>1. PICK d \in 0 .. MaxDepth : \E p \in Levels(tab, f)[d] : Last(p).fiber = g
        BY DEF TracedFibers, RowsAt
    <2>2. PICK p \in Levels(tab, f)[d] : Last(p).fiber = g
        BY <2>1
    <2>3. Visited(p) \subseteq R /\ p \in Paths /\ Len(p) = d + 1 /\ k \in Fibers /\ g \in Fibers
        BY <1>1, VisitedTraced DEF JoinedTo
    <2>4. CASE k \in Visited(p)
        BY <2>3, <2>4
    <2>5. CASE k \notin Visited(p)
        <3>1. k # g
            <4>1. Len(p) \in 1 .. Len(p)
                BY <2>3, ConstantsAssumption
            <4> QED BY <2>2, <2>5, <4>1 DEF Visited, Last
        <3>2. PICK s \in RowsOf(tab) : [fiber |-> k, splice |-> s] \in Hops(tab, g)
            BY <2>3, <3>1, HopsAreJoins
        <3> DEFINE h == [fiber |-> k, splice |-> s]
        <3>3. h \in Hops(tab, Last(p).fiber) /\ h.fiber \in Fibers \ Visited(p) /\ h.fiber = k
            BY <2>2, <2>3, <2>5, <3>2
        <3>4. h \in Step
            BY <2>3 DEF Step, RowsOf
        <3> HIDE DEF h
        <3>5. d + 1 \in 0 .. MaxDepth /\ Append(p, h) \in Levels(tab, f)[d + 1]
            BY <3>3, TracedFollowsJoins
        <3>6. Last(Append(p, h)) = h
            BY <2>3, <3>4, Appended DEF Last
        <3> QED BY <3>3, <3>5, <3>6 DEF TracedFibers, RowsAt
    <2> QED BY <2>4, <2>5
<1>4. Connected(tab, f) \subseteq R
    <2> HIDE DEF R
    <2> QED BY <1>1, <1>2, <1>3, ConnectedLeast
<1> QED BY <1>1, <1>4
-----------------------------------------------------------------------------
(* The levels of a trace are sets of paths.                                *)
LEMMA LevelsType ==
    ASSUME NEW tab \in Table, NEW f \in Fibers
    PROVE  Levels(tab, f) \in [0 .. MaxDepth -> SUBSET Paths]
<1> DEFINE L == Levels(tab, f)
           E(d) == IF d = 0 THEN {RootRow(f)} ELSE Further(tab, L[d - 1])
<1>1. L = [d \in 0 .. MaxDepth |-> E(d)]
    BY LevelsEquation
<1>2. \A d \in 0 .. MaxDepth : L[d] \subseteq Paths
    BY LevelsAreSimplePaths DEF SimplePaths
<1> HIDE DEF L, E
<1>3. \A d \in 0 .. MaxDepth : L[d] \in SUBSET Paths
    BY <1>2
<1>4. L = [d \in 0 .. MaxDepth |-> L[d]]
    BY <1>1
<1> QED BY <1>3, <1>4 DEF L

(* A request starts from fibers.                                           *)
LEMMA StartType ==
    ASSUME splice \in Table, NEW kind \in Kinds, NEW x \in Targets(kind)
    PROVE  StartFibers(kind, x) \subseteq Fibers
<1>1. ASSUME NEW S \in SUBSET RowsOf(splice) PROVE FirstFibers(splice, S) \subseteq Fibers
    <2>1. ASSUME NEW s \in S PROVE FirstFiber(splice[s]) \in Fibers \cup {None}
        <3>1. splice[s].a \in Side /\ splice[s].b \in Side
            BY DEF RowsOf, Table, Row
        <3>2. /\ FiberAt(splice[s].a) \in Fibers \cup {None}
              /\ FiberAt(splice[s].b) \in Fibers \cup {None}
            BY <3>1 DEF Side, FiberAt, Coalesce
        <3> QED BY <3>2 DEF FirstFiber, Coalesce
    <2> QED BY <2>1 DEF FirstFibers
<1>2. \A c : FibersOfCable(c) \subseteq Fibers
    BY DEF FibersOfCable
<1>3. \A n : FirstFibers(splice, SplicesAtNode(splice, n)) \subseteq Fibers
    BY <1>1 DEF SplicesAtNode
<1>4. \A u : FirstFibers(splice, SplicesOfUnit(splice, u)) \subseteq Fibers
    BY <1>1 DEF SplicesOfUnit
<1>5. CASE kind = "fiber"
    BY <1>5 DEF StartFibers, Targets
<1>6. CASE kind = "cable"
    BY <1>2, <1>6 DEF StartFibers, Targets
<1>7. CASE kind = "node"
    BY <1>2, <1>3, <1>7 DEF StartFibers, StartOfNode
<1>8. CASE kind = "address"
    <2>1. StartFibers(kind, x) = StartOfAddress(splice, x)
        BY <1>8 DEF StartFibers
    <2> DEFINE A == UNION {FirstFibers(splice, SplicesAtNode(splice, n)) :
                              n \in {m \in Nodes : AddressOf[m] = x}}
               B == UNION {StartOfUnit(splice, u) : u \in {v \in Units : AddressOf[v] = x}}
    <2>2. A \subseteq Fibers
        BY <1>3
    <2>3. B \subseteq Fibers
        BY <1>4 DEF StartOfUnit
    <2>4. StartOfAddress(splice, x) = A \cup B
        BY DEF StartOfAddress
    <2> QED BY <2>1, <2>2, <2>3, <2>4
<1>9. CASE kind = "unit"
    BY <1>4, <1>9 DEF StartFibers, StartOfUnit
<1>10. CASE kind = "fault"
    BY <1>2, <1>10 DEF StartFibers, BrokenBy
<1> QED BY <1>5, <1>6, <1>7, <1>8, <1>9, <1>10 DEF Kinds

(* No request is a request record too.                                     *)
LEMMA IdleType == Idle \in Request
<1> DEFINE Of == (UNION {Targets(kind) : kind \in Kinds}) \cup {None}
<1>1. None \in Of
    <2>1. \A A : None \in A \cup {None}
        OBVIOUS
    <2> QED BY <2>1
<1> HIDE DEF Of
<1>2. Idle \in [kind : Kinds \cup {"none"}, of : Of, asked : SUBSET Fibers,
                todo : SUBSET Fibers, seen : SUBSET Fibers, traces : SUBSET Trace]
    BY <1>1 DEF Idle
<1> QED BY <1>2 DEF Request, Of

(* The type invariant is inductive.                                        *)
LEMMA TypeStep == TypeOK /\ [Next]_vars => TypeOK'
<1> SUFFICES ASSUME TypeOK, [Next]_vars PROVE TypeOK'
    OBVIOUS
<1>0. /\ splice \in Table /\ status \subseteq Fibers /\ edits \in 0 .. MaxEdits
      /\ MaxEdits \in Nat /\ req \in Request
    BY TablesAssumption DEF TypeOK
<1>1. ASSUME NEW kind \in Kinds, NEW x \in Targets(kind), Ask(kind, x) PROVE TypeOK'
    <2>1. StartFibers(kind, x) \subseteq Fibers
        BY <1>0, StartType
    <2>2. x \in UNION {Targets(k) : k \in Kinds}
        OBVIOUS
    <2>3. req' = [kind |-> kind, of |-> x, asked |-> StartFibers(kind, x),
                  todo |-> StartFibers(kind, x), seen |-> {}, traces |-> {}]
        BY <1>1 DEF Ask, Idle
    <2>4. req' \in Request
        BY <2>1, <2>2, <2>3 DEF Request
    <2> QED BY <1>0, <1>1, <2>4 DEF Ask, TypeOK
<1>2. ASSUME NEW f \in req.todo, Skip(f) PROVE TypeOK'
    <2>1. req' \in Request
        BY <1>0, <1>2 DEF Skip, Request
    <2> QED BY <1>0, <1>2, <2>1 DEF Skip, TypeOK
<1>3. ASSUME NEW f \in req.todo, TraceNext(f) PROVE TypeOK'
    <2> DEFINE L == Levels(splice, f)
               t == [root |-> f, splice |-> splice, levels |-> L]
    <2>1. f \in Fibers
        BY <1>0 DEF Request
    <2>2. L \in [0 .. MaxDepth -> SUBSET Paths] /\ TracedFibers(L) \subseteq Fibers
        <3>1. L \in [0 .. MaxDepth -> SUBSET Paths]
            BY <1>0, <2>1, LevelsType
        <3>2. ASSUME NEW d \in 0 .. MaxDepth, NEW p \in L[d] PROVE Last(p).fiber \in Fibers
            <4>1. p \in Paths /\ Len(p) = d + 1 /\ d \in Nat
                BY <1>0, <2>1, VisitedTraced, ConstantsAssumption
            <4> QED BY <4>1, PathFacts DEF Last
        <3> QED BY <3>1, <3>2 DEF TracedFibers, RowsAt
    <2>3. t \in Trace
        BY <1>0, <2>1, <2>2 DEF Trace
    <2>4. req' = [req EXCEPT !.todo = @ \ {f}, !.traces = @ \cup {t},
                             !.seen = @ \cup TracedFibers(L)]
        BY <1>3 DEF TraceNext
    <2> HIDE DEF t, L
    <2>5. req' \in Request
        BY <1>0, <2>2, <2>3, <2>4 DEF Request
    <2> QED BY <1>0, <1>3, <2>5 DEF TraceNext, TypeOK
<1>4. CASE Answer
    <2> QED BY <1>0, <1>4, IdleType DEF Answer, TypeOK
<1>5. ASSUME NEW s \in Splices, ClearRow(s) PROVE TypeOK'
    <2>1. splice' \in Table
        BY <1>0, <1>5 DEF ClearRow, Table
    <2> QED BY <1>0, <1>5, <2>1 DEF ClearRow, TypeOK
<1>6. CASE UNCHANGED vars
    BY <1>0, <1>6 DEF vars, TypeOK
<1> QED BY <1>1, <1>2, <1>3, <1>4, <1>5, <1>6 DEF Next

(* Every variable has its type: a trace holds rows of the query, paths of  *)
(* known fibers.                                                           *)
THEOREM TypeCorrect == Spec => []TypeOK
<1>1. Init => TypeOK
    BY TablesAssumption, IdleType DEF Init, TypeOK
<1> QED BY <1>1, TypeStep, PTL DEF Spec
-----------------------------------------------------------------------------
(* What the traces of the request show.                                    *)
Shown == UNION {TracedFibers(t.levels) : t \in req.traces}

(* A trace is the query's answer for a fiber the request collected.  What  *)
(* it collected is either still to do or shown, what it has seen is what   *)
(* it shows, and only a kind that skips leaves a collected fiber without a *)
(* trace of its own.  With no edit in between, all of it is about the      *)
(* table as it is now.                                                     *)
Genuine ==
    \A t \in req.traces : t.levels = Levels(t.splice, t.root) /\ t.root \in req.asked
Accounted ==
    /\ req.todo \subseteq req.asked
    /\ req.asked \subseteq req.todo \cup Shown
    /\ req.seen = Shown
    /\ ~SkipsSeen(req.kind) => req.asked \subseteq req.todo \cup {t.root : t \in req.traces}
Current ==
    edits = 0 =>
        /\ \A t \in req.traces : t.splice = splice
        /\ req.kind # "none" => req.asked = StartFibers(req.kind, req.of)
Started ==
    IF req.kind = "none" THEN req = Idle ELSE req.of \in Targets(req.kind)
TraceInv ==
    TypeOK /\ Genuine /\ Accounted /\ Current /\ Started /\ IsFiniteSet(req.traces)

(* The fields of a trace.                                                  *)
LEMMA TraceFields ==
    ASSUME TypeOK, NEW t \in req.traces
    PROVE  t \in Trace /\ t.root \in Fibers /\ t.splice \in Table
BY DEF TypeOK, Request, Trace

(* The root is one of the fibers its trace shows.                          *)
LEMMA RootIsTraced ==
    ASSUME NEW tab, NEW f PROVE f \in TracedFibers(Levels(tab, f))
<1>1. RootRow(f) \in Levels(tab, f)[0] /\ 0 \in 0 .. MaxDepth /\ Last(RootRow(f)).fiber = f
    BY LevelsSteps DEF Last, RootRow
<1> QED BY <1>1 DEF TracedFibers, RowsAt

(* The record of a trace and what is shown with it.                        *)
TraceOf(f) == [root |-> f, splice |-> splice, levels |-> Levels(splice, f)]
LEMMA TraceNextFacts ==
    ASSUME TypeOK, NEW f \in req.todo, TraceNext(f)
    PROVE  /\ f \in Fibers /\ req'.kind = req.kind /\ req'.of = req.of
           /\ req'.asked = req.asked /\ req'.todo = req.todo \ {f}
           /\ req'.traces = req.traces \cup {TraceOf(f)}
           /\ req'.seen = req.seen \cup TracedFibers(Levels(splice, f))
           /\ Shown' = Shown \cup TracedFibers(Levels(splice, f))
           /\ UNCHANGED <<splice, status, edits>>
<1> DEFINE t == TraceOf(f)
<1>1. req' = [req EXCEPT !.todo = @ \ {f}, !.traces = @ \cup {t},
                         !.seen = @ \cup TracedFibers(Levels(splice, f))]
    BY DEF TraceNext, TraceOf
<1>2. t.levels = Levels(splice, f)
    BY DEF TraceOf
<1> HIDE DEF t
<1>3. f \in Fibers /\ req \in Request
    BY DEF TypeOK, Request
<1>4. /\ req'.kind = req.kind /\ req'.of = req.of
      /\ req'.asked = req.asked /\ req'.todo = req.todo \ {f}
      /\ req'.traces = req.traces \cup {t}
      /\ req'.seen = req.seen \cup TracedFibers(Levels(splice, f))
    BY <1>1, <1>3 DEF Request
<1>5. Shown' = Shown \cup TracedFibers(Levels(splice, f))
    BY <1>2, <1>4 DEF Shown
<1> QED BY <1>3, <1>4, <1>5 DEF TraceNext, t

(* Every step keeps the invariant.                                         *)
LEMMA TraceStep == TraceInv /\ [Next]_vars => TraceInv'
<1> SUFFICES ASSUME TraceInv, [Next]_vars PROVE TraceInv'
    OBVIOUS
<1>0. TypeOK /\ TypeOK' /\ req \in Request
    BY TypeStep DEF TraceInv, TypeOK
<1>1. ASSUME NEW kind \in Kinds, NEW x \in Targets(kind), Ask(kind, x) PROVE TraceInv'
    <2>1. /\ req'.kind = kind /\ req'.of = x /\ req'.asked = StartFibers(kind, x)
          /\ req'.todo = req'.asked /\ req'.seen = {} /\ req'.traces = {} /\ splice' = splice
        BY <1>1 DEF Ask, Idle
    <2>2. Shown' = {}
        BY <2>1 DEF Shown
    <2>3. StartFibers(kind, x)' = StartFibers(kind, x)
        BY <2>1 DEF StartFibers
    <2>4. Genuine' /\ IsFiniteSet(req'.traces)
        BY <2>1, FS_EmptySet DEF Genuine
    <2>5. Accounted'
        BY <2>1, <2>2 DEF Accounted
    <2>6. Current'
        BY <2>1, <2>3 DEF Current, StartFibers
    <2>7. Started'
        BY <2>1 DEF Started, Kinds
    <2> QED BY <1>0, <2>4, <2>5, <2>6, <2>7 DEF TraceInv
<1>2. ASSUME NEW f \in req.todo, Skip(f) PROVE TraceInv'
    <2>1. /\ req'.kind = req.kind /\ req'.of = req.of /\ req'.asked = req.asked
          /\ req'.todo = req.todo \ {f} /\ req'.seen = req.seen /\ req'.traces = req.traces
          /\ f \in req.seen /\ SkipsSeen(req.kind) /\ UNCHANGED <<splice, edits>>
        BY <1>0, <1>2 DEF Skip, Request
    <2>2. Shown' = Shown
        BY <2>1 DEF Shown
    <2>3. Genuine' /\ IsFiniteSet(req'.traces)
        BY <2>1 DEF TraceInv, Genuine
    <2>4. Accounted'
        BY <2>1, <2>2 DEF TraceInv, Accounted
    <2>5. Current'
        BY <2>1 DEF TraceInv, Current, StartFibers
    <2>6. Started'
        BY <2>1 DEF TraceInv, Started, Idle
    <2> QED BY <1>0, <2>3, <2>4, <2>5, <2>6 DEF TraceInv
<1>3. ASSUME NEW f \in req.todo, TraceNext(f) PROVE TraceInv'
    <2> DEFINE t == TraceOf(f)
    <2>1. /\ f \in Fibers /\ req'.kind = req.kind /\ req'.of = req.of
          /\ req'.asked = req.asked /\ req'.todo = req.todo \ {f}
          /\ req'.traces = req.traces \cup {t}
          /\ req'.seen = req.seen \cup TracedFibers(Levels(splice, f))
          /\ Shown' = Shown \cup TracedFibers(Levels(splice, f))
          /\ UNCHANGED <<splice, status, edits>>
        BY <1>0, <1>3, TraceNextFacts
    <2>2. t.root = f /\ t.splice = splice /\ t.levels = Levels(splice, f)
        BY DEF TraceOf
    <2> HIDE DEF t
    <2>3. Genuine'
        BY <2>1, <2>2 DEF TraceInv, Genuine, Accounted
    <2>4. Accounted'
        <3>1. f \in TracedFibers(Levels(splice, f))
            BY RootIsTraced
        <3> QED BY <2>1, <2>2, <3>1 DEF TraceInv, Accounted
    <2>5. Current'
        BY <2>1, <2>2 DEF TraceInv, Current, StartFibers
    <2>6. Started'
        BY <2>1 DEF TraceInv, Started, Idle
    <2>7. IsFiniteSet(req'.traces)
        BY <2>1, FS_AddElement DEF TraceInv
    <2> QED BY <1>0, <2>3, <2>4, <2>5, <2>6, <2>7 DEF TraceInv
<1>4. CASE Answer
    <2>1. req' = Idle /\ req'.traces = {} /\ req'.seen = {} /\ req'.asked = {} /\ req'.todo = {}
          /\ req'.kind = "none"
        BY <1>4 DEF Answer, Idle
    <2>2. Shown' = {}
        BY <2>1 DEF Shown
    <2>3. Genuine' /\ Accounted' /\ Current' /\ Started' /\ IsFiniteSet(req'.traces)
        BY <2>1, <2>2, FS_EmptySet DEF Genuine, Accounted, Current, Started
    <2> QED BY <1>0, <2>3 DEF TraceInv
<1>5. ASSUME NEW s \in Splices, ClearRow(s) PROVE TraceInv'
    <2>1. UNCHANGED req /\ edits' # 0
        BY <1>0, <1>5, TablesAssumption DEF ClearRow, TypeOK
    <2>2. Shown' = Shown
        BY <2>1 DEF Shown
    <2>3. Genuine' /\ Accounted' /\ Current' /\ Started' /\ IsFiniteSet(req'.traces)
        BY <2>1, <2>2 DEF TraceInv, Genuine, Accounted, Current, Started
    <2> QED BY <1>0, <2>3 DEF TraceInv
<1>6. CASE UNCHANGED vars
    <2>1. UNCHANGED <<req, edits, splice>>
        BY <1>6 DEF vars
    <2>2. Shown' = Shown
        BY <2>1 DEF Shown
    <2>3. Genuine' /\ Accounted' /\ Current' /\ Started' /\ IsFiniteSet(req'.traces)
        BY <2>1, <2>2 DEF TraceInv, Genuine, Accounted, Current, Started, StartFibers
    <2> QED BY <1>0, <2>3 DEF TraceInv
<1> QED BY <1>1, <1>2, <1>3, <1>4, <1>5, <1>6 DEF Next

(* The invariant holds at first.                                           *)
LEMMA TraceInit == Init => TraceInv
<1> SUFFICES ASSUME Init PROVE TraceInv
    OBVIOUS
<1>1. TypeOK
    BY TablesAssumption, IdleType DEF Init, TypeOK
<1>2. req = Idle /\ req.traces = {} /\ req.seen = {} /\ req.asked = {} /\ req.todo = {}
      /\ req.kind = "none"
    BY DEF Init, Idle
<1>3. Shown = {}
    BY <1>2 DEF Shown
<1> QED BY <1>1, <1>2, <1>3, FS_EmptySet DEF TraceInv, Genuine, Accounted, Current, Started
-----------------------------------------------------------------------------
(* In the tables a behaviour may begin with no fiber is connected with     *)
(* more others than the recursive query has levels (ft.depth < 100).       *)
ShortChains ==
    \A tab \in Tables : \A f \in Fibers : Cardinality(Connected(tab, f)) <= MaxDepth + 1

(* Clearing a row connects nothing.                                        *)
LEMMA ClearedConnectsLess ==
    ASSUME NEW tab \in Table, NEW s \in Splices, NEW f \in Fibers, Near(tab, f)
    PROVE  Near([tab EXCEPT ![s] = None], f)
<1> DEFINE cleared == [tab EXCEPT ![s] = None]
<1>1. \A r \in RowsOf(cleared) : r \in RowsOf(tab) /\ cleared[r] = tab[r]
    BY DEF RowsOf, Table
<1> HIDE DEF cleared
<1>2. \A g : JoinedTo(cleared, g) \subseteq JoinedTo(tab, g)
    BY <1>1 DEF JoinedTo
<1>3. /\ f \in Connected(tab, f) /\ Connected(tab, f) \in SUBSET Fibers
      /\ \A g \in Connected(tab, f) : JoinedTo(tab, g) \subseteq Connected(tab, f)
    BY ConnectedClosed
<1>4. \A g \in Connected(tab, f) : JoinedTo(cleared, g) \subseteq Connected(tab, f)
    BY <1>2, <1>3
<1>5. Connected(cleared, f) \subseteq Connected(tab, f)
    BY <1>3, <1>4, ConnectedLeast
<1>6. /\ IsFiniteSet(Connected(cleared, f))
      /\ Cardinality(Connected(cleared, f)) <= Cardinality(Connected(tab, f))
    BY <1>5, FS_Subset DEF Near
<1>7. Cardinality(Connected(cleared, f)) \in Nat /\ Cardinality(Connected(tab, f)) \in Nat
    BY <1>6, FS_CardinalityType DEF Near
<1> QED BY <1>6, <1>7, ConstantsAssumption DEF Near, cleared

(* The chains stay short, in the table and in those the traces saw.        *)
AllNear(tab) == \A f \in Fibers : Near(tab, f)
ChainInv == TraceInv /\ AllNear(splice) /\ \A t \in req.traces : AllNear(t.splice)

LEMMA ChainInit == ASSUME ShortChains PROVE Init => ChainInv
<1> SUFFICES ASSUME Init PROVE ChainInv
    OBVIOUS
<1>1. TraceInv
    BY TraceInit
<1>2. ASSUME NEW f \in Fibers PROVE Near(splice, f)
    <2>1. Connected(splice, f) \subseteq Fibers
        BY ConnectedClosed
    <2>2. IsFiniteSet(Connected(splice, f))
        BY <2>1, FS_Subset, ConstantsAssumption
    <2> QED BY <2>2 DEF ShortChains, Near, Init
<1>3. req.traces = {}
    BY DEF Init, Idle
<1> QED BY <1>1, <1>2, <1>3 DEF ChainInv, AllNear

LEMMA ChainStep == ChainInv /\ [Next]_vars => ChainInv'
<1> SUFFICES ASSUME ChainInv, [Next]_vars PROVE ChainInv'
    OBVIOUS
<1>0. TraceInv /\ TraceInv' /\ TypeOK /\ AllNear(splice)
    BY TraceStep DEF ChainInv, TraceInv
<1>1. ASSUME NEW kind \in Kinds, NEW x \in Targets(kind), Ask(kind, x) PROVE ChainInv'
    <2>1. req'.traces = {} /\ splice' = splice
        BY <1>1 DEF Ask, Idle
    <2> QED BY <1>0, <2>1 DEF ChainInv, AllNear
<1>2. ASSUME NEW f \in req.todo, Skip(f) PROVE ChainInv'
    <2>1. req'.traces = req.traces /\ splice' = splice
        BY <1>0, <1>2 DEF Skip, TypeOK, Request
    <2> QED BY <1>0, <2>1 DEF ChainInv, AllNear
<1>3. ASSUME NEW f \in req.todo, TraceNext(f) PROVE ChainInv'
    <2>1. req'.traces = req.traces \cup {TraceOf(f)} /\ splice' = splice
        BY <1>0, <1>3, TraceNextFacts
    <2>2. TraceOf(f).splice = splice
        BY DEF TraceOf
    <2> QED BY <1>0, <2>1, <2>2 DEF ChainInv, AllNear
<1>4. CASE Answer
    <2>1. req'.traces = {} /\ splice' = splice
        BY <1>4 DEF Answer, Idle
    <2> QED BY <1>0, <2>1 DEF ChainInv, AllNear
<1>5. ASSUME NEW s \in Splices, ClearRow(s) PROVE ChainInv'
    <2>1. splice' = [splice EXCEPT ![s] = None] /\ req' = req /\ splice \in Table
        BY <1>0, <1>5 DEF ClearRow, TypeOK
    <2>2. \A f \in Fibers : Near([splice EXCEPT ![s] = None], f)
        BY <1>0, <2>1, ClearedConnectsLess DEF AllNear
    <2> QED BY <1>0, <2>1, <2>2 DEF ChainInv, AllNear
<1>6. CASE UNCHANGED vars
    <2>1. UNCHANGED <<req, splice>>
        BY <1>6 DEF vars
    <2> QED BY <1>0, <2>1 DEF ChainInv, AllNear
<1> QED BY <1>1, <1>2, <1>3, <1>4, <1>5, <1>6 DEF Next

(* Where a side names one fiber, a trace shows what its root is connected  *)
(* with in the table its query saw.                                        *)
LEMMA ShownIsConnected ==
    ASSUME ChainInv, NEW t \in req.traces, OneFiberPerSide(t.splice)
    PROVE  /\ t.root \in Fibers /\ t.splice \in Table /\ t.levels = Levels(t.splice, t.root)
           /\ TracedFibers(t.levels) = Connected(t.splice, t.root)
<1>1. t.root \in Fibers /\ t.splice \in Table /\ t.levels = Levels(t.splice, t.root)
    BY TraceFields DEF ChainInv, TraceInv, Genuine
<1>2. Near(t.splice, t.root)
    BY <1>1 DEF ChainInv, AllNear
<1>3. TracedFibers(Levels(t.splice, t.root)) = Connected(t.splice, t.root)
    BY <1>1, <1>2, TracedIsAllConnected
<1> QED BY <1>1, <1>3

(* A trace reaches exactly the fibers its root is connected with, as the   *)
(* table stood when its query ran: the paths of trace_fiber's recursive    *)
(* query leave none out at loops, splitters and shared fibers.             *)
THEOREM TracesReachConnected == ASSUME ShortChains PROVE Spec => []TraceReachesConnected
<1>1. ChainInv => TraceReachesConnected
    BY ShownIsConnected DEF TraceReachesConnected
<1> QED BY <1>1, ChainInit, ChainStep, PTL DEF Spec

(* Of a row one of whose fibers is shown all fibers are.                   *)
LEMMA RowShown ==
    ASSUME ChainInv, edits = 0, OneFiberPerSide(splice), NEW s \in RowsOf(splice),
           req.asked \subseteq Shown,
           FirstFiber(splice[s]) # None => FirstFiber(splice[s]) \in req.asked
    PROVE  FibersIn(splice[s]) \subseteq Shown
<1> DEFINE a == FiberAt(splice[s].a)
           b == FiberAt(splice[s].b)
<1>0. splice \in Table
    BY DEF ChainInv, TraceInv, TypeOK
<1>1. FibersIn(splice[s]) = {a, b} \ {None}
    BY <1>0, SidesOfRow
<1>2. FibersIn(splice[s]) \subseteq Fibers
    <2>1. splice[s].a \in Side /\ splice[s].b \in Side
        BY <1>0 DEF RowsOf, Table, Row
    <2> QED BY <2>1 DEF FibersIn, Side
<1> DEFINE g == FirstFiber(splice[s])
<1>3. ASSUME NEW f \in FibersIn(splice[s]) PROVE f \in Shown
    <2>1. g \in {a, b} /\ g # None /\ f \in {a, b} /\ f \in Fibers /\ f # None
        BY <1>1, <1>2, <1>3 DEF FirstFiber, Coalesce
    <2>2. g \in Shown
        BY <2>1
    <2>3. PICK t \in req.traces : g \in TracedFibers(t.levels)
        BY <2>2 DEF Shown
    <2>4. t.splice = splice
        BY DEF ChainInv, TraceInv, Current
    <2>5. TracedFibers(t.levels) = Connected(splice, t.root) /\ t.root \in Fibers
        BY <2>4, ShownIsConnected
    <2>6. f = g \/ f \in JoinedTo(splice, g)
        BY <2>1 DEF JoinedTo
    <2>7. f \in TracedFibers(t.levels)
        BY <2>3, <2>5, <2>6, ConnectedClosed
    <2> QED BY <2>7 DEF Shown
<1> QED BY <1>3

(* Everything a request collected is in one of its traces when it answers; *)
(* with no edit in between a node's and a unit's show every fiber of their *)
(* splices, although one fiber is collected per row.                       *)
THEOREM EverythingIsTraced == ASSUME ShortChains PROVE Spec => []EveryFiberTraced
<1>1. ASSUME ChainInv PROVE EveryFiberTraced
    <2> SUFFICES ASSUME Answered PROVE EveryFiberTraced
        BY DEF EveryFiberTraced
    <2>1. req.asked \subseteq Shown
        BY <1>1 DEF ChainInv, TraceInv, Accounted, Answered
    <2> SUFFICES ASSUME edits = 0, OneFiberPerSide(splice),
                        NEW s \in CASE req.kind = "node" -> SplicesAtNode(splice, req.of)
                                    [] req.kind = "unit" -> SplicesOfUnit(splice, req.of)
                                    [] OTHER -> {}
                 PROVE  FibersIn(splice[s]) \subseteq Shown
        BY <2>1 DEF EveryFiberTraced, Shown
    <2>2. req.asked = StartFibers(req.kind, req.of)
        BY <1>1 DEF ChainInv, TraceInv, Current, Answered
    <2>3. CASE req.kind = "node"
        <3>1. s \in SplicesAtNode(splice, req.of) /\ s \in RowsOf(splice)
            BY <2>3 DEF SplicesAtNode
        <3>2. req.asked = StartOfNode(splice, req.of)
            BY <2>2, <2>3 DEF StartFibers
        <3>3. FirstFiber(splice[s]) # None => FirstFiber(splice[s]) \in req.asked
            BY <3>1, <3>2 DEF StartOfNode, FirstFibers
        <3> QED BY <1>1, <2>1, <3>1, <3>3, RowShown
    <2>4. CASE req.kind = "unit"
        <3>1. s \in SplicesOfUnit(splice, req.of) /\ s \in RowsOf(splice)
            BY <2>4 DEF SplicesOfUnit
        <3>2. req.asked = StartOfUnit(splice, req.of)
            BY <2>2, <2>4 DEF StartFibers
        <3>3. FirstFiber(splice[s]) # None => FirstFiber(splice[s]) \in req.asked
            BY <3>1, <3>2 DEF StartOfUnit, FirstFibers
        <3> QED BY <1>1, <2>1, <3>1, <3>3, RowShown
    <2>5. CASE req.kind \notin {"node", "unit"}
        BY <2>5
    <2> QED BY <2>3, <2>4, <2>5
<1> QED BY <1>1, ChainInit, ChainStep, PTL DEF Spec
-----------------------------------------------------------------------------
(* The fold that adds up the fibers of a set of traces.                    *)
Any(s) == CHOOSE x \in s : TRUE
FibersOfTrace(t) == Cardinality(TracedFibers(t.levels))
IsTotal(g, S) ==
    g = [s \in SUBSET S |->
            IF s = {} THEN 0 ELSE FibersOfTrace(Any(s)) + g[s \ {Any(s)}]]

LEMMA TotalIsFold ==
    ASSUME NEW S
    PROVE  MapThenSumSet(LAMBDA t : Statistics(t.splice, t.levels).total_fibers, S)
             = (CHOOSE g : IsTotal(g, S))[S]
<1>1. \A t : Statistics(t.splice, t.levels).total_fibers = FibersOfTrace(t)
    BY DEF Statistics, FibersOfTrace
<1> QED BY <1>1 DEF MapThenSumSet, MapThenFoldSet, IsTotal, Any

(* The fibers of a set of traces.                                          *)
FibersOfAll(s) == UNION {TracedFibers(t.levels) : t \in s}
Disjoint(S) ==
    \A t, u \in S : t # u => TracedFibers(t.levels) \cap TracedFibers(u.levels) = {}

(* Traces that share no fiber have as many as they have together: one of   *)
(* them and the others ...                                                 *)
LEMMA OneMoreTrace ==
    ASSUME NEW S, FibersOfAll(S) \subseteq Fibers, Disjoint(S),
           NEW s \in SUBSET S, s # {}
    PROVE  /\ Any(s) \in s
           /\ Cardinality(FibersOfAll(s))
                = FibersOfTrace(Any(s)) + Cardinality(FibersOfAll(s \ {Any(s)}))
<1> DEFINE x == Any(s)
           A == TracedFibers(x.levels)
           B == FibersOfAll(s \ {x})
<1>1. x \in s
    BY DEF Any
<1>2. FibersOfAll(s) = A \cup B
    BY <1>1 DEF FibersOfAll
<1>3. A \cap B = {}
    BY <1>1 DEF FibersOfAll, Disjoint
<1>4. A \subseteq Fibers /\ B \subseteq Fibers
    BY <1>1 DEF FibersOfAll
<1> HIDE DEF x, A, B
<1>5. IsFiniteSet(A) /\ IsFiniteSet(B)
    BY <1>4, FS_Subset, ConstantsAssumption
<1>6. Cardinality(A \cup B) = Cardinality(A) + Cardinality(B) - Cardinality(A \cap B)
    BY <1>5, FS_Union
<1>7. Cardinality(A \cap B) = 0
    BY <1>3, FS_EmptySet
<1>8. Cardinality(A) \in Nat /\ Cardinality(B) \in Nat
    BY <1>5, FS_CardinalityType
<1>9. Cardinality(A \cup B) = Cardinality(A) + Cardinality(B)
    BY <1>6, <1>7, <1>8
<1> QED BY <1>1, <1>2, <1>9 DEF FibersOfTrace, A, B, x

(* ... so that the numbers of their fibers are a total ...                 *)
LEMMA CountsAreTotal ==
    ASSUME NEW S, FibersOfAll(S) \subseteq Fibers, Disjoint(S)
    PROVE  IsTotal([s \in SUBSET S |-> Cardinality(FibersOfAll(s))], S)
<1> DEFINE W == [s \in SUBSET S |-> Cardinality(FibersOfAll(s))]
<1>1. ASSUME NEW s \in SUBSET S
      PROVE  W[s] = IF s = {} THEN 0 ELSE FibersOfTrace(Any(s)) + W[s \ {Any(s)}]
    <2>1. CASE s = {}
        <3>1. FibersOfAll(s) = {}
            BY <2>1 DEF FibersOfAll
        <3> QED BY <2>1, <3>1, FS_EmptySet
    <2>2. CASE s # {}
        <3>1. W[s \ {Any(s)}] = Cardinality(FibersOfAll(s \ {Any(s)}))
            OBVIOUS
        <3> QED BY <2>2, <3>1, OneMoreTrace
    <2> QED BY <2>1, <2>2
<1>2. W = [s \in SUBSET S |-> W[s]]
    OBVIOUS
<1> HIDE DEF W
<1>3. IsTotal(W, S)
    BY <1>1, <1>2 DEF IsTotal
<1> QED BY <1>3 DEF W

(* ... and the only one.                                                   *)
LEMMA TotalsAreCounts ==
    ASSUME NEW S, IsFiniteSet(S), FibersOfAll(S) \subseteq Fibers, Disjoint(S),
           NEW g, IsTotal(g, S)
    PROVE  g[S] = Cardinality(FibersOfAll(S))
<1> DEFINE T == {n \in Nat : \A s \in SUBSET S :
                    Cardinality(s) = n => g[s] = Cardinality(FibersOfAll(s))}
<1>1. \A s \in SUBSET S : IsFiniteSet(s)
    BY FS_Subset
<1>2. \A s \in SUBSET S :
          g[s] = IF s = {} THEN 0 ELSE FibersOfTrace(Any(s)) + g[s \ {Any(s)}]
    BY DEF IsTotal
<1>3. 0 \in T
    <2>1. ASSUME NEW s \in SUBSET S, Cardinality(s) = 0
          PROVE  g[s] = Cardinality(FibersOfAll(s))
        <3>1. s = {}
            BY <1>1, <2>1, FS_EmptySet
        <3>2. FibersOfAll(s) = {}
            BY <3>1 DEF FibersOfAll
        <3> QED BY <1>2, <3>1, <3>2, FS_EmptySet
    <2> QED BY <2>1
<1>4. ASSUME NEW n \in Nat, n \in T PROVE n + 1 \in T
    <2>1. ASSUME NEW s \in SUBSET S, Cardinality(s) = n + 1
          PROVE  g[s] = Cardinality(FibersOfAll(s))
        <3>1. s # {}
            BY <2>1, FS_EmptySet
        <3>2. Any(s) \in s
            BY <3>1, OneMoreTrace
        <3>3. Cardinality(s \ {Any(s)}) = n
            <4> DEFINE x == Any(s)
            <4> HIDE DEF x
            <4>1. x \in s /\ IsFiniteSet(s)
                BY <1>1, <3>2 DEF x
            <4>2. Cardinality(s \ {x}) = Cardinality(s) - 1
                BY <4>1, FS_RemoveElement
            <4> QED BY <2>1, <4>2 DEF x
        <3>4. g[s \ {Any(s)}] = Cardinality(FibersOfAll(s \ {Any(s)}))
            BY <1>4, <3>3
        <3>5. g[s] = FibersOfTrace(Any(s)) + g[s \ {Any(s)}]
            BY <1>2, <3>1
        <3> QED BY <3>1, <3>4, <3>5, OneMoreTrace
    <2> QED BY <2>1
<1>5. Nat \subseteq T
    <2> HIDE DEF T
    <2> QED BY <1>3, <1>4, SetInduction
<1>6. Cardinality(S) \in Nat
    BY FS_CardinalityType
<1> QED BY <1>5, <1>6

(* The sum over a finite set of traces that share no fiber.                *)
LEMMA SumOfDisjoint ==
    ASSUME NEW S, IsFiniteSet(S), FibersOfAll(S) \subseteq Fibers, Disjoint(S)
    PROVE  MapThenSumSet(LAMBDA t : Statistics(t.splice, t.levels).total_fibers, S)
             = Cardinality(FibersOfAll(S))
<1> DEFINE g == CHOOSE h : IsTotal(h, S)
<1>1. IsTotal(g, S)
    BY CountsAreTotal
<1> HIDE DEF g
<1>2. g[S] = Cardinality(FibersOfAll(S))
    BY <1>1, TotalsAreCounts
<1> QED BY <1>2, TotalIsFold DEF g

-----------------------------------------------------------------------------
(* While nobody edits, the traces of a kind that skips share no fiber: a   *)
(* fiber is only traced when no earlier trace has shown it, and what two   *)
(* traces shared would connect their roots.                                *)
Separate ==
    SkipsSeen(req.kind) /\ edits = 0 /\ OneFiberPerSide(splice) => Disjoint(req.traces)
TotalInv == ChainInv /\ Separate

LEMMA TracingKeepsSeparate ==
    ASSUME TotalInv, NEW f \in req.todo, TraceNext(f) PROVE Separate'
<1> DEFINE t == TraceOf(f)
<1>0. ChainInv /\ TraceInv /\ TypeOK /\ splice \in Table
    BY DEF TotalInv, ChainInv, TraceInv, TypeOK
<1>1. /\ f \in Fibers /\ req'.kind = req.kind /\ req'.traces = req.traces \cup {t}
      /\ UNCHANGED <<splice, edits>>
    BY <1>0, TraceNextFacts
<1>2. t.levels = Levels(splice, f)
    BY DEF TraceOf
<1> HIDE DEF t
<1> SUFFICES ASSUME SkipsSeen(req.kind), edits = 0, OneFiberPerSide(splice)
             PROVE  Disjoint(req.traces \cup {t})
    BY <1>1 DEF Separate
<1>3. Disjoint(req.traces)
    BY DEF TotalInv, Separate
<1>4. TracedFibers(t.levels) = Connected(splice, f)
    BY <1>0, <1>1, <1>2, TracedIsAllConnected DEF ChainInv, AllNear
<1>5. f \notin Shown
    BY <1>0 DEF TraceNext, TraceInv, Accounted
<1>6. ASSUME NEW u \in req.traces, NEW g \in TracedFibers(u.levels),
             g \in TracedFibers(t.levels)
      PROVE  FALSE
    <2>1. u.splice = splice
        BY <1>0 DEF TraceInv, Current
    <2>2. u.root \in Fibers /\ TracedFibers(u.levels) = Connected(splice, u.root)
        BY <1>0, <2>1, ShownIsConnected
    <2>3. Connected(splice, g) = Connected(splice, f)
        BY <1>1, <1>4, <1>6, ConnectedSame
    <2>4. Connected(splice, g) = Connected(splice, u.root)
        BY <1>6, <2>2, ConnectedSame
    <2>5. f \in TracedFibers(u.levels)
        <3>1. f \in Connected(splice, f)
            BY <1>1, ConnectedClosed
        <3> QED BY <2>2, <2>3, <2>4, <3>1
    <2> QED BY <1>5, <2>5 DEF Shown
<1> QED BY <1>3, <1>6 DEF Disjoint

LEMMA TotalStep == TotalInv /\ [Next]_vars => TotalInv'
<1> SUFFICES ASSUME TotalInv, [Next]_vars PROVE TotalInv'
    OBVIOUS
<1>0. ChainInv /\ ChainInv' /\ TypeOK /\ req \in Request
    BY ChainStep DEF TotalInv, ChainInv, TraceInv, TypeOK
<1>1. ASSUME NEW kind \in Kinds, NEW x \in Targets(kind), Ask(kind, x) PROVE Separate'
    BY <1>1 DEF Ask, Idle, Separate, Disjoint
<1>2. ASSUME NEW f \in req.todo, Skip(f) PROVE Separate'
    <2>1. req'.kind = req.kind /\ req'.traces = req.traces /\ UNCHANGED <<splice, edits>>
        BY <1>0, <1>2 DEF Skip, Request
    <2> QED BY <2>1 DEF TotalInv, Separate
<1>3. ASSUME NEW f \in req.todo, TraceNext(f) PROVE Separate'
    BY <1>3, TracingKeepsSeparate
<1>4. ASSUME Answer PROVE Separate'
    <2>1. req'.traces = {}
        BY <1>4 DEF Answer, Idle
    <2>2. Disjoint(req.traces)'
        BY <2>1 DEF Disjoint
    <2> QED BY <2>2 DEF Separate
<1>5. ASSUME NEW s \in Splices, ClearRow(s) PROVE Separate'
    <2>1. edits' # 0
        BY <1>0, <1>5, TablesAssumption DEF ClearRow, TypeOK
    <2> QED BY <2>1 DEF Separate
<1>6. ASSUME UNCHANGED vars PROVE Separate'
    <2>1. UNCHANGED <<req, splice, edits>>
        BY <1>6 DEF vars
    <2>2. Separate
        BY DEF TotalInv
    <2>3. /\ SkipsSeen(req.kind)' = SkipsSeen(req.kind)
          /\ OneFiberPerSide(splice)' = OneFiberPerSide(splice)
        BY <2>1
    <2> QED BY <2>1, <2>2, <2>3 DEF Separate
<1> QED BY <1>0, <1>1, <1>2, <1>3, <1>4, <1>5, <1>6 DEF Next, TotalInv

(* The totals of a node, an address or a unit, sums over its traces, count *)
(* no fiber twice while nobody edits.                                      *)
THEOREM TotalsAreExact == ASSUME ShortChains PROVE Spec => []TotalsCountOnce
<1>1. Init => TotalInv
    BY ChainInit DEF Init, Idle, TotalInv, Separate, Disjoint
<1>2. ASSUME TotalInv PROVE TotalsCountOnce
    <2> SUFFICES ASSUME edits = 0, SkipsSeen(req.kind), OneFiberPerSide(splice)
                 PROVE  MapThenSumSet(LAMBDA t : Statistics(t.splice, t.levels).total_fibers,
                                      req.traces)
                          = Cardinality(FibersOfAll(req.traces))
        BY DEF TotalsCountOnce, FibersOfAll
    <2>1. IsFiniteSet(req.traces) /\ Disjoint(req.traces)
        BY <1>2 DEF TotalInv, ChainInv, TraceInv, Separate
    <2>2. ASSUME NEW t \in req.traces PROVE TracedFibers(t.levels) \subseteq Fibers
        <3>1. t.splice = splice
            BY <1>2 DEF TotalInv, ChainInv, TraceInv, Current
        <3>2. t.root \in Fibers /\ TracedFibers(t.levels) = Connected(splice, t.root)
            BY <1>2, <3>1, ShownIsConnected DEF TotalInv
        <3> QED BY <3>2, ConnectedClosed
    <2>3. FibersOfAll(req.traces) \subseteq Fibers
        BY <2>2 DEF FibersOfAll
    <2> QED BY <2>1, <2>3, SumOfDisjoint
<1> QED BY <1>1, <1>2, TotalStep, PTL DEF Spec
-----------------------------------------------------------------------------
(* A node of depth d of the tree: one row of every depth down to its own.  *)
NodesOfDepth(levels, d) ==
    {n \in Seq(RowsAt(levels)) : Len(n) = d + 1 /\ \A i \in 1 .. d + 1 : n[i] \in levels[i - 1]}

Lengthened(N, S) == {Append(n, p) : n \in N, p \in S}
Begun(S) == {<<p>> : p \in S}

(* What is lengthened is a sequence with one more element.                 *)
LEMMA LengthenedIs ==
    ASSUME NEW N, NEW S, NEW x \in Lengthened(N, S)
    PROVE  \E n \in N : \E p \in S : x = Append(n, p)
BY Z3 DEF Lengthened

(* The choices of each depth are those of the depth before with a row more.*)
LEMMA NodesOfDepthStep ==
    ASSUME NEW levels
    PROVE  /\ NodesOfDepth(levels, 0) = Begun(levels[0])
           /\ \A d \in 1 .. MaxDepth :
                  NodesOfDepth(levels, d) = Lengthened(NodesOfDepth(levels, d - 1), levels[d])
<1> DEFINE R == RowsAt(levels)
<1>0. MaxDepth \in Nat /\ \A d \in 0 .. MaxDepth : levels[d] \subseteq R
    BY ConstantsAssumption DEF RowsAt
<1> HIDE DEF R
<1>1. ASSUME NEW p \in levels[0] PROVE <<p>> \in NodesOfDepth(levels, 0)
    <2>1. p \in R
        BY <1>0
    <2>2. <<p>> \in Seq(R) /\ Len(<<p>>) = 1 /\ <<p>>[1] = p
        BY <2>1
    <2> QED BY <2>2 DEF NodesOfDepth, R
<1>2. ASSUME NEW n \in NodesOfDepth(levels, 0) PROVE \E p \in levels[0] : n = <<p>>
    <2>1. n \in Seq(R) /\ Len(n) = 1 /\ n[1] \in levels[0]
        BY DEF NodesOfDepth, R
    <2>2. n = <<n[1]>>
        BY <2>1
    <2> QED BY <2>1, <2>2
<1>3. ASSUME NEW d \in 1 .. MaxDepth, NEW n \in NodesOfDepth(levels, d - 1), NEW p \in levels[d]
      PROVE  Append(n, p) \in NodesOfDepth(levels, d)
    <2>1. n \in Seq(R) /\ Len(n) = d /\ d \in Nat /\ p \in R
        BY <1>0 DEF NodesOfDepth, R
    <2>2. \A i \in 1 .. d : n[i] \in levels[i - 1]
        BY <2>1 DEF NodesOfDepth
    <2>3. /\ Append(n, p) \in Seq(R) /\ Len(Append(n, p)) = d + 1
          /\ \A i \in 1 .. d : Append(n, p)[i] = n[i]
          /\ Append(n, p)[d + 1] = p
        BY <2>1, AppendProperties
    <2>4. ASSUME NEW i \in 1 .. d + 1 PROVE Append(n, p)[i] \in levels[i - 1]
        <3>1. CASE i = d + 1
            BY <2>1, <2>3, <3>1
        <3>2. CASE i # d + 1
            <4>1. i \in 1 .. d
                BY <2>1, <3>2
            <4> QED BY <2>2, <2>3, <4>1
        <3> QED BY <3>1, <3>2
    <2> QED BY <2>3, <2>4 DEF NodesOfDepth, R
<1>4. ASSUME NEW d \in 1 .. MaxDepth, NEW n \in NodesOfDepth(levels, d)
      PROVE  \E m \in NodesOfDepth(levels, d - 1) : \E p \in levels[d] : n = Append(m, p)
    <2>1. n \in Seq(R) /\ Len(n) = d + 1 /\ d \in Nat \ {0}
        BY <1>0 DEF NodesOfDepth, R
    <2>2. n # << >>
        BY <2>1, EmptySeq
    <2>3. PICK m \in Seq(R), p \in R : n = Append(m, p)
        BY <2>1, <2>2, SequenceEmptyOrAppend
    <2>4. /\ Len(m) \in Nat /\ Len(n) = Len(m) + 1
          /\ \A i \in 1 .. Len(m) : n[i] = m[i]
          /\ n[Len(m) + 1] = p
        BY <2>3, AppendProperties, LenProperties
    <2>5. Len(m) = d
        BY <2>1, <2>4
    <2>6. \A i \in 1 .. d + 1 : n[i] \in levels[i - 1]
        BY DEF NodesOfDepth
    <2>7. p \in levels[d] /\ \A i \in 1 .. d : m[i] \in levels[i - 1]
        BY <2>1, <2>4, <2>5, <2>6
    <2>8. d - 1 + 1 = d
        BY <2>1
    <2>9. m \in NodesOfDepth(levels, d - 1)
        BY <2>3, <2>5, <2>7, <2>8 DEF NodesOfDepth, R
    <2> QED BY <2>3, <2>7, <2>9
<1>5. NodesOfDepth(levels, 0) = Begun(levels[0])
    BY <1>1, <1>2 DEF Begun
<1>6. ASSUME NEW d \in 1 .. MaxDepth
      PROVE  NodesOfDepth(levels, d) = Lengthened(NodesOfDepth(levels, d - 1), levels[d])
    <2>1. NodesOfDepth(levels, d) \subseteq Lengthened(NodesOfDepth(levels, d - 1), levels[d])
        BY <1>4 DEF Lengthened
    <2>2. Lengthened(NodesOfDepth(levels, d - 1), levels[d]) \subseteq NodesOfDepth(levels, d)
        <3>1. \A n \in NodesOfDepth(levels, d - 1), p \in levels[d] :
                  Append(n, p) \in NodesOfDepth(levels, d)
            BY <1>3
        <3> DEFINE N == NodesOfDepth(levels, d - 1)
                   C == NodesOfDepth(levels, d)
        <3> HIDE DEF N, C
        <3>2. ASSUME NEW x \in Lengthened(N, levels[d]) PROVE x \in C
            <4>1. PICK n \in N : \E p \in levels[d] : x = Append(n, p)
                BY LengthenedIs
            <4> QED BY <3>1, <4>1 DEF N, C
        <3> QED BY <3>2 DEF N, C
    <2> QED BY <2>1, <2>2
<1> QED BY <1>5, <1>6

(* The nodes of the tree are these choices.                                *)
IsTree(g, levels) ==
    g = [d \in 0 .. MaxDepth |->
            IF d = 0 THEN Begun(levels[0]) ELSE Lengthened(g[d - 1], levels[d])]

LEMMA TreeIsNodesOfDepth ==
    ASSUME NEW levels, NEW g, IsTree(g, levels)
    PROVE  \A d \in 0 .. MaxDepth : g[d] = NodesOfDepth(levels, d)
<1> DEFINE T == {n \in Nat : n <= MaxDepth => g[n] = NodesOfDepth(levels, n)}
<1>1. /\ MaxDepth \in Nat /\ g[0] = Begun(levels[0])
      /\ \A d \in 0 .. MaxDepth : d # 0 =>
             g[d] = Lengthened(g[d - 1], levels[d])
    BY ConstantsAssumption DEF IsTree
<1>2. 0 \in T
    BY <1>1, NodesOfDepthStep
<1>3. ASSUME NEW n \in Nat, n \in T PROVE n + 1 \in T
    <2> SUFFICES ASSUME n + 1 <= MaxDepth PROVE g[n + 1] = NodesOfDepth(levels, n + 1)
        OBVIOUS
    <2> DEFINE e == n + 1
    <2>1. e \in 1 .. MaxDepth /\ e \in 0 .. MaxDepth /\ e # 0 /\ e - 1 = n
        BY <1>1
    <2>2. g[n] = NodesOfDepth(levels, n)
        BY <1>1, <1>3
    <2> HIDE DEF e
    <2>3. g[e] = Lengthened(g[e - 1], levels[e])
        BY <1>1, <2>1
    <2>4. NodesOfDepth(levels, e) = Lengthened(NodesOfDepth(levels, e - 1), levels[e])
        BY <2>1, NodesOfDepthStep
    <2>5. g[e] = NodesOfDepth(levels, e)
        BY <2>1, <2>2, <2>3, <2>4
    <2> QED BY <2>5 DEF e
<1>4. Nat \subseteq T
    <2> HIDE DEF T
    <2> QED BY <1>2, <1>3, SetInduction
<1> QED BY <1>1, <1>4

LEMMA TreeNodesAre ==
    ASSUME NEW levels
    PROVE  TreeNodes(levels) = UNION {NodesOfDepth(levels, d) : d \in 0 .. MaxDepth}
<1> DEFINE W == [d \in 0 .. MaxDepth |-> NodesOfDepth(levels, d)]
<1>1. ASSUME NEW d \in 0 .. MaxDepth
      PROVE  W[d] = IF d = 0 THEN Begun(levels[0]) ELSE Lengthened(W[d - 1], levels[d])
    <2>1. CASE d = 0
        BY <2>1, NodesOfDepthStep
    <2>2. CASE d # 0
        <3>1. d \in 1 .. MaxDepth /\ d - 1 \in 0 .. MaxDepth
            BY <2>2, ConstantsAssumption
        <3>2. W[d] = NodesOfDepth(levels, d) /\ W[d - 1] = NodesOfDepth(levels, d - 1)
            BY <3>1
        <3> QED BY <2>2, <3>1, <3>2, NodesOfDepthStep
    <2> QED BY <2>1, <2>2
<1>2. W = [d \in 0 .. MaxDepth |-> W[d]]
    OBVIOUS
<1> HIDE DEF W
<1>3. IsTree(W, levels)
    BY <1>1, <1>2 DEF IsTree
<1> DEFINE g == CHOOSE h : IsTree(h, levels)
<1>4. TreeNodes(levels) = UNION {g[d] : d \in 0 .. MaxDepth}
    BY DEF TreeNodes, IsTree, Begun, Lengthened
<1>5. IsTree(g, levels)
    BY <1>3
<1> HIDE DEF g
<1>6. \A d \in 0 .. MaxDepth : g[d] = NodesOfDepth(levels, d)
    BY <1>5, TreeIsNodesOfDepth
<1> QED BY <1>4, <1>6
-----------------------------------------------------------------------------
(* The node of a path: its beginnings, one of every depth.                 *)
NodeOfPath(p) == [i \in 1 .. Len(p) |-> Prefix(p, i)]

(* A node of the tree ends in a row of its depth.                          *)
LEMMA NodeFacts ==
    ASSUME NEW levels, NEW n \in TreeNodes(levels)
    PROVE  \E d \in 0 .. MaxDepth :
              /\ n \in NodesOfDepth(levels, d) /\ Len(n) = d + 1 /\ d \in Nat
              /\ n \in Seq(RowsAt(levels))
              /\ \A i \in 1 .. d + 1 : n[i] \in levels[i - 1]
              /\ Last(n) = n[d + 1] /\ Last(n) \in levels[d] /\ Last(n) \in RowsAt(levels)
<1>1. PICK d \in 0 .. MaxDepth : n \in NodesOfDepth(levels, d)
    BY TreeNodesAre
<1>2. /\ Len(n) = d + 1 /\ d \in Nat /\ n \in Seq(RowsAt(levels))
      /\ \A i \in 1 .. d + 1 : n[i] \in levels[i - 1]
    BY <1>1, ConstantsAssumption DEF NodesOfDepth
<1>3. n[d + 1] \in levels[d + 1 - 1] /\ d + 1 - 1 = d
    BY <1>2
<1>4. Last(n) = n[d + 1] /\ Last(n) \in levels[d]
    BY <1>2, <1>3 DEF Last
<1>5. Last(n) \in RowsAt(levels)
    BY <1>4 DEF RowsAt
<1> QED BY <1>1, <1>2, <1>4, <1>5

(* Every row has a node that ends in it, above which lie the fibers its    *)
(* path passes before.                                                     *)
LEMMA PathNodes ==
    ASSUME NEW tab \in Table, NEW f \in Fibers, NEW d \in 0 .. MaxDepth,
           NEW p \in Levels(tab, f)[d]
    PROVE  /\ NodeOfPath(p) \in NodesOfDepth(Levels(tab, f), d)
           /\ NodeOfPath(p) \in TreeNodes(Levels(tab, f))
           /\ Last(NodeOfPath(p)) = p /\ FiberOf(NodeOfPath(p)) = Last(p).fiber
           /\ Above(NodeOfPath(p)) = {p[i].fiber : i \in 1 .. Len(p) - 1}
<1> DEFINE n == NodeOfPath(p)
           L == Levels(tab, f)
<1>1. /\ p \in SimplePaths(tab, f, d) /\ p \in Paths /\ Len(p) = d + 1 /\ d \in Nat
    BY VisitedTraced, ConstantsAssumption
<1>2. \A i \in 1 .. d + 1 : Prefix(p, i) \in L[i - 1] /\ i - 1 \in 0 .. MaxDepth
    BY <1>1, ConstantsAssumption DEF SimplePaths
<1>3. \A i \in 1 .. d + 1 : Prefix(p, i) \in RowsAt(L)
    BY <1>2 DEF RowsAt
<1>4. n = [i \in 1 .. d + 1 |-> Prefix(p, i)] /\ d + 1 \in Nat
    BY <1>1 DEF NodeOfPath
<1> HIDE DEF L, n
<1>5. /\ n \in Seq(RowsAt(L)) /\ Len(n) = d + 1
      /\ \A i \in 1 .. d + 1 : n[i] = Prefix(p, i)
    BY <1>3, <1>4
<1>6. n \in NodesOfDepth(L, d)
    BY <1>2, <1>5 DEF NodesOfDepth
<1>7. n \in TreeNodes(L)
    BY <1>6, TreeNodesAre
<1>8. ASSUME NEW i \in 1 .. d + 1 PROVE Last(Prefix(p, i)) = p[i]
    <2>1. i \in Nat /\ i \in 1 .. i
        BY <1>1
    <2>2. Len(Prefix(p, i)) = i
        BY <2>1 DEF Prefix
    <2> QED BY <2>1, <2>2 DEF Last, Prefix
<1>9. Prefix(p, d + 1) = p
    BY <1>1, PathFacts DEF Prefix
<1>10. Last(n) = p
    BY <1>1, <1>5, <1>9 DEF Last
<1>11. Above(n) = {p[i].fiber : i \in 1 .. Len(p) - 1}
    <2>1. \A i \in 1 .. d : Last(n[i]).fiber = p[i].fiber
        BY <1>1, <1>5, <1>8
    <2>2. Len(n) - 1 = d /\ Len(p) - 1 = d
        BY <1>1, <1>5
    <2> QED BY <2>1, <2>2 DEF Above
<1> QED BY <1>6, <1>7, <1>10, <1>11 DEF FiberOf, n, L

(* So the tree shows the rows of the query, their fibers and their splices.*)
LEMMA TreeShowsRows ==
    ASSUME NEW tab \in Table, NEW f \in Fibers
    PROVE  /\ {FiberOf(n) : n \in TreeNodes(Levels(tab, f))} = TracedFibers(Levels(tab, f))
           /\ {SpliceNodeOf(n) : n \in TreeNodes(Levels(tab, f))} \ {None}
                = SpliceNodes(Levels(tab, f))
<1> DEFINE L == Levels(tab, f)
<1>1. ASSUME NEW n \in TreeNodes(L) PROVE Last(n) \in RowsAt(L)
    BY NodeFacts
<1>2. ASSUME NEW p \in RowsAt(L) PROVE \E n \in TreeNodes(L) : Last(n) = p
    <2>1. PICK d \in 0 .. MaxDepth : p \in L[d]
        BY DEF RowsAt
    <2>2. NodeOfPath(p) \in TreeNodes(L) /\ Last(NodeOfPath(p)) = p
        BY <2>1, PathNodes
    <2> QED BY <2>2
<1>3. ASSUME NEW p \in RowsAt(L) PROVE Last(p).splice \in Splices \cup {None}
    <2>1. PICK d \in 0 .. MaxDepth : p \in L[d]
        BY DEF RowsAt
    <2>2. p \in Paths /\ Len(p) = d + 1 /\ Len(p) \in 1 .. Len(p)
        BY <2>1, VisitedTraced, ConstantsAssumption
    <2> QED BY <2>2, PathFacts DEF Last
<1> HIDE DEF L
<1>4. {FiberOf(n) : n \in TreeNodes(L)} = TracedFibers(L)
    BY <1>1, <1>2 DEF FiberOf, TracedFibers
<1>5. \A s \in Splices : NodeOf[s] # None /\ s # None
    BY ConstantsAssumption
<1>6. {SpliceNodeOf(n) : n \in TreeNodes(L)} \ {None} = SpliceNodes(L)
    <2>1. ASSUME NEW n \in TreeNodes(L), SpliceNodeOf(n) # None
          PROVE  SpliceNodeOf(n) \in SpliceNodes(L)
        BY <1>1, <2>1 DEF SpliceNodeOf, SpliceNodes, TracedSplices
    <2>2. ASSUME NEW s \in TracedSplices(L)
          PROVE  \E n \in TreeNodes(L) : SpliceNodeOf(n) = NodeOf[s] /\ NodeOf[s] # None
        <3>1. PICK p \in RowsAt(L) : Last(p).splice = s /\ s # None
            BY DEF TracedSplices
        <3>2. PICK n \in TreeNodes(L) : Last(n) = p
            BY <1>2
        <3>3. s \in Splices
            BY <1>3, <3>1
        <3>4. SpliceNodeOf(n) = NodeOf[s]
            BY <3>1, <3>2 DEF SpliceNodeOf
        <3> QED BY <1>5, <3>3, <3>4
    <2>3. ASSUME NEW m \in SpliceNodes(L)
          PROVE  \E n \in TreeNodes(L) : SpliceNodeOf(n) = m /\ m # None
        BY <2>2 DEF SpliceNodes
    <2> QED BY <2>1, <2>3
<1> QED BY <1>4, <1>6 DEF L

(* When a trace starts from a broken fiber, every node of its tree is hit. *)
LEMMA AllNodesHit ==
    ASSUME NEW tab, NEW f, NEW broken, f \in broken
    PROVE  HitNodes(Levels(tab, f), broken) = TreeNodes(Levels(tab, f))
<1> DEFINE L == Levels(tab, f)
<1>1. ASSUME NEW n \in TreeNodes(L) PROVE SignalState(n, broken) \in {"dark", "break_point"}
    <2>1. PICK d \in 0 .. MaxDepth : /\ Len(n) = d + 1 /\ d \in Nat
                                     /\ \A i \in 1 .. d + 1 : n[i] \in L[i - 1]
        BY NodeFacts
    <2>2. n[1] \in L[0] /\ L[0] = {RootRow(f)}
        BY <2>1, LevelsSteps
    <2>3. Last(n[1]).fiber = f
        BY <2>2 DEF Last, RootRow
    <2>4. CASE d = 0
        <3>1. FiberOf(n) = f
            BY <2>1, <2>3, <2>4 DEF FiberOf, Last
        <3> QED BY <3>1 DEF SignalState
    <2>5. CASE d # 0
        <3>1. 1 \in 1 .. Len(n) - 1
            BY <2>1, <2>5
        <3>2. f \in Above(n)
            BY <2>3, <3>1 DEF Above
        <3> QED BY <3>2 DEF SignalState
    <2> QED BY <2>4, <2>5
<1> QED BY <1>1 DEF HitNodes, NodesInState
-----------------------------------------------------------------------------
(* The rows between fibers connected with f.                               *)
RowsBetween(tab, C) ==
    {s \in RowsOf(tab) : \E g, h \in C : g # h /\ FibersIn(tab[s]) = {g, h}}

(* A row between two fibers is a hop from each to the other, and joins them.*)
LEMMA RowBetween ==
    ASSUME NEW tab \in Table, OneFiberPerSide(tab), NEW s \in RowsOf(tab),
           NEW g \in Fibers, NEW h \in Fibers, g # h, FibersIn(tab[s]) = {g, h}
    PROVE  [fiber |-> h, splice |-> s] \in Hops(tab, g) /\ h \in JoinedTo(tab, g)
<1>1. /\ {g, h} = {FiberAt(tab[s].a), FiberAt(tab[s].b)} \ {None}
      /\ {g, Across(tab[s], g)} = {FiberAt(tab[s].a), FiberAt(tab[s].b)}
    BY SidesOfRow
<1>2. {g, h} = {FiberAt(tab[s].a), FiberAt(tab[s].b)}
    BY <1>1
<1>3. Across(tab[s], g) = h
    BY <1>1, <1>2
<1> QED BY <1>2, <1>3 DEF Hops, JoinedTo

(* A trace passes exactly the rows between the fibers it shows: a row it   *)
(* meets from neither side would have been met by the shorter of two paths.*)
LEMMA TracedSplicesAre ==
    ASSUME NEW tab \in Table, OneFiberPerSide(tab), NEW f \in Fibers, Near(tab, f)
    PROVE  TracedSplices(Levels(tab, f)) = RowsBetween(tab, Connected(tab, f))
<1> DEFINE L == Levels(tab, f)
           C == Connected(tab, f)
<1>1. TracedFibers(L) = C /\ C \subseteq Fibers
    BY TracedIsAllConnected, ConnectedClosed
<1>2. ASSUME NEW s \in TracedSplices(L) PROVE s \in RowsBetween(tab, C)
    <2>1. PICK d \in 0 .. MaxDepth : \E p \in L[d] : Last(p).splice = s /\ s # None
        BY DEF TracedSplices, RowsAt
    <2>2. PICK p \in L[d] : Last(p).splice = s
        BY <2>1
    <2>3. /\ p \in SimplePaths(tab, f, d) /\ p \in Paths /\ Len(p) = d + 1 /\ d \in Nat
          /\ Visited(p) \subseteq C
        BY <1>1, VisitedTraced, ConstantsAssumption
    <2>4. /\ Last(p) = p[d + 1] /\ p[1].splice = None
          /\ \A i, j \in 1 .. d + 1 : p[i].fiber = p[j].fiber => i = j
          /\ \A i \in 1 .. d : p[i + 1] \in Hops(tab, p[i].fiber)
        BY <2>3 DEF SimplePaths, Last
    <2>5. d # 0
        BY <2>1, <2>2, <2>4
    <2>6. p[d + 1] \in Hops(tab, p[d].fiber) /\ d \in 1 .. d + 1 /\ d + 1 \in 1 .. d + 1
        BY <2>3, <2>4, <2>5
    <2> DEFINE g == p[d].fiber
               h == p[d + 1].fiber
    <2>7. g \in C /\ h \in C /\ g # h
        <3>1. g \in Visited(p) /\ h \in Visited(p)
            BY <2>3, <2>6 DEF Visited
        <3> QED BY <2>3, <2>4, <2>6, <3>1
    <2>8. s \in RowsOf(tab) /\ g \in FibersIn(tab[s]) /\ h = Across(tab[s], g)
        <3>1. PICK r \in RowsOf(tab) :
                 g \in FibersIn(tab[r]) /\ p[d + 1] = [fiber |-> Across(tab[r], g), splice |-> r]
            BY <2>6 DEF Hops
        <3>2. r = s
            BY <2>2, <2>4, <3>1
        <3> QED BY <3>1, <3>2
    <2>9. g \in Fibers /\ h \in Fibers /\ h # None
        BY <1>1, <2>7, ConstantsAssumption
    <2> HIDE DEF g, h
    <2>10. FibersIn(tab[s]) = {g, h}
        <3>1. /\ FibersIn(tab[s]) = {FiberAt(tab[s].a), FiberAt(tab[s].b)} \ {None}
              /\ {g, h} = {FiberAt(tab[s].a), FiberAt(tab[s].b)}
            BY <2>8, SidesOfRow
        <3> QED BY <2>9, <3>1, ConstantsAssumption
    <2> QED BY <2>7, <2>8, <2>10 DEF RowsBetween
<1>3. ASSUME NEW s \in RowsBetween(tab, C) PROVE s \in TracedSplices(L)
    <2>1. PICK g \in C, h \in C : g # h /\ FibersIn(tab[s]) = {g, h}
        BY DEF RowsBetween
    <2>2. s \in RowsOf(tab) /\ s # None /\ s \in Splices /\ g \in Fibers /\ h \in Fibers
        BY <1>1, ConstantsAssumption DEF RowsBetween, RowsOf
    <2>3. ASSUME NEW x \in {g, h}, NEW y \in {g, h}, x # y, NEW d \in 0 .. MaxDepth,
                 NEW p \in L[d], Last(p).fiber = x, y \notin Visited(p)
          PROVE  s \in TracedSplices(L)
        <3> DEFINE hop == [fiber |-> y, splice |-> s]
        <3>1. FibersIn(tab[s]) = {x, y} /\ x \in Fibers /\ y \in Fibers
            BY <2>1, <2>2, <2>3
        <3>2. hop \in Hops(tab, x)
            BY <2>2, <2>3, <3>1, RowBetween
        <3>3. hop.fiber = y /\ hop.splice = s /\ hop \in Step
            BY <2>2, <3>1 DEF Step
        <3> HIDE DEF hop
        <3>4. d + 1 \in 0 .. MaxDepth /\ Append(p, hop) \in L[d + 1]
            BY <2>3, <3>1, <3>2, <3>3, TracedFollowsJoins
        <3>5. p \in Paths
            BY VisitedTraced
        <3>6. Last(Append(p, hop)) = hop
            BY <3>3, <3>5, Appended DEF Last
        <3>7. Append(p, hop) \in RowsAt(L)
            BY <3>4 DEF RowsAt
        <3> QED BY <2>2, <3>3, <3>6, <3>7 DEF TracedSplices
    <2>4. PICK d \in 0 .. MaxDepth : \E p \in L[d] : Last(p).fiber = g
        BY <1>1 DEF TracedFibers, RowsAt
    <2>5. PICK p \in L[d] : Last(p).fiber = g
        BY <2>4
    <2>6. CASE h \notin Visited(p)
        BY <2>1, <2>3, <2>5, <2>6
    <2>7. CASE h \in Visited(p)
        <3>1. /\ p \in SimplePaths(tab, f, d) /\ p \in Paths /\ Len(p) = d + 1 /\ d \in Nat
            BY VisitedTraced, ConstantsAssumption
        <3>2. PICK i \in 1 .. d + 1 : p[i].fiber = h
            BY <2>7, <3>1 DEF Visited
        <3>3. /\ Last(p) = p[d + 1]
              /\ \A j, k \in 1 .. d + 1 : p[j].fiber = p[k].fiber => j = k
              /\ Prefix(p, i) \in L[i - 1]
            BY <3>1 DEF SimplePaths, Last
        <3>4. i # d + 1 /\ i \in 1 .. d /\ i - 1 \in 0 .. MaxDepth
            BY <2>1, <2>5, <3>1, <3>2, <3>3, ConstantsAssumption
        <3> DEFINE q == Prefix(p, i)
        <3>5. Len(q) = i /\ \A k \in 1 .. i : q[k] = p[k]
            BY <3>4 DEF Prefix
        <3> HIDE DEF q
        <3>6. Last(q).fiber = h
            BY <3>2, <3>4, <3>5 DEF Last
        <3>7. g \notin Visited(q)
            <4>1. ASSUME NEW k \in 1 .. i PROVE q[k].fiber # g
                <5>1. k \in 1 .. d + 1 /\ k # d + 1 /\ d + 1 \in 1 .. d + 1
                    BY <3>1, <3>4
                <5>2. p[k].fiber # p[d + 1].fiber
                    BY <3>3, <5>1
                <5> QED BY <2>5, <3>3, <3>5, <5>2
            <4> QED BY <3>5, <4>1 DEF Visited
        <3>8. q \in L[i - 1]
            BY <3>3 DEF q
        <3> QED BY <2>1, <2>3, <3>4, <3>6, <3>7, <3>8
    <2> QED BY <2>6, <2>7
<1> QED BY <1>2, <1>3
-----------------------------------------------------------------------------
(* What a function makes of the members of a finite set is a finite set.   *)
LEMMA FiniteImage ==
    ASSUME NEW S, IsFiniteSet(S), NEW g PROVE IsFiniteSet({g[x] : x \in S})
<1> DEFINE T == {g[x] : x \in S}
           F == [x \in S |-> g[x]]
<1>1. F \in [S -> T] /\ \A t \in T : \E x \in S : F[x] = t
    OBVIOUS
<1> HIDE DEF F, T
<1>2. F \in Surjection(S, T)
    BY <1>1, Fun_IsSurj
<1>3. IsFiniteSet(T)
    BY <1>2, FS_Surjection
<1> QED BY <1>3 DEF T

(* A level of the query is finite: a row has few successors.               *)
LEMMA LevelsFinite ==
    ASSUME NEW tab \in Table, NEW f \in Fibers
    PROVE  \A d \in 0 .. MaxDepth : IsFiniteSet(Levels(tab, f)[d])
<1> DEFINE L == Levels(tab, f)
           T == {n \in Nat : n <= MaxDepth => IsFiniteSet(L[n])}
<1>1. /\ MaxDepth \in Nat /\ L[0] = {RootRow(f)}
      /\ \A d \in 0 .. MaxDepth : d # 0 => L[d] = Further(tab, L[d - 1])
    BY LevelsSteps
<1> HIDE DEF L
<1>2. ASSUME NEW p PROVE IsFiniteSet(Extend(tab, p))
    <2> DEFINE x == Last(p).fiber
               g == [s \in Splices |-> Append(p, [fiber |-> Across(tab[s], x), splice |-> s])]
    <2>1. IsFiniteSet({g[s] : s \in Splices})
        <3> HIDE DEF g
        <3> QED BY FiniteImage, ConstantsAssumption
    <2>2. Extend(tab, p) \subseteq {g[s] : s \in Splices}
        <3>1. ASSUME NEW q \in Extend(tab, p) PROVE \E s \in Splices : q = g[s]
            <4>1. PICK h \in Hops(tab, x) : q = Append(p, h)
                BY DEF Extend
            <4>2. PICK s \in RowsOf(tab) : h = [fiber |-> Across(tab[s], x), splice |-> s]
                BY DEF Hops
            <4>3. s \in Splices /\ g[s] = Append(p, h)
                BY <4>2 DEF RowsOf
            <4> QED BY <4>1, <4>3
        <3> QED BY <3>1
    <2> QED BY <2>1, <2>2, FS_Subset
<1>3. ASSUME NEW P, IsFiniteSet(P) PROVE IsFiniteSet(Further(tab, P))
    <2> DEFINE g == [p \in P |-> Extend(tab, p)]
               E == {g[p] : p \in P}
    <2>1. IsFiniteSet(E)
        <3> HIDE DEF g
        <3> QED BY <1>3, FiniteImage
    <2>2. \A e \in E : IsFiniteSet(e)
        BY <1>2
    <2>3. Further(tab, P) = UNION E
        BY DEF Further
    <2> HIDE DEF E
    <2> QED BY <2>1, <2>2, <2>3, FS_UNION
<1>4. 0 \in T
    BY <1>1, FS_Singleton
<1>5. ASSUME NEW n \in Nat, n \in T PROVE n + 1 \in T
    <2> SUFFICES ASSUME n + 1 <= MaxDepth PROVE IsFiniteSet(L[n + 1])
        OBVIOUS
    <2>1. L[n + 1] = Further(tab, L[n]) /\ IsFiniteSet(L[n])
        BY <1>1, <1>5
    <2> QED BY <1>3, <2>1
<1>6. Nat \subseteq T
    <2> HIDE DEF T
    <2> QED BY <1>4, <1>5, SetInduction
<1> QED BY <1>1, <1>6 DEF L

(* Where nothing branches every depth has at most one row ...              *)
LEMMA OneRowEach ==
    ASSUME NEW tab \in Table, NEW f \in Fibers, ~HasBranches(Levels(tab, f)),
           NEW d \in 0 .. MaxDepth, NEW p \in Levels(tab, f)[d], NEW q \in Levels(tab, f)[d]
    PROVE  p = q
<1> DEFINE S == Levels(tab, f)[d]
<1>1. CASE d = 0
    BY <1>1, LevelsSteps
<1>2. CASE d # 0
    <2>1. d \in 1 .. MaxDepth
        BY <1>2, ConstantsAssumption
    <2>2. IsFiniteSet(S) /\ ~(Cardinality(S) > 1)
        BY <2>1, LevelsFinite DEF HasBranches
    <2> HIDE DEF S
    <2>3. Cardinality(S) \in Nat /\ p \in S /\ q \in S
        BY <2>2, FS_CardinalityType DEF S
    <2>4. Cardinality(S) # 0
        BY <2>2, <2>3, FS_EmptySet
    <2>5. Cardinality(S) = 1
        BY <2>2, <2>3, <2>4
    <2>6. \E x : S = {x}
        BY <2>2, <2>5, FS_Singleton
    <2> QED BY <2>3, <2>6
<1> QED BY <1>1, <1>2

(* ... so that a fiber has one row ...                                     *)
LEMMA OneRowPerFiber ==
    ASSUME NEW tab \in Table, NEW f \in Fibers, ~HasBranches(Levels(tab, f)),
           NEW d \in 0 .. MaxDepth, NEW p \in Levels(tab, f)[d],
           NEW e \in 0 .. MaxDepth, NEW q \in Levels(tab, f)[e],
           Last(p).fiber = Last(q).fiber, d <= e
    PROVE  d = e /\ p = q
<1> DEFINE L == Levels(tab, f)
<1>1. /\ p \in Paths /\ Len(p) = d + 1 /\ d \in Nat
      /\ q \in SimplePaths(tab, f, e) /\ Len(q) = e + 1 /\ e \in Nat
    BY VisitedTraced, ConstantsAssumption
<1>2. /\ \A i, j \in 1 .. e + 1 : q[i].fiber = q[j].fiber => i = j
      /\ \A i \in 1 .. e + 1 : Prefix(q, i) \in L[i - 1]
    BY <1>1 DEF SimplePaths
<1>3. d + 1 \in 1 .. e + 1 /\ e + 1 \in 1 .. e + 1 /\ d + 1 - 1 = d
    BY <1>1
<1>4. Prefix(q, d + 1) \in L[d]
    BY <1>2, <1>3
<1>5. Prefix(q, d + 1) = p
    BY <1>4, OneRowEach
<1>6. p[d + 1] = q[d + 1]
    BY <1>3, <1>5 DEF Prefix
<1>7. q[d + 1].fiber = q[e + 1].fiber
    BY <1>1, <1>6 DEF Last
<1>8. d = e
    BY <1>1, <1>2, <1>3, <1>7
<1> QED BY <1>8, OneRowEach

(* ... and a node is the node of its path.                                 *)
LEMMA NodeIsOfPath ==
    ASSUME NEW tab \in Table, NEW f \in Fibers, ~HasBranches(Levels(tab, f)),
           NEW n \in TreeNodes(Levels(tab, f))
    PROVE  n = NodeOfPath(Last(n))
<1> DEFINE L == Levels(tab, f)
<1>1. PICK d \in 0 .. MaxDepth :
          /\ Len(n) = d + 1 /\ d \in Nat /\ n \in Seq(RowsAt(L))
          /\ \A i \in 1 .. d + 1 : n[i] \in L[i - 1]
          /\ Last(n) \in L[d]
    BY NodeFacts
<1> DEFINE p == Last(n)
<1> HIDE DEF p
<1>2. p \in SimplePaths(tab, f, d) /\ Len(p) = d + 1
    BY <1>1, VisitedTraced DEF p
<1>3. \A i \in 1 .. d + 1 : Prefix(p, i) \in L[i - 1] /\ i - 1 \in 0 .. MaxDepth
    BY <1>1, <1>2, ConstantsAssumption DEF SimplePaths
<1>4. \A i \in 1 .. d + 1 : n[i] = Prefix(p, i)
    BY <1>1, <1>3, OneRowEach
<1>5. n = [i \in 1 .. d + 1 |-> n[i]]
    BY <1>1, LenProperties
<1>6. n = [i \in 1 .. d + 1 |-> Prefix(p, i)]
    BY <1>4, <1>5
<1> QED BY <1>2, <1>6 DEF NodeOfPath, p

(* A set of nodes of such a tree has as many fibers as nodes.              *)
LEMMA NodesAreFibers ==
    ASSUME NEW tab \in Table, NEW f \in Fibers, ~HasBranches(Levels(tab, f)),
           TracedFibers(Levels(tab, f)) \subseteq Fibers,
           NEW N \in SUBSET TreeNodes(Levels(tab, f))
    PROVE  /\ IsFiniteSet(N) /\ Cardinality(N) = Cardinality({FiberOf(n) : n \in N})
           /\ \A n, m \in N : FiberOf(n) = FiberOf(m) => n = m
<1> DEFINE L == Levels(tab, f)
           F == {FiberOf(n) : n \in N}
           g == [n \in N |-> FiberOf(n)]
<1>1. ASSUME NEW n \in N, NEW m \in N, FiberOf(n) = FiberOf(m) PROVE n = m
    <2>1. PICK d \in 0 .. MaxDepth : Last(n) \in L[d] /\ d \in Nat
        BY NodeFacts
    <2>2. PICK e \in 0 .. MaxDepth : Last(m) \in L[e] /\ e \in Nat
        BY NodeFacts
    <2>3. Last(Last(n)).fiber = Last(Last(m)).fiber
        BY <1>1 DEF FiberOf
    <2>4. CASE d <= e
        BY <2>1, <2>2, <2>3, <2>4, OneRowPerFiber, NodeIsOfPath
    <2>5. CASE e <= d
        BY <2>1, <2>2, <2>3, <2>5, OneRowPerFiber, NodeIsOfPath
    <2> QED BY <2>1, <2>2, <2>4, <2>5
<1>2. F \subseteq TracedFibers(L)
    BY TreeShowsRows
<1>3. IsFiniteSet(F)
    BY <1>2, FS_Subset, ConstantsAssumption
<1>4. /\ g \in [N -> F] /\ \A n, m \in N : g[n] = g[m] => n = m
      /\ \A x \in F : \E n \in N : g[n] = x
    BY <1>1
<1> HIDE DEF g, F
<1>5. g \in Bijection(N, F)
    BY <1>4, Fun_IsBij
<1>6. ExistsBijection(F, N)
    BY <1>5, Fun_ExistsBijSymmetric DEF ExistsBijection
<1>7. IsFiniteSet(N) /\ Cardinality(N) = Cardinality(F)
    BY <1>3, <1>6, FS_Bijection
<1> QED BY <1>1, <1>7 DEF F
-----------------------------------------------------------------------------
(* What a fault hits through one of its traces.                            *)
UnitsAround(tab, C) == UNION {UnitsOf(tab, g) : g \in C}
PlacesAround(tab, C) == UnitsAround(tab, C) \cup {NodeOf[s] : s \in RowsBetween(tab, C)}

LEMMA HitOfTrace ==
    ASSUME NEW tab \in Table, OneFiberPerSide(tab), NEW f \in Fibers, Near(tab, f),
           NEW broken, f \in broken
    PROVE  /\ UnitsHit(tab, Levels(tab, f), broken) = UnitsAround(tab, Connected(tab, f))
           /\ AddressesHit(tab, Levels(tab, f), broken)
                = {AddressOf[x] : x \in PlacesAround(tab, Connected(tab, f))} \ {None}
<1> DEFINE L == Levels(tab, f)
           N == TreeNodes(L)
           C == Connected(tab, f)
<1>1. HitNodes(L, broken) = N
    BY AllNodesHit
<1>2. {FiberOf(n) : n \in N} = C
    BY TreeShowsRows, TracedIsAllConnected
<1>3. {SpliceNodeOf(n) : n \in N} \ {None} = {NodeOf[s] : s \in RowsBetween(tab, C)}
    <2>1. SpliceNodes(L) = {NodeOf[s] : s \in RowsBetween(tab, C)}
        BY TracedSplicesAre DEF SpliceNodes
    <2> QED BY <2>1, TreeShowsRows
<1> HIDE DEF L, N, C
<1>4. UnitsHit(tab, L, broken) = UNION {UnitsOf(tab, FiberOf(n)) : n \in N}
    BY <1>1 DEF UnitsHit, UnitsAt
<1>5. UnitsHit(tab, L, broken) = UnitsAround(tab, C)
    BY <1>2, <1>4 DEF UnitsAround
<1>6. AddressesHit(tab, L, broken)
        = AddressesAt(N) \cup ({AddressOf[u] : u \in UnitsAround(tab, C)} \ {None})
    BY <1>1, <1>5 DEF AddressesHit
<1>7. AddressesAt(N) = {AddressOf[m] : m \in {NodeOf[s] : s \in RowsBetween(tab, C)}} \ {None}
    BY <1>3 DEF AddressesAt
<1>8. AddressesHit(tab, L, broken) = {AddressOf[x] : x \in PlacesAround(tab, C)} \ {None}
    <2> DEFINE A == UnitsAround(tab, C)
               B == {NodeOf[s] : s \in RowsBetween(tab, C)}
    <2>1. PlacesAround(tab, C) = A \cup B
        BY DEF PlacesAround
    <2> HIDE DEF A, B
    <2>2. {AddressOf[x] : x \in A \cup B} = {AddressOf[x] : x \in A} \cup {AddressOf[x] : x \in B}
        OBVIOUS
    <2> QED BY <1>6, <1>7, <2>1, <2>2 DEF A, B
<1> QED BY <1>5, <1>8 DEF L, C

(* Where nothing branches the dark and the broken nodes of a fault's trace *)
(* are as many as the fibers connected.                                    *)
LEMMA DarkCountIsConnected ==
    ASSUME NEW tab \in Table, OneFiberPerSide(tab), NEW f \in Fibers, Near(tab, f),
           NEW broken, f \in broken, ~HasBranches(Levels(tab, f))
    PROVE  DarkCount(tab, Levels(tab, f), broken) = Cardinality(Connected(tab, f))
<1> DEFINE L == Levels(tab, f)
           D == NodesInState(L, broken, {"dark"})
           B == NodesInState(L, broken, {"break_point"})
           N == TreeNodes(L)
<1>1. DarkCount(tab, L, broken) = Cardinality(D) + Cardinality(B)
    BY DEF DarkCount, Summary
<1>2. D \cap B = {}
    BY DEF NodesInState
<1>3. D \cup B = N
    <2>1. D \cup B = HitNodes(L, broken)
        BY DEF NodesInState, HitNodes
    <2> QED BY <2>1, AllNodesHit
<1>4. TracedFibers(L) = Connected(tab, f) /\ TracedFibers(L) \subseteq Fibers
    BY TracedIsAllConnected, ConnectedClosed
<1>5. IsFiniteSet(N) /\ Cardinality(N) = Cardinality(Connected(tab, f))
    BY <1>4, NodesAreFibers, TreeShowsRows
<1> HIDE DEF L, D, B, N
<1>6. IsFiniteSet(D) /\ IsFiniteSet(B)
    BY <1>3, <1>5, FS_Subset
<1>7. Cardinality(D) \in Nat /\ Cardinality(B) \in Nat
    BY <1>6, FS_CardinalityType
<1>8. Cardinality(D \cap B) = 0
    BY <1>2, FS_EmptySet
<1>9. Cardinality(N) = Cardinality(D) + Cardinality(B)
    <2>1. Cardinality(D \cup B) = Cardinality(D) + Cardinality(B) - Cardinality(D \cap B)
        BY <1>6, FS_Union
    <2>2. Cardinality(D \cup B) = Cardinality(D) + Cardinality(B)
        BY <1>7, <1>8, <2>1
    <2> QED BY <1>3, <2>2
<1> QED BY <1>1, <1>5, <1>9 DEF L

(* The traces of a fault, one for every fiber of the damaged cables.       *)
LEMMA FaultTraces ==
    ASSUME ChainInv, Answered, req.kind = "fault", edits = 0, OneFiberPerSide(splice)
    PROVE  /\ splice \in Table
           /\ \A f \in BrokenBy(req.of) : \E t \in req.traces : t.root = f
           /\ \A t \in req.traces :
                  /\ t.root \in BrokenBy(req.of) /\ t.root \in Fibers /\ Near(splice, t.root)
                  /\ t.splice = splice /\ t.levels = Levels(splice, t.root)
<1>1. splice \in Table /\ TypeOK
    BY DEF ChainInv, TraceInv, TypeOK
<1>2. req.asked = BrokenBy(req.of)
    BY DEF ChainInv, TraceInv, Current, StartFibers
<1>3. ~SkipsSeen(req.kind) /\ req.todo = {}
    BY DEF SkipsSeen, Answered
<1>4. req.asked \subseteq {t.root : t \in req.traces}
    BY <1>3 DEF ChainInv, TraceInv, Accounted
<1>5. ASSUME NEW t \in req.traces
      PROVE  /\ t.root \in BrokenBy(req.of) /\ t.root \in Fibers /\ Near(splice, t.root)
             /\ t.splice = splice /\ t.levels = Levels(splice, t.root)
    <2>1. t.root \in req.asked /\ t.levels = Levels(t.splice, t.root) /\ t.splice = splice
        BY DEF ChainInv, TraceInv, Genuine, Current
    <2>2. t.root \in Fibers
        BY <1>1, TraceFields
    <2> QED BY <1>2, <2>1, <2>2 DEF ChainInv, AllNear
<1> QED BY <1>1, <1>2, <1>4, <1>5

(* Everything around one of the fibers hit is around the fibers connected  *)
(* with one broken fiber.                                                  *)
LEMMA AroundHit ==
    ASSUME NEW tab \in Table, OneFiberPerSide(tab), NEW broken \in SUBSET Fibers
    PROVE  LET hit == UNION {Connected(tab, f) : f \in broken}
           IN  PlacesAround(tab, hit) = UNION {PlacesAround(tab, Connected(tab, f)) : f \in broken}
<1> DEFINE hit == UNION {Connected(tab, f) : f \in broken}
<1>1. UnitsAround(tab, hit) = UNION {UnitsAround(tab, Connected(tab, f)) : f \in broken}
    BY DEF UnitsAround
<1>2. ASSUME NEW s \in RowsBetween(tab, hit)
      PROVE  \E f \in broken : s \in RowsBetween(tab, Connected(tab, f))
    <2>1. PICK g \in hit, h \in hit : g # h /\ FibersIn(tab[s]) = {g, h}
        BY DEF RowsBetween
    <2>2. s \in RowsOf(tab)
        BY DEF RowsBetween
    <2>3. PICK f \in broken : g \in Connected(tab, f)
        BY <2>1
    <2>4. hit \subseteq Fibers
        BY ConnectedClosed
    <2>5. h \in JoinedTo(tab, g)
        BY <2>1, <2>2, <2>4, RowBetween
    <2>6. h \in Connected(tab, f)
        BY <2>3, <2>5, ConnectedClosed
    <2> QED BY <2>1, <2>2, <2>3, <2>6 DEF RowsBetween
<1>3. ASSUME NEW f \in broken, NEW s \in RowsBetween(tab, Connected(tab, f))
      PROVE  s \in RowsBetween(tab, hit)
    BY DEF RowsBetween
<1> HIDE DEF hit
<1>4. ASSUME NEW x \in PlacesAround(tab, hit)
      PROVE  \E f \in broken : x \in PlacesAround(tab, Connected(tab, f))
    BY <1>1, <1>2 DEF PlacesAround
<1>5. ASSUME NEW f \in broken, NEW x \in PlacesAround(tab, Connected(tab, f))
      PROVE  x \in PlacesAround(tab, hit)
    BY <1>1, <1>3 DEF PlacesAround
<1> QED BY <1>4, <1>5 DEF hit

(* A simulated fault reports every unit connected with a fiber of the      *)
(* damaged cables, every address of a splice between such fibers and no    *)
(* others, and counts each fiber once per trace where nothing branches.    *)
THEOREM FaultIsExact == ASSUME ShortChains PROVE Spec => []FaultReportsConnected
<1>1. ASSUME ChainInv PROVE FaultReportsConnected
    <2> DEFINE broken == BrokenBy(req.of)
               hit == UNION {Connected(splice, f) : f \in broken}
               spliced == {s \in RowsOf(splice) :
                             \E f, g \in hit : f # g /\ FibersIn(splice[s]) = {f, g}}
               U(t) == UnitsHit(t.splice, t.levels, broken)
               A(t) == AddressesHit(t.splice, t.levels, broken)
               C(t) == Connected(splice, t.root)
    <2> SUFFICES ASSUME Answered, req.kind = "fault", edits = 0, OneFiberPerSide(splice)
                 PROVE  /\ UNION {U(t) : t \in req.traces} = UnitsAround(splice, hit)
                        /\ UNION {A(t) : t \in req.traces}
                             = {AddressOf[x] : x \in UnitsAround(splice, hit)
                                                  \cup {NodeOf[s] : s \in spliced}} \ {None}
                        /\ \A t \in req.traces :
                             ~HasBranches(t.levels) =>
                                DarkCount(t.splice, t.levels, broken) = Cardinality(C(t))
        BY DEF FaultReportsConnected, UnitsAround
    <2>1. /\ splice \in Table
          /\ \A f \in broken : \E t \in req.traces : t.root = f
          /\ \A t \in req.traces :
                 /\ t.root \in broken /\ t.root \in Fibers /\ Near(splice, t.root)
                 /\ t.splice = splice /\ t.levels = Levels(splice, t.root)
        BY <1>1, FaultTraces
    <2>2. UnitsAround(splice, hit) \cup {NodeOf[s] : s \in spliced} = PlacesAround(splice, hit)
        BY DEF PlacesAround, RowsBetween
    <2>3. broken \in SUBSET Fibers
        BY DEF BrokenBy, FibersOfCable
    <2>4. /\ UnitsAround(splice, hit)
               = UNION {UnitsAround(splice, Connected(splice, f)) : f \in broken}
          /\ PlacesAround(splice, hit)
               = UNION {PlacesAround(splice, Connected(splice, f)) : f \in broken}
        BY <2>1, <2>3, AroundHit DEF UnitsAround
    <2>5. ASSUME NEW t \in req.traces
          PROVE  /\ U(t) = UnitsAround(splice, C(t))
                 /\ A(t) = {AddressOf[x] : x \in PlacesAround(splice, C(t))} \ {None}
        BY <2>1, HitOfTrace
    <2>6. ASSUME NEW t \in req.traces, ~HasBranches(t.levels)
          PROVE  DarkCount(t.splice, t.levels, broken) = Cardinality(C(t))
        BY <2>1, <2>6, DarkCountIsConnected
    <2> HIDE DEF broken, hit, spliced, U, A
    <2>7. UNION {U(t) : t \in req.traces} = UnitsAround(splice, hit)
        BY <2>1, <2>4, <2>5
    <2>8. UNION {A(t) : t \in req.traces}
            = {AddressOf[x] : x \in PlacesAround(splice, hit)} \ {None}
        <3>1. ASSUME NEW t \in req.traces, NEW a \in A(t)
              PROVE  a # None /\ \E x \in PlacesAround(splice, hit) : a = AddressOf[x]
            BY <2>1, <2>4, <2>5
        <3>2. ASSUME NEW x \in PlacesAround(splice, hit), AddressOf[x] # None
              PROVE  \E t \in req.traces : AddressOf[x] \in A(t)
            <4>1. PICK f \in broken : x \in PlacesAround(splice, Connected(splice, f))
                BY <2>4
            <4>2. PICK t \in req.traces : t.root = f
                BY <2>1
            <4> QED BY <2>5, <3>2, <4>1, <4>2
        <3> QED BY <3>1, <3>2
    <2> QED BY <2>2, <2>6, <2>7, <2>8
<1> QED BY <1>1, ChainInit, ChainStep, PTL DEF Spec
-----------------------------------------------------------------------------
(* The fibers of a trace, whatever its table.                              *)
LEMMA TracedType ==
    ASSUME NEW tab \in Table, NEW f \in Fibers
    PROVE  TracedFibers(Levels(tab, f)) \subseteq Fibers
<1>1. ASSUME NEW d \in 0 .. MaxDepth, NEW p \in Levels(tab, f)[d] PROVE Last(p).fiber \in Fibers
    <2>1. p \in Paths /\ Len(p) = d + 1 /\ Len(p) \in 1 .. Len(p)
        BY VisitedTraced, ConstantsAssumption
    <2> QED BY <2>1, PathFacts DEF Last
<1> QED BY <1>1 DEF TracedFibers, RowsAt

(* What lies behind a break is shown dark by the node of any path to it,   *)
(* and where nothing branches a fiber has only that one.                   *)
LEMMA DarkOfTrace ==
    ASSUME TraceInv, NEW t \in req.traces
    PROVE  LET behind == {g \in Fibers : Behind(t, g)}
           IN  /\ behind \subseteq ShownDark(t)
               /\ ~HasBranches(t.levels) =>
                    /\ ShownDark(t) = behind
                    /\ Summary(t.splice, t.levels, status).dark_fibers = Cardinality(behind)
<1> DEFINE f == t.root
           tab == t.splice
           L == Levels(tab, f)
           D == NodesInState(L, status, {"dark"})
           behind == {g \in Fibers : Behind(t, g)}
<1>1. f \in Fibers /\ tab \in Table /\ t.levels = L
    BY TraceFields DEF TraceInv, Genuine
<1>2. TracedFibers(L) \subseteq Fibers
    BY <1>1, TracedType
<1>3. ASSUME NEW n \in TreeNodes(L)
      PROVE  n \in D <=> Above(n) \cap status # {}
    BY DEF NodesInState, SignalState
<1>4. ShownDark(t) = {FiberOf(n) : n \in D}
    BY <1>1 DEF ShownDark
<1>5. ASSUME NEW g \in behind PROVE \E n \in D : FiberOf(n) = g
    <2>1. PICK d \in 0 .. MaxDepth : \E p \in L[d] : Last(p).fiber = g
        BY <1>1 DEF Behind, TracedFibers, RowsAt
    <2>2. PICK p \in L[d] : Last(p).fiber = g
        BY <2>1
    <2>3. PICK i \in 1 .. Len(p) - 1 : p[i].fiber \in status
        BY <1>1, <2>2 DEF Behind, RowsAt
    <2> DEFINE n == NodeOfPath(p)
    <2>4. /\ n \in TreeNodes(L) /\ FiberOf(n) = g
          /\ Above(n) = {p[k].fiber : k \in 1 .. Len(p) - 1}
        BY <1>1, <2>2, PathNodes
    <2> HIDE DEF n
    <2>5. Above(n) \cap status # {}
        BY <2>3, <2>4
    <2> QED BY <1>3, <2>4, <2>5
<1>6. ASSUME ~HasBranches(L), NEW n \in D PROVE FiberOf(n) \in behind
    <2> DEFINE p == Last(n)
               g == FiberOf(n)
    <2>1. n \in TreeNodes(L) /\ Above(n) \cap status # {}
        BY <1>3 DEF NodesInState
    <2>2. PICK d \in 0 .. MaxDepth : p \in L[d] /\ d \in Nat
        BY <2>1, NodeFacts
    <2>3. n = NodeOfPath(p)
        BY <1>1, <1>6, <2>1, NodeIsOfPath
    <2>4. g = Last(p).fiber
        BY DEF FiberOf
    <2> HIDE DEF p, g
    <2>5. Above(n) = {p[k].fiber : k \in 1 .. Len(p) - 1}
        BY <1>1, <2>2, <2>3, PathNodes
    <2>6. \E i \in 1 .. Len(p) - 1 : p[i].fiber \in status
        BY <2>1, <2>5
    <2>7. ASSUME NEW q \in RowsAt(L), Last(q).fiber = g PROVE q = p
        <3>1. PICK e \in 0 .. MaxDepth : q \in L[e] /\ e \in Nat
            BY ConstantsAssumption DEF RowsAt
        <3>2. CASE d <= e
            BY <1>1, <1>6, <2>2, <2>4, <2>7, <3>1, <3>2, OneRowPerFiber
        <3>3. CASE e <= d
            BY <1>1, <1>6, <2>2, <2>4, <2>7, <3>1, <3>3, OneRowPerFiber
        <3> QED BY <2>2, <3>1, <3>2, <3>3
    <2>8. g \in TracedFibers(L)
        BY <2>2, <2>4 DEF TracedFibers, RowsAt
    <2>9. Behind(t, g)
        BY <1>1, <2>6, <2>7, <2>8 DEF Behind
    <2> QED BY <1>2, <2>8, <2>9 DEF g
<1>7. behind \subseteq ShownDark(t)
    BY <1>4, <1>5
<1>8. ASSUME ~HasBranches(L)
      PROVE  /\ ShownDark(t) = behind
             /\ Summary(tab, L, status).dark_fibers = Cardinality(behind)
    <2>1. ShownDark(t) = behind
        BY <1>4, <1>6, <1>7, <1>8
    <2>2. Summary(tab, L, status).dark_fibers = Cardinality(D)
        BY DEF Summary
    <2>3. D \in SUBSET TreeNodes(L)
        BY DEF NodesInState
    <2>4. Cardinality(D) = Cardinality({FiberOf(n) : n \in D})
        <3> HIDE DEF D
        <3>1. tab \in Table /\ f \in Fibers /\ ~HasBranches(Levels(tab, f))
              /\ TracedFibers(Levels(tab, f)) \subseteq Fibers
              /\ D \in SUBSET TreeNodes(Levels(tab, f))
            BY <1>1, <1>2, <1>8, <2>3
        <3> HIDE DEF tab, f
        <3> QED BY <3>1, NodesAreFibers
    <2> QED BY <1>4, <2>1, <2>2, <2>4
<1> QED BY <1>1, <1>7, <1>8

(* Nothing behind a break is left out of what the signal analysis shows    *)
(* dark, and where nothing branches it shows nothing else and counts right.*)
THEOREM DarknessIsExact == Spec => []DarkLiesBehindTheBreak
<1>1. TraceInv => DarkLiesBehindTheBreak
    BY DarkOfTrace DEF DarkLiesBehindTheBreak
<1> QED BY <1>1, TraceInit, TraceStep, PTL DEF Spec
-----------------------------------------------------------------------------
(* The cables of a set that end at a node, and the nodes they end at.      *)
Ends(c) == {EndsOf[c].start, EndsOf[c].end}
CablesOf(K, n) == {c \in K : n \in Ends(c)}
EndsIn(K) == (UNION {Ends(c) : c \in K}) \ {None}

(* Both ends of finitely many cables are finitely many nodes.              *)
LEMMA EndsFinite ==
    ASSUME NEW K \in SUBSET Cables, IsFiniteSet(K)
    PROVE  IsFiniteSet(EndsIn(K)) /\ EndsIn(K) \subseteq Nodes
<1> DEFINE s == [c \in K |-> EndsOf[c].start]
           e == [c \in K |-> EndsOf[c].end]
           S == {s[c] : c \in K}
           E == {e[c] : c \in K}
<1>1. EndsIn(K) \subseteq S \cup E
    BY DEF EndsIn, Ends
<1>2. IsFiniteSet(S) /\ IsFiniteSet(E)
    <2> HIDE DEF s, e
    <2> QED BY FiniteImage
<1>3. \A c \in K : EndsOf[c].start \in Nodes \cup {None} /\ EndsOf[c].end \in Nodes \cup {None}
    BY ConstantsAssumption
<1>4. EndsIn(K) \subseteq Nodes
    BY <1>3 DEF EndsIn, Ends
<1> HIDE DEF S, E
<1>5. IsFiniteSet(S \cup E)
    BY <1>2, FS_Union
<1> QED BY <1>1, <1>4, <1>5, FS_Subset

(* A finite set with two members has at least two.                         *)
LEMMA TwoMembers ==
    ASSUME NEW S, IsFiniteSet(S), Cardinality(S) # 0, Cardinality(S) # 1, NEW x
    PROVE  \E y \in S : y # x
<1> SUFFICES ASSUME S \subseteq {x} PROVE FALSE
    OBVIOUS
<1>1. S = {} \/ S = {x}
    OBVIOUS
<1> QED BY <1>1, FS_EmptySet, FS_Singleton

(* Two things are two.                                                     *)
LEMMA TwoElements ==
    ASSUME NEW x, NEW y, x # y PROVE IsFiniteSet({x, y}) /\ Cardinality({x, y}) = 2
<1> DEFINE A == {x}
<1>1. IsFiniteSet(A) /\ Cardinality(A) = 1 /\ y \notin A /\ {x, y} = A \cup {y}
    BY FS_Singleton
<1> HIDE DEF A
<1>2. /\ IsFiniteSet(A \cup {y})
      /\ Cardinality(A \cup {y}) = IF y \in A THEN Cardinality(A) ELSE Cardinality(A) + 1
    BY <1>1, FS_AddElement
<1>3. Cardinality(A \cup {y}) = 2
    BY <1>1, <1>2
<1> QED BY <1>1, <1>2, <1>3

(* When two cables end at every node but one of k cables, the nodes are    *)
(* fewer than k + 1: each cable has two ends to give away.                 *)
LEMMA TwoEndsPerCable ==
    ASSUME NEW K \in SUBSET Cables, IsFiniteSet(K),
           NEW M \in SUBSET EndsIn(K), NEW m \in M,
           \A x \in M \ {m} : Cardinality(CablesOf(K, x)) # 1
    PROVE  Cardinality(M) <= Cardinality(K)
<1> DEFINE Which == {"start", "end"}
           X == (M \X Which) \ {<<m, "end">>}
           Y == K \X Which
           first(x) == CHOOSE c \in CablesOf(K, x) : TRUE
           other(x) == CHOOSE c \in CablesOf(K, x) : c # first(x)
           of(x, w) == IF w = "start" THEN first(x) ELSE other(x)
           g == [z \in X |-> <<of(z[1], z[2]),
                               IF EndsOf[of(z[1], z[2])].start = z[1] THEN "start" ELSE "end">>]
<1>1. ASSUME NEW x \in M PROVE first(x) \in CablesOf(K, x)
    BY DEF EndsIn, CablesOf
<1>2. ASSUME NEW x \in M \ {m} PROVE other(x) \in CablesOf(K, x) /\ other(x) # first(x)
    <2>1. CablesOf(K, x) \subseteq K
        BY DEF CablesOf
    <2>2. IsFiniteSet(CablesOf(K, x))
        BY <2>1, FS_Subset
    <2>3. Cardinality(CablesOf(K, x)) # 0
        BY <1>1, <2>2, FS_EmptySet
    <2>4. \E c \in CablesOf(K, x) : c # first(x)
        <3> HIDE DEF first
        <3> QED BY <2>2, <2>3, TwoMembers
    <2> HIDE DEF first
    <2> QED BY <2>4
<1> HIDE DEF first, other
<1>3. ASSUME NEW x \in M, NEW w \in Which, <<x, w>> \in X
      PROVE  of(x, w) \in K /\ x \in {EndsOf[of(x, w)].start, EndsOf[of(x, w)].end}
    <2>1. w = "end" => x # m
        BY <1>3
    <2>2. of(x, w) \in CablesOf(K, x)
        BY <1>1, <1>2, <2>1
    <2> QED BY <2>2 DEF CablesOf, Ends
<1>4. g \in [X -> Y]
    <2>1. ASSUME NEW z \in X PROVE g[z] \in Y
        <3>1. z[1] \in M /\ z[2] \in Which /\ z = <<z[1], z[2]>>
            OBVIOUS
        <3> QED BY <1>3, <3>1
    <2> QED BY <2>1
<1>5. ASSUME NEW y \in X, NEW z \in X, g[y] = g[z] PROVE y = z
    <2>1. /\ y[1] \in M /\ y[2] \in Which /\ y = <<y[1], y[2]>>
          /\ z[1] \in M /\ z[2] \in Which /\ z = <<z[1], z[2]>>
        OBVIOUS
    <2> DEFINE c == of(y[1], y[2])
               d == of(z[1], z[2])
    <2>2. y[1] \in {EndsOf[c].start, EndsOf[c].end} /\ z[1] \in {EndsOf[d].start, EndsOf[d].end}
        BY <1>3, <2>1
    <2>3. g[y] = <<c, IF EndsOf[c].start = y[1] THEN "start" ELSE "end">>
        OBVIOUS
    <2>4. g[z] = <<d, IF EndsOf[d].start = z[1] THEN "start" ELSE "end">>
        OBVIOUS
    <2> HIDE DEF g, X
    <2>5. c = d /\ (EndsOf[c].start = y[1] <=> EndsOf[d].start = z[1])
        <3> DEFINE i == IF EndsOf[c].start = y[1] THEN "start" ELSE "end"
                   j == IF EndsOf[d].start = z[1] THEN "start" ELSE "end"
        <3>1. (i = "start" <=> EndsOf[c].start = y[1]) /\ (j = "start" <=> EndsOf[d].start = z[1])
            OBVIOUS
        <3>2. g[y] = <<c, i>> /\ g[z] = <<d, j>>
            BY <2>3, <2>4
        <3> HIDE DEF i, j, c, d
        <3>3. <<c, i>> = <<d, j>>
            BY <1>5, <3>2
        <3>4. c = d /\ i = j
            BY <3>3
        <3> QED BY <3>1, <3>4
    <2>6. y[1] = z[1]
        <3> HIDE DEF c, d
        <3> QED BY <2>2, <2>5
    <2>7. CASE y[2] = z[2]
        BY <2>1, <2>6, <2>7
    <2>8. CASE y[2] # z[2]
        <3>1. y[1] # m
            BY <2>1, <2>6, <2>8 DEF X
        <3>2. first(y[1]) # other(y[1])
            BY <1>2, <2>1, <3>1
        <3>3. c # d
            BY <2>1, <2>6, <2>8, <3>2
        <3> QED BY <2>5, <3>3
    <2> QED BY <2>7, <2>8
<1>6. IsFiniteSet(M) /\ Cardinality(M) \in Nat /\ Cardinality(K) \in Nat
    BY EndsFinite, FS_Subset, FS_CardinalityType
<1>7. IsFiniteSet(Which) /\ Cardinality(Which) = 2
    BY TwoElements
<1> HIDE DEF g, of
<1>8. IsFiniteSet(M \X Which) /\ Cardinality(M \X Which) = Cardinality(M) * 2
    <2> HIDE DEF Which
    <2> QED BY <1>6, <1>7, FS_Product
<1>9. IsFiniteSet(Y) /\ Cardinality(Y) = Cardinality(K) * 2
    <2> HIDE DEF Which
    <2> QED BY <1>7, FS_Product
<1>10. IsFiniteSet(X) /\ Cardinality(X) = Cardinality(M) * 2 - 1
    <2> DEFINE P == M \X Which
               z == <<m, "end">>
    <2>1. z \in P /\ X = P \ {z}
        OBVIOUS
    <2> HIDE DEF P, z, X, Which
    <2>2. IsFiniteSet(P \ {z}) /\ Cardinality(P \ {z}) = Cardinality(P) - 1
        BY <1>8, <2>1, FS_RemoveElement DEF P
    <2> QED BY <1>8, <2>1, <2>2 DEF P
<1> HIDE DEF X, Y, Which
<1>11. ~(Cardinality(Y) < Cardinality(X))
    <2> SUFFICES ASSUME Cardinality(Y) < Cardinality(X) PROVE FALSE
        OBVIOUS
    <2>1. \E y, z \in X : y # z /\ g[y] = g[z]
        BY <1>4, <1>9, <1>10, FS_PigeonHole
    <2> QED BY <1>5, <2>1
<1> QED BY <1>6, <1>9, <1>10, <1>11

(* On a line, k cables with k + 1 nodes of which k - 1 are splice nodes,   *)
(* two nodes are left and one cable ends at each.                          *)
LEMMA LineHasTwoEnds ==
    ASSUME NEW K \in SUBSET Cables, IsFiniteSet(K), NEW S \in SUBSET Nodes,
           \A n \in S : Cardinality(CablesOf(K, n)) = 2,
           Cardinality(S) = Cardinality(K) - 1, Cardinality(EndsIn(K)) = Cardinality(K) + 1
    PROVE  /\ EndsIn(K) \ S = {n \in Nodes : Cardinality(CablesOf(K, n)) = 1}
           /\ Cardinality(EndsIn(K) \ S) = 2
<1> DEFINE E == EndsIn(K)
<1>1. IsFiniteSet(E) /\ E \subseteq Nodes /\ Cardinality(K) \in Nat
    BY EndsFinite, FS_CardinalityType
<1>2. ASSUME NEW n \in Nodes PROVE IsFiniteSet(CablesOf(K, n))
    <2>1. CablesOf(K, n) \subseteq K
        BY DEF CablesOf
    <2> QED BY <2>1, FS_Subset
<1>3. ASSUME NEW n \in Nodes, n \notin E PROVE Cardinality(CablesOf(K, n)) = 0
    <2>1. CablesOf(K, n) = {}
        BY <1>3, ConstantsAssumption DEF CablesOf, EndsIn
    <2> QED BY <2>1, FS_EmptySet
<1>4. S \subseteq E
    BY <1>3
<1>5. IsFiniteSet(S) /\ IsFiniteSet(E \ S) /\ Cardinality(E \ S) = 2
    <2> HIDE DEF E
    <2>1. IsFiniteSet(S) /\ S = E \cap S
        BY <1>1, <1>4, FS_Subset
    <2>2. IsFiniteSet(E \ S) /\ Cardinality(E \ S) = Cardinality(E) - Cardinality(E \cap S)
        BY <1>1, FS_Difference
    <2>3. Cardinality(E) = Cardinality(K) + 1
        BY DEF E
    <2>4. Cardinality(E \cap S) = Cardinality(K) - 1
        BY <2>1
    <2>5. Cardinality(E \ S) = 2
        BY <1>1, <2>2, <2>3, <2>4
    <2> QED BY <2>1, <2>2, <2>5
<1>6. ASSUME NEW n \in E \ S PROVE Cardinality(CablesOf(K, n)) = 1
    <2> SUFFICES ASSUME Cardinality(CablesOf(K, n)) # 1 PROVE FALSE
        OBVIOUS
    <2>1. \E m \in E \ S : m # n
        <3> HIDE DEF E
        <3> QED BY <1>5, TwoMembers
    <2>2. PICK m \in E \ S : m # n
        BY <2>1
    <2>3. E \ S = {n, m}
        <3> DEFINE T == E \ S
        <3>1. n \in T /\ m \in T /\ IsFiniteSet(T) /\ Cardinality(T) = 2
            BY <1>5, <2>2
        <3> HIDE DEF T
        <3>2. Cardinality({n, m}) = 2
            BY <2>2, TwoElements
        <3>3. {n, m} \in SUBSET T /\ Cardinality(T) = Cardinality({n, m})
            BY <3>1, <3>2
        <3>6. T = {n, m}
            BY <3>1, <3>3, FS_Subset
        <3> QED BY <3>6 DEF T
    <2>4. ASSUME NEW x \in E \ {m} PROVE Cardinality(CablesOf(K, x)) # 1
        BY <2>3
    <2>5. Cardinality(E) <= Cardinality(K)
        BY <2>2, <2>4, TwoEndsPerCable
    <2> QED BY <1>1, <2>5
<1>7. ASSUME NEW n \in Nodes, Cardinality(CablesOf(K, n)) = 1 PROVE n \in E \ S
    BY <1>3, <1>7
<1>8. E \ S = {n \in Nodes : Cardinality(CablesOf(K, n)) = 1}
    BY <1>1, <1>6, <1>7
<1> QED BY <1>5, <1>8

(* On a line of cables spliced where they meet the summary of a trace      *)
(* names its two ends.                                                     *)
THEOREM SummaryIsExact == Spec => []SummaryNamesTheEnds
<1>1. ASSUME TraceInv PROVE SummaryNamesTheEnds
    <2> SUFFICES ASSUME NEW t \in req.traces, SplicedWhereCablesMeet(t),
                        Cardinality(SpliceNodes(t.levels))
                          = Cardinality(TracedCables(t.levels)) - 1,
                        Cardinality(EndNodes(t.levels))
                          = Cardinality(TracedCables(t.levels)) + 1
                 PROVE  /\ SummaryEnds(t.levels) = EndsOfLine(t)
                        /\ Cardinality(EndsOfLine(t)) = 2
        BY DEF SummaryNamesTheEnds
    <2> DEFINE K == TracedCables(t.levels)
               S == SpliceNodes(t.levels)
               F == TracedFibers(t.levels)
    <2>1. t.root \in Fibers /\ t.splice \in Table /\ t.levels = Levels(t.splice, t.root)
        BY <1>1, TraceFields DEF TraceInv, Genuine
    <2>2. F \subseteq Fibers
        BY <2>1, TracedType
    <2>3. K \in SUBSET Cables /\ IsFiniteSet(K)
        <3>1. IsFiniteSet(F)
            BY <2>2, FS_Subset, ConstantsAssumption
        <3>2. IsFiniteSet({CableOf[f] : f \in F})
            BY <3>1, FiniteImage
        <3> QED BY <2>2, <3>2, ConstantsAssumption DEF TracedCables
    <2>4. S \subseteq Nodes
        <3>1. ASSUME NEW p \in RowsAt(t.levels) PROVE Last(p).splice \in Splices \cup {None}
            <4>1. PICK d \in 0 .. MaxDepth : p \in Levels(t.splice, t.root)[d]
                BY <2>1 DEF RowsAt
            <4>2. p \in Paths /\ Len(p) = d + 1 /\ Len(p) \in 1 .. Len(p)
                BY <2>1, <4>1, VisitedTraced, ConstantsAssumption
            <4> QED BY <4>2, PathFacts DEF Last
        <3>2. TracedSplices(t.levels) \subseteq Splices
            BY <3>1 DEF TracedSplices
        <3> QED BY <3>2, ConstantsAssumption DEF SpliceNodes
    <2>5. EndNodes(t.levels) = EndsIn(K)
        BY DEF EndNodes, EndsIn, Ends
    <2>6. \A n : CablesAt(t, n) = CablesOf(K, n)
        BY DEF CablesAt, CablesOf, Ends
    <2>7. \A n \in S : Cardinality(CablesOf(K, n)) = 2
        BY <2>6 DEF SplicedWhereCablesMeet
    <2> HIDE DEF K, S
    <2>8. /\ EndsIn(K) \ S = {n \in Nodes : Cardinality(CablesOf(K, n)) = 1}
          /\ Cardinality(EndsIn(K) \ S) = 2
        BY <2>3, <2>4, <2>5, <2>7, LineHasTwoEnds DEF K, S
    <2>9. EndsOfLine(t) = EndsIn(K) \ S
        BY <2>6, <2>8 DEF EndsOfLine
    <2>10. TerminalNodes(t.levels) = EndsIn(K) \ S
        BY <2>5 DEF TerminalNodes, S
    <2>11. EndsIn(K) \ S # {}
        <3> DEFINE T == EndsIn(K) \ S
        <3> SUFFICES ASSUME T = {} PROVE FALSE
            OBVIOUS
        <3>1. Cardinality(T) = 2
            BY <2>8
        <3> QED BY <3>1, FS_EmptySet
    <2>12. SummaryEnds(t.levels) = TerminalNodes(t.levels)
        BY <2>10, <2>11 DEF SummaryEnds
    <2> QED BY <2>8, <2>9, <2>10, <2>12
<1> QED BY <1>1, TraceInit, TraceStep, PTL DEF Spec
=============================================================================
