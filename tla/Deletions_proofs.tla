--------------------------- MODULE Deletions_proofs ---------------------------
(* What holds of Deletions for every schema that satisfies SchemaAssumption. *)
EXTENDS Deletions, TLAPS

-----------------------------------------------------------------------------
\* A row is a record of its table and its keys.
LEMMA RowFacts ==
    ASSUME NEW x, IsRow(x)
    PROVE  /\ x.table \in Tables
           /\ x.ref \in [Columns(x.table) -> Ids \cup {Outside, None}]
           /\ x = [table |-> x.table, ref |-> x.ref]
BY DEF IsRow, RowsOf

\* A table and its keys make a row.
LEMMA RowMade ==
    ASSUME NEW t \in Tables, NEW g \in [Columns(t) -> Ids \cup {Outside, None}]
    PROVE  IsRow([table |-> t, ref |-> g])
BY DEF IsRow, RowsOf

\* Every live row of a sound database is a row.
LEMMA LiveRows ==
    ASSUME NEW D, Sound(D), NEW i \in Live(D)
    PROVE  IsRow(D[i])
BY DEF Sound, Live

\* Membership in the sets the deletion is computed from.
LEMMA RefersIn ==
    ASSUME NEW S, NEW D, NEW rule, NEW e
    PROVE  e \in Refers(S, D, rule) <=>
             \E i \in Live(D) : \E f \in Columns(D[i].table) :
                /\ e = <<i, D[i].ref[f]>>
                /\ S[D[i].table][f].rule = rule
BY DEF Refers

\* The children of P are the rows with a key of that rule into P.
LEMMA ChildIn ==
    ASSUME NEW S, NEW D, NEW P, NEW rule, NEW i
    PROVE  i \in Children(S, D, P, rule) <=>
             /\ i \in Live(D)
             /\ \E f \in Columns(D[i].table) :
                    D[i].ref[f] \in P /\ S[D[i].table][f].rule = rule
<1>1. ASSUME i \in Children(S, D, P, rule)
      PROVE  /\ i \in Live(D)
             /\ \E f \in Columns(D[i].table) :
                    D[i].ref[f] \in P /\ S[D[i].table][f].rule = rule
  <2>1. PICK e \in Refers(S, D, rule) : e[2] \in P /\ i = e[1]
    BY <1>1 DEF Children
  <2>2. PICK j \in Live(D) : \E f \in Columns(D[j].table) :
          e = <<j, D[j].ref[f]>> /\ S[D[j].table][f].rule = rule
    BY <2>1, RefersIn
  <2> QED BY <2>1, <2>2
<1>2. ASSUME i \in Live(D),
             NEW f \in Columns(D[i].table),
             D[i].ref[f] \in P, S[D[i].table][f].rule = rule
      PROVE  i \in Children(S, D, P, rule)
  <2>1. <<i, D[i].ref[f]>> \in Refers(S, D, rule)
    BY <1>2, RefersIn
  <2> QED BY <1>2, <2>1 DEF Children
<1> QED BY <1>1, <1>2

\* The keys to empty are the SET_NULL keys into G.
LEMMA NulledIn ==
    ASSUME NEW S, NEW D, NEW G, NEW i, NEW f
    PROVE  <<i, f>> \in Nulled(S, D, G) <=>
             /\ i \in Live(D)
             /\ f \in Columns(D[i].table)
             /\ D[i].ref[f] \in G
             /\ S[D[i].table][f].rule = "SET_NULL"
BY DEF Nulled

Closed(S, D, X) ==
    \A i \in Live(D) : \A f \in Columns(D[i].table) :
        S[D[i].table][f].rule = "CASCADE" /\ D[i].ref[f] \in X => i \in X

\* Reach is the least closed set that holds R.
LEMMA ReachIn ==
    ASSUME NEW S, NEW D, NEW R, NEW i
    PROVE  i \in Reach(S, D, R) <=>
             i \in Ids /\ \A X \in SUBSET Ids : R \subseteq X /\ Closed(S, D, X) => i \in X
<1>1. ASSUME NEW X
      PROVE  Closed(S, D, X) <=> \A e \in Refers(S, D, "CASCADE") : e[2] \in X => e[1] \in X
  <2>1. ASSUME Closed(S, D, X), NEW e \in Refers(S, D, "CASCADE"), e[2] \in X
        PROVE  e[1] \in X
    <3>1. PICK j \in Live(D) : \E f \in Columns(D[j].table) :
            e = <<j, D[j].ref[f]>> /\ S[D[j].table][f].rule = "CASCADE"
      BY RefersIn
    <3> QED BY <2>1, <3>1 DEF Closed
  <2>2. ASSUME \A e \in Refers(S, D, "CASCADE") : e[2] \in X => e[1] \in X,
               NEW j \in Live(D), NEW f \in Columns(D[j].table),
               S[D[j].table][f].rule = "CASCADE", D[j].ref[f] \in X
        PROVE  j \in X
    <3>1. <<j, D[j].ref[f]>> \in Refers(S, D, "CASCADE")
      BY <2>2, RefersIn
    <3> QED BY <2>2, <3>1
  <2> QED BY <2>1, <2>2 DEF Closed
<1> QED BY <1>1 DEF Reach

\* Reach holds the rows it starts from.
LEMMA ReachHolds ==
    ASSUME NEW S, NEW D, NEW R \in SUBSET Ids
    PROVE  R \subseteq Reach(S, D, R) /\ Reach(S, D, R) \subseteq Ids
BY ReachIn

\* Reach is in every closed set.
LEMMA ReachLeast ==
    ASSUME NEW S, NEW D, NEW R, NEW X \in SUBSET Ids, R \subseteq X, Closed(S, D, X)
    PROVE  Reach(S, D, R) \subseteq X
BY ReachIn

\* Reach is closed itself.
LEMMA ReachClosed ==
    ASSUME NEW S, NEW D, NEW R
    PROVE  Closed(S, D, Reach(S, D, R))
<1> SUFFICES ASSUME NEW i \in Live(D), NEW f \in Columns(D[i].table),
                    S[D[i].table][f].rule = "CASCADE", D[i].ref[f] \in Reach(S, D, R)
             PROVE  i \in Reach(S, D, R)
  BY DEF Closed
<1>1. i \in Ids
  BY DEF Live
<1>2. ASSUME NEW X \in SUBSET Ids, R \subseteq X, Closed(S, D, X)
      PROVE  i \in X
  <2>1. D[i].ref[f] \in X
    BY <1>2, ReachIn
  <2> QED BY <1>2, <2>1 DEF Closed
<1> QED BY <1>1, <1>2, ReachIn

\* What is reached is in R or refers to something reached by a CASCADE key.
LEMMA ReachCaused ==
    ASSUME NEW S, NEW D, NEW R \in SUBSET Ids, NEW i \in Reach(S, D, R), i \notin R
    PROVE  /\ i \in Live(D)
           /\ \E f \in Columns(D[i].table) : /\ S[D[i].table][f].rule = "CASCADE"
                                             /\ D[i].ref[f] \in Reach(S, D, R)
<1> DEFINE A == Reach(S, D, R)
           Caused == /\ i \in Live(D)
                     /\ \E f \in Columns(D[i].table) :
                            S[D[i].table][f].rule = "CASCADE" /\ D[i].ref[f] \in A
<1> SUFFICES ASSUME ~Caused PROVE FALSE
  OBVIOUS
<1>1. A \ {i} \in SUBSET Ids /\ R \subseteq A \ {i}
  BY ReachHolds
<1>2. Closed(S, D, A)
  BY ReachClosed
<1>3. Closed(S, D, A \ {i})
  <2> SUFFICES ASSUME NEW j \in Live(D), NEW f \in Columns(D[j].table),
                      S[D[j].table][f].rule = "CASCADE", D[j].ref[f] \in A \ {i}
               PROVE  j \in A \ {i}
    BY DEF Closed
  <2>1. j \in A
    BY <1>2 DEF Closed
  <2>2. j # i
    OBVIOUS
  <2> QED BY <2>1, <2>2
<1>4. A \subseteq A \ {i}
  BY <1>1, <1>3, ReachLeast
<1> QED BY <1>4
-----------------------------------------------------------------------------
\* Without depends on N only for the rows that stay.
LEMMA WithoutSame ==
    ASSUME NEW D, NEW G, NEW N, NEW O,
           \A i \in Live(D) \ G : \A f \in Columns(D[i].table) :
               <<i, f>> \in N <=> <<i, f>> \in O
    PROVE  Without(D, G, N) = Without(D, G, O)
<1> DEFINE Row(i, P) ==
        IF i \notin Live(D) THEN D[i]
        ELSE IF i \in G THEN Gone
        ELSE [table |-> D[i].table,
              ref |-> [f \in Columns(D[i].table) |->
                        IF <<i, f>> \in P THEN None ELSE D[i].ref[f]]]
<1>1. Without(D, G, N) = [i \in Ids |-> Row(i, N)] /\ Without(D, G, O) = [i \in Ids |-> Row(i, O)]
  BY DEF Without
<1>2. ASSUME NEW i \in Ids PROVE Row(i, N) = Row(i, O)
  <2>1. CASE i \in Live(D) \ G
    <3>1. [f \in Columns(D[i].table) |-> IF <<i, f>> \in N THEN None ELSE D[i].ref[f]]
          = [f \in Columns(D[i].table) |-> IF <<i, f>> \in O THEN None ELSE D[i].ref[f]]
      BY <2>1
    <3> QED BY <2>1, <3>1
  <2>2. CASE i \notin Live(D) \ G
    BY <2>2
  <2> QED BY <2>1, <2>2
<1> HIDE DEF Row
<1> QED BY <1>1, <1>2

\* The rows of a database without G.
LEMMA WithoutFacts ==
    ASSUME NEW D, Sound(D), NEW G, NEW N
    PROVE  /\ DOMAIN Without(D, G, N) = Ids
           /\ Live(Without(D, G, N)) = Live(D) \ G
           /\ \A i \in Ids \ Live(D) : Without(D, G, N)[i] = D[i]
           /\ \A i \in Live(D) \cap G : Without(D, G, N)[i] = Gone
           /\ \A i \in Live(D) \ G :
                /\ Without(D, G, N)[i].table = D[i].table
                /\ Without(D, G, N)[i].ref \in [Columns(D[i].table) -> Ids \cup {Outside, None}]
                /\ IsRow(Without(D, G, N)[i])
                /\ \A f \in Columns(D[i].table) :
                     Without(D, G, N)[i].ref[f] =
                        IF <<i, f>> \in N THEN None ELSE D[i].ref[f]
<1> DEFINE E == Without(D, G, N)
           Ref(i) == [f \in Columns(D[i].table) |->
                        IF <<i, f>> \in N THEN None ELSE D[i].ref[f]]
<1>1. E = [i \in Ids |-> IF i \notin Live(D) THEN D[i]
                        ELSE IF i \in G THEN Gone
                        ELSE [table |-> D[i].table, ref |-> Ref(i)]]
  BY DEF Without
<1>2. DOMAIN E = Ids /\ Live(D) \subseteq Ids
  BY <1>1 DEF Live
<1>3. ASSUME NEW i \in Ids \ Live(D) PROVE E[i] = D[i]
  BY <1>1, <1>3
<1>4. ASSUME NEW i \in Live(D) \cap G PROVE E[i] = Gone
  BY <1>1, <1>2, <1>4
<1>5. ASSUME NEW i \in Live(D) \ G
      PROVE  /\ E[i].table = D[i].table
             /\ E[i].ref \in [Columns(D[i].table) -> Ids \cup {Outside, None}]
             /\ IsRow(E[i])
             /\ \A f \in Columns(D[i].table) :
                    E[i].ref[f] = IF <<i, f>> \in N THEN None ELSE D[i].ref[f]
  <2>1. E[i] = [table |-> D[i].table, ref |-> Ref(i)]
    BY <1>1, <1>2, <1>5
  <2>2. /\ D[i].table \in Tables
        /\ D[i].ref \in [Columns(D[i].table) -> Ids \cup {Outside, None}]
    BY <1>5, LiveRows, RowFacts
  <2>3. Ref(i) \in [Columns(D[i].table) -> Ids \cup {Outside, None}]
    BY <2>2
  <2>4. IsRow(E[i])
    BY <2>1, <2>2, <2>3, RowMade
  <2> QED BY <2>1, <2>3, <2>4
<1>6. ASSUME NEW i \in Ids PROVE i \in Live(E) <=> i \in Live(D) \ G
  <2>1. CASE i \notin Live(D)
    BY <1>3, <2>1 DEF Live
  <2>2. CASE i \in Live(D) \cap G
    BY <1>4, <2>2 DEF Live
  <2>3. CASE i \in Live(D) \ G
    BY <1>5, <2>3, ConstantsAssumption DEF Live
  <2> QED BY <2>1, <2>2, <2>3
<1>7. Live(E) = Live(D) \ G
  BY <1>2, <1>6 DEF Live
<1> QED BY <1>2, <1>3, <1>4, <1>5, <1>7

(***************************************************************************)
(* A direct deletion that leaves a consistent database took every row the  *)
(* collector would take: the only keys left to nulled are SET_NULL keys.   *)
(***************************************************************************)
LEMMA DirectIsCollected ==
    ASSUME NEW D, Sound(D), NEW H, NEW r \in Live(D), Consistent(ByDatabase(D, {r}), H)
    PROVE  /\ ~Protected(D, r)
           /\ ByCollector(D, Collected(D, r)) = ByDatabase(D, {r})
<1> DEFINE C == Reach(Database, D, {r})
           A == Reach(Model, D, {r})
           E == ByDatabase(D, {r})
           J == Collected(D, r)
           G == J \cup Queried(D, J)
<1>1. E = Without(D, C, Nulled(Database, D, C))
  BY DEF ByDatabase
<1>2. r \in Ids /\ r \in A /\ r \in C /\ A \subseteq Ids /\ C \subseteq Ids
  BY ReachHolds DEF Live
<1>3. ASSUME NEW i \in Live(D) \ C, NEW f \in Columns(D[i].table), D[i].ref[f] \in C
      PROVE  /\ Database[D[i].table][f].rule = "SET_NULL"
             /\ Model[D[i].table][f].rule = "SET_NULL"
  <2> SUFFICES ASSUME Database[D[i].table][f].rule # "SET_NULL" PROVE FALSE
    <3>1. D[i].table \in Tables
      BY <1>3, LiveRows, RowFacts
    <3> QED BY <3>1, SchemaAssumption
  <2>1. <<i, f>> \notin Nulled(Database, D, C)
    BY NulledIn
  <2>2. /\ i \in Live(E) /\ E[i].table = D[i].table
        /\ E[i].ref[f] = D[i].ref[f] /\ Live(E) = Live(D) \ C
    <3> HIDE DEF E, C
    <3>1. /\ Live(E) = Live(D) \ C
          /\ E[i].table = D[i].table
          /\ E[i].ref[f] = IF <<i, f>> \in Nulled(Database, D, C) THEN None ELSE D[i].ref[f]
      BY <1>1, <1>3, WithoutFacts
    <3> QED BY <1>3, <2>1, <3>1
  <2>3. D[i].ref[f] \in Live(E)
    BY <1>2, <1>3, <2>2 DEF Consistent
  <2> QED BY <1>3, <2>2, <2>3
<1>4. A \subseteq C
  <2>1. Closed(Model, D, C)
    <3> SUFFICES ASSUME NEW i \in Live(D), NEW f \in Columns(D[i].table),
                        Model[D[i].table][f].rule = "CASCADE", D[i].ref[f] \in C, i \notin C
                 PROVE  FALSE
      BY DEF Closed
    <3> QED BY <1>3
  <2> QED BY <1>2, <2>1, ReachLeast
<1>5. Closed(Database, D, A)
  <2>1. Closed(Model, D, A)
    BY ReachClosed
  <2> SUFFICES ASSUME NEW i \in Live(D), NEW f \in Columns(D[i].table),
                      Database[D[i].table][f].rule = "CASCADE", D[i].ref[f] \in A
               PROVE  i \in A
    BY DEF Closed
  <2>2. D[i].table \in Tables
    BY LiveRows, RowFacts
  <2>3. Model[D[i].table][f].rule = "CASCADE"
    BY <2>2, SchemaAssumption
  <2> QED BY <2>1, <2>3 DEF Closed
<1>6. C = A
  <2>1. C \subseteq A
    BY <1>2, <1>5, ReachLeast
  <2> QED BY <1>4, <2>1
<1>7. ASSUME NEW i \in A, i # r
      PROVE  /\ i \in Live(D)
             /\ \E f \in Columns(D[i].table) :
                /\ Model[D[i].table][f].rule = "CASCADE"
                /\ D[i].ref[f] \in A /\ D[i].ref[f] \in J
  <2>1. PICK f \in Columns(D[i].table) : /\ i \in Live(D)
                                        /\ Model[D[i].table][f].rule = "CASCADE"
                                        /\ D[i].ref[f] \in A
    BY <1>2, <1>7, ReachCaused
  <2>2. /\ D[i].table \in Tables
        /\ D[D[i].ref[f]].table = Model[D[i].table][f].to
    BY <1>2, <2>1, LiveRows, RowFacts DEF Sound
  <2>3. Model[D[i].table][f].to \notin Fast
    BY <2>1, <2>2 DEF Fast
  <2> QED BY <2>1, <2>2, <2>3 DEF Collected
<1>8. G = A
  <2>1. J \subseteq A
    BY DEF Collected
  <2>2. Queried(D, J) \subseteq A
    <3> SUFFICES ASSUME NEW i \in Queried(D, J) PROVE i \in A
      OBVIOUS
    <3>1. PICK f \in Columns(D[i].table) : /\ i \in Live(D) /\ D[i].ref[f] \in J
                                          /\ Model[D[i].table][f].rule = "CASCADE"
      BY ChildIn DEF Queried
    <3> QED BY <2>1, <3>1, ReachClosed DEF Closed
  <2>3. A \subseteq G
    <3> SUFFICES ASSUME NEW i \in A, i \notin J PROVE i \in Queried(D, J)
      OBVIOUS
    <3>1. i # r /\ D[i].table \in Fast
      BY <1>2 DEF Collected
    <3>2. i \in Children(Model, D, J, "CASCADE")
      BY <1>7, <3>1, ChildIn
    <3> QED BY <3>1, <3>2 DEF Queried
  <2> QED BY <2>1, <2>2, <2>3
<1>9. Reach(Database, D, G) = A
  <2>1. A \subseteq Reach(Database, D, A)
    BY <1>2, ReachHolds
  <2>2. Reach(Database, D, A) \subseteq A
    BY <1>2, <1>5, ReachLeast
  <2> QED BY <1>8, <2>1, <2>2
<1>10. ByCollector(D, J) = Without(D, A, Nulled(Model, D, A) \cup Nulled(Database, D, A))
  <2>1. ByCollector(D, J) =
          Without(D, Reach(Database, D, G),
                  Nulled(Model, D, G) \cup Nulled(Database, D, Reach(Database, D, G)))
    BY DEF ByCollector
  <2> HIDE DEF A, G, J
  <2> QED BY <1>8, <1>9, <2>1
<1>11. ByCollector(D, J) = E
  <2>1. ASSUME NEW i \in Live(D) \ A, NEW f \in Columns(D[i].table)
        PROVE  <<i, f>> \in Nulled(Model, D, A) \cup Nulled(Database, D, A)
                 <=> <<i, f>> \in Nulled(Database, D, A)
    <3> SUFFICES ASSUME <<i, f>> \in Nulled(Model, D, A)
                 PROVE  <<i, f>> \in Nulled(Database, D, A)
      OBVIOUS
    <3>1. D[i].ref[f] \in A
      BY NulledIn
    <3>2. Database[D[i].table][f].rule = "SET_NULL"
      BY <1>3, <1>6, <3>1
    <3> QED BY <3>1, <3>2, NulledIn
  <2> HIDE DEF A, C
  <2>2. Without(D, A, Nulled(Model, D, A) \cup Nulled(Database, D, A))
          = Without(D, A, Nulled(Database, D, A))
    BY <2>1, WithoutSame
  <2> QED BY <1>1, <1>6, <1>10, <2>2
<1>12. ~Protected(D, r)
  <2>1. ASSUME NEW i \in Children(Model, D, A, "RESTRICT") PROVE i \in A
    <3>1. PICK f \in Columns(D[i].table) : /\ i \in Live(D) /\ D[i].ref[f] \in A
                                          /\ Model[D[i].table][f].rule = "RESTRICT"
      BY ChildIn
    <3> QED BY <1>3, <1>6, <3>1
  <2>2. ASSUME NEW i \in Children(Model, D, A, "PROTECT") PROVE FALSE
    <3>1. PICK f \in Columns(D[i].table) : /\ i \in Live(D) /\ D[i].ref[f] \in A
                                          /\ Model[D[i].table][f].rule = "PROTECT"
      BY <2>2, ChildIn
    <3> DEFINE p == D[i].ref[f]
    <3>2. D[i].table \in Tables
      BY <3>1, LiveRows, RowFacts
    <3>3. /\ Columns(Model[D[i].table][f].to) = {}
          /\ \A g \in Columns(D[i].table) : Database[D[i].table][g].rule # "CASCADE"
      BY <3>1, <3>2, SchemaAssumption
    <3>4. p \in Live(D) /\ Columns(D[p].table) = {}
      BY <1>2, <3>1, <3>3 DEF Sound
    <3>5. p = r
      BY <1>7, <3>1, <3>4
    <3>6. i # r
      BY <3>4, <3>5
    <3>7. i \in C
      BY <1>3, <1>6, <3>1
    <3>8. \E g \in Columns(D[i].table) : Database[D[i].table][g].rule = "CASCADE"
      BY <1>2, <3>6, <3>7, ReachCaused
    <3> QED BY <3>3, <3>8
  <2> QED BY <2>1, <2>2 DEF Protected
<1> QED BY <1>11, <1>12

\* Records without names are held to no more than they were with them.
LEMMA AnonymousConsistent ==
    ASSUME NEW D, NEW H, NEW G, Consistent(D, H)
    PROVE  Consistent(D, Anonymous(H, G))
<1> SUFFICES ASSUME NEW h \in Anonymous(H, G), NEW f \in DOMAIN History[h.row.table],
                    History[h.row.table][f], Mention(h, f) \in Ids
             PROVE  Mention(h, f) \in Live(D)
  BY DEF Consistent
<1>1. PICK k \in H :
        h = [id |-> k.id, row |-> k.row, by |-> IF k.by \in G THEN None ELSE k.by]
  BY DEF Anonymous
<1>2. h.row = k.row /\ (h.by = None \/ h.by = k.by)
  BY <1>1
<1>3. CASE f = "history_user"
  <2>1. h.by \in Ids
    BY <1>3 DEF Mention
  <2>2. h.by = k.by
    BY <1>2, <2>1, ConstantsAssumption
  <2> QED BY <1>2, <1>3, <2>2 DEF Consistent, Mention
<1>4. CASE f # "history_user"
  BY <1>2, <1>4 DEF Consistent, Mention
<1> QED BY <1>3, <1>4

\* In a sound database the two paths agree, or the direct one is refused.
LEMMA OutcomesAgree ==
    ASSUME NEW D, Sound(D), NEW H, NEW r \in Live(D)
    PROVE  SqlOutcome(D, H, r) \in {Refused, ApiOutcome(D, H, r)}
<1>1. CASE Commits(D, ByDatabase(D, {r}), H)
  <2>1. /\ ~Protected(D, r)
        /\ ByCollector(D, Collected(D, r)) = ByDatabase(D, {r})
    BY <1>1, DirectIsCollected DEF Commits
  <2>2. Commits(D, ByDatabase(D, {r}), Anonymous(H, Collected(D, r)))
    BY <1>1, AnonymousConsistent DEF Commits
  <2> QED BY <1>1, <2>1, <2>2 DEF SqlOutcome, ApiOutcome
<1>2. CASE ~Commits(D, ByDatabase(D, {r}), H)
  BY <1>2 DEF SqlOutcome
<1> QED BY <1>1, <1>2
-----------------------------------------------------------------------------
\* What is deleted from a sound database leaves one if it is consistent.
LEMMA WithoutSound ==
    ASSUME NEW D, Sound(D), NEW G, NEW N, NEW H, Consistent(Without(D, G, N), H)
    PROVE  Sound(Without(D, G, N))
<1> DEFINE E == Without(D, G, N)
<1>1. DOMAIN E = Ids
  BY WithoutFacts
<1>2. Live(E) = Live(D) \ G
  BY WithoutFacts
<1>3. ASSUME NEW i \in Ids PROVE E[i] \in {Unborn, Gone} \/ IsRow(E[i])
  <2>1. CASE i \notin Live(D)
    <3>1. E[i] = D[i]
      BY <2>1, WithoutFacts
    <3> QED BY <2>1, <3>1 DEF Live
  <2>2. CASE i \in Live(D) \cap G
    BY <2>2, WithoutFacts
  <2>3. CASE i \in Live(D) \ G
    BY <2>3, WithoutFacts
  <2> QED BY <2>1, <2>2, <2>3
<1>4. ASSUME NEW i \in Live(E), NEW f \in Columns(E[i].table), E[i].ref[f] \in Ids
      PROVE  /\ E[i].ref[f] \in Live(E)
             /\ E[E[i].ref[f]].table = Model[E[i].table][f].to
  <2>1. E[i].ref[f] \in Live(E)
    BY <1>4 DEF Consistent
  <2>2. i \in Live(D) \ G
    BY <1>2
  <2>3. /\ E[i].table = D[i].table
        /\ E[i].ref[f] = IF <<i, f>> \in N THEN None ELSE D[i].ref[f]
    BY <2>2, WithoutFacts
  <2>4. E[i].ref[f] = D[i].ref[f]
    BY <1>4, <2>3, ConstantsAssumption
  <2>5. D[D[i].ref[f]].table = Model[D[i].table][f].to
    BY <1>4, <2>2, <2>3, <2>4 DEF Sound
  <2>6. E[D[i].ref[f]].table = D[D[i].ref[f]].table
    <3>1. D[i].ref[f] \in Live(D) \ G
      BY <1>2, <2>1, <2>4
    <3> QED BY <3>1, WithoutFacts
  <2> QED BY <2>1, <2>3, <2>4, <2>5, <2>6
<1> HIDE DEF E
<1>5. Sound(E)
  BY <1>1, <1>3, <1>4 DEF Sound
<1> QED BY <1>5 DEF E

\* A new row has a value for every key.
LEMMA BlankRow ==
    ASSUME NEW t \in Tables
    PROVE  Blank(t) \in [Columns(t) -> Ids \cup {Outside, None}]
BY DEF Blank

\* A row of the database is set, with keys to rows of the right tables.
LEMMA SetSound ==
    ASSUME NEW D, Sound(D), NEW i \in Ids, D[i] # Gone,
           NEW t \in Tables, NEW g \in [Columns(t) -> Ids \cup {Outside, None}],
           i \in Live(D) => t = D[i].table,
           \A f \in Columns(t) : g[f] \in Ids =>
                g[f] \in Live(D) /\ D[g[f]].table = Model[t][f].to
    PROVE  /\ Sound([D EXCEPT ![i] = [table |-> t, ref |-> g]])
           /\ \A j \in Ids : j # i => [D EXCEPT ![i] = [table |-> t, ref |-> g]][j] = D[j]
           /\ i \in Live([D EXCEPT ![i] = [table |-> t, ref |-> g]])
<1> DEFINE x == [table |-> t, ref |-> g]
           E == [D EXCEPT ![i] = x]
<1>1. DOMAIN E = Ids /\ E[i] = x /\ \A j \in Ids : j # i => E[j] = D[j]
  BY DEF Sound
<1>2. IsRow(x) /\ x.table = t /\ x.ref = g
  BY RowMade
<1>3. Live(E) = Live(D) \cup {i}
  BY <1>1, <1>2, ConstantsAssumption DEF Live
<1>4. ASSUME NEW j \in Ids PROVE E[j] \in {Unborn, Gone} \/ IsRow(E[j])
  BY <1>1, <1>2 DEF Sound
<1>5. ASSUME NEW j \in Live(D) PROVE E[j].table = D[j].table
  BY <1>1, <1>2 DEF Live
<1>6. ASSUME NEW j \in Live(E), NEW f \in Columns(E[j].table), E[j].ref[f] \in Ids
      PROVE  /\ E[j].ref[f] \in Live(E)
             /\ E[E[j].ref[f]].table = Model[E[j].table][f].to
  <2>1. CASE j = i
    <3>1. E[j].table = t /\ E[j].ref[f] = g[f] /\ f \in Columns(t)
      BY <1>1, <1>2, <1>6, <2>1
    <3>2. g[f] \in Live(D) /\ D[g[f]].table = Model[t][f].to
      BY <1>6, <3>1
    <3> HIDE DEF E
    <3> QED BY <1>3, <1>5, <3>1, <3>2
  <2>2. CASE j # i
    <3>1. j \in Live(D) /\ E[j] = D[j]
      BY <1>1, <1>3, <2>2 DEF Live
    <3>2. D[j].ref[f] \in Live(D) /\ D[D[j].ref[f]].table = Model[D[j].table][f].to
      BY <1>6, <3>1 DEF Sound
    <3> HIDE DEF E
    <3> QED BY <1>3, <1>5, <3>1, <3>2
  <2> QED BY <2>1, <2>2
<1> HIDE DEF E, x
<1>7. Sound(E)
  BY <1>1, <1>4, <1>6 DEF Sound
<1> QED BY <1>1, <1>3, <1>7 DEF E, x
-----------------------------------------------------------------------------
\* The row x was read where y is now: a row of the table, or none any more.
CopyOf(x, y) == y # Unborn /\ (y # Gone => y.table = x.table)

(***************************************************************************)
(* The inductive invariant: the database is sound, a collected copy is of  *)
(* an id that had a row, and a recorded id's row is gone for good.         *)
(***************************************************************************)
SoundInv ==
    /\ TypeOK
    /\ Sound(db)
    /\ \A q \in Requests : \A i \in DOMAIN job[q] : CopyOf(job[q][i], db[i])
    /\ \A h \in log : db[h.id] = Gone

\* A behaviour begins with a sound database.
LEMMA InitSound == Init => SoundInv
<1> SUFFICES ASSUME Init PROVE SoundInv
  OBVIOUS
<1>1. Sound(db)
  BY StartAssumption DEF Init
<1>2. \A q \in Requests : DOMAIN job[q] = {}
  BY DEF Init, NoRows
<1> QED BY <1>1, <1>2, ConstantsAssumption DEF Init, SoundInv, TypeOK, Sound

\* A transaction of another client that leaves a sound database in which
\* what was gone is gone and what was born stays born.
LEMMA WriteSound ==
    ASSUME SoundInv, NEW E, Write(E), Sound(E),
           \A i \in Ids : /\ db[i] = Gone => E[i] = Gone
                          /\ db[i] # Unborn => E[i] # Unborn
                          /\ i \in Live(db) => E[i] = Gone \/ E[i].table = db[i].table
    PROVE  SoundInv'
<1>1. db' = E /\ job' = job /\ by' = by /\ log' = log /\ writes' \in 0 .. MaxWrites
  BY ConstantsAssumption DEF Write, SoundInv, TypeOK
<1>2. TypeOK'
  <2>1. \A i \in Ids : E[i] \in {Unborn, Gone} \/ IsRow(E[i])
    BY DEF Sound
  <2> QED BY <1>1, <2>1 DEF SoundInv, TypeOK
<1>3. \A q \in Requests : \A i \in DOMAIN job[q] : CopyOf(job[q][i], E[i])
  BY DEF SoundInv, TypeOK, CopyOf, Live
<1>4. \A h \in log : E[h.id] = Gone
  BY DEF SoundInv, TypeOK
<1> QED BY <1>1, <1>2, <1>3, <1>4 DEF SoundInv

\* Rows that leave, leave for good.
LEMMA WithoutKeeps ==
    ASSUME NEW D, Sound(D), NEW G, NEW N, NEW i \in Ids
    PROVE  /\ D[i] = Gone => Without(D, G, N)[i] = Gone
           /\ D[i] # Unborn => Without(D, G, N)[i] # Unborn
           /\ D[i] # Unborn /\ i \in G => Without(D, G, N)[i] = Gone
           /\ i \in Live(D) => \/ Without(D, G, N)[i] = Gone
                              \/ Without(D, G, N)[i].table = D[i].table
<1>1. CASE i \notin Live(D)
  <2>1. Without(D, G, N)[i] = D[i]
    BY <1>1, WithoutFacts
  <2> QED BY <1>1, <2>1 DEF Live
<1>2. CASE i \in Live(D) \cap G
  BY <1>2, WithoutFacts, ConstantsAssumption DEF Live
<1>3. CASE i \in Live(D) \ G
  <2>1. i \in Live(Without(D, G, N)) /\ Without(D, G, N)[i].table = D[i].table
    BY <1>3, WithoutFacts
  <2> QED BY <1>3, <2>1 DEF Live
<1> QED BY <1>1, <1>2, <1>3

\* A direct deletion leaves a sound database.
LEMMA SqlDeleteSound == ASSUME SoundInv, NEW r \in Ids, SqlDelete(r) PROVE SoundInv'
<1> DEFINE C == Reach(Database, db, {r})
           E == Without(db, C, Nulled(Database, db, C))
<1>1. ByDatabase(db, {r}) = E
  BY DEF ByDatabase
<1>2. Sound(db) /\ Write(E) /\ Consistent(E, log)
  BY <1>1 DEF SoundInv, SqlDelete, Write, Commits
<1> HIDE DEF C
<1>3. Sound(E)
  BY <1>2, WithoutSound
<1>4. \A i \in Ids : /\ db[i] = Gone => E[i] = Gone
                     /\ db[i] # Unborn => E[i] # Unborn
                     /\ i \in Live(db) => E[i] = Gone \/ E[i].table = db[i].table
  BY <1>2, WithoutKeeps
<1> HIDE DEF E
<1> QED BY <1>2, <1>3, <1>4, WriteSound

\* A direct insertion leaves a sound database.
LEMMA SqlInsertSound ==
    ASSUME SoundInv, NEW i \in {j \in Ids : db[j] = Unborn}, NEW p \in Live(db),
           NEW t \in Tables, NEW f \in Columns(t), SqlInsert(i, t, f, p)
    PROVE  SoundInv'
<1> DEFINE g == [Blank(t) EXCEPT ![f] = p]
           E == [db EXCEPT ![i] = [table |-> t, ref |-> g]]
<1>1. Sound(db) /\ Write(E) /\ db[p].table = Database[t][f].to
  BY DEF SoundInv, SqlInsert
<1>2. g \in [Columns(t) -> Ids \cup {Outside, None}]
  BY BlankRow DEF Live
<1>3. \A h \in Columns(t) : g[h] \in Ids =>
        g[h] \in Live(db) /\ db[g[h]].table = Model[t][h].to
  <2> SUFFICES ASSUME NEW h \in Columns(t), g[h] \in Ids
               PROVE  g[h] \in Live(db) /\ db[g[h]].table = Model[t][h].to
    OBVIOUS
  <2>1. h # f => g[h] \in {None, Outside}
    BY DEF Blank
  <2>2. h = f /\ g[h] = p
    BY <2>1, BlankRow, ConstantsAssumption DEF Blank
  <2> QED BY <1>1, <2>2, SchemaAssumption
<1>4. db[i] # Gone /\ i \notin Live(db)
  BY ConstantsAssumption DEF Live
<1> HIDE DEF g
<1>5. /\ Sound(E) /\ i \in Live(E)
      /\ \A j \in Ids : j # i => E[j] = db[j]
  BY <1>1, <1>2, <1>3, <1>4, SetSound
<1>6. \A j \in Ids : /\ db[j] = Gone => E[j] = Gone
                     /\ db[j] # Unborn => E[j] # Unborn
                     /\ j \in Live(db) => E[j] = Gone \/ E[j].table = db[j].table
  BY <1>4, <1>5 DEF Live
<1> HIDE DEF E
<1> QED BY <1>1, <1>5, <1>6, WriteSound

\* A direct update leaves a sound database.
LEMMA SqlUpdateSound ==
    ASSUME SoundInv, NEW i \in Live(db), NEW p \in Ids \cup {Outside, None},
           NEW f \in Columns(db[i].table), SqlUpdate(i, f, p)
    PROVE  SoundInv'
<1> DEFINE t == db[i].table
           g == [db[i].ref EXCEPT ![f] = p]
           E == [db EXCEPT ![i] = [table |-> t, ref |-> g]]
<1>1. Sound(db)
  BY DEF SoundInv
<1>2. /\ IsRow(db[i]) /\ t \in Tables
      /\ db[i].ref \in [Columns(t) -> Ids \cup {Outside, None}]
      /\ db[i] = [table |-> t, ref |-> db[i].ref]
  BY <1>1, LiveRows, RowFacts
<1>3. [db EXCEPT ![i].ref = g] = E
  <2>1. [db[i] EXCEPT !.ref = g] = [table |-> t, ref |-> g]
    BY <1>2
  <2>2. [db EXCEPT ![i].ref = g] = [db EXCEPT ![i] = [db[i] EXCEPT !.ref = g]]
    <3> HIDE DEF g
    <3> QED OBVIOUS
  <2> HIDE DEF g, t
  <2> QED BY <2>1, <2>2
<1>4. Write(E)
  BY <1>3 DEF SqlUpdate
<1>5. g \in [Columns(t) -> Ids \cup {Outside, None}]
  BY <1>2
<1>6. \A h \in Columns(t) : g[h] \in Ids =>
        g[h] \in Live(db) /\ db[g[h]].table = Model[t][h].to
  <2> SUFFICES ASSUME NEW h \in Columns(t), g[h] \in Ids
               PROVE  g[h] \in Live(db) /\ db[g[h]].table = Model[t][h].to
    OBVIOUS
  <2>1. CASE h # f
    BY <1>1, <1>2, <2>1 DEF Sound
  <2>2. CASE h = f
    <3>1. g[h] = p
      BY <1>2, <2>2
    <3>2. p \in Live(db) /\ db[p].table = Database[t][f].to
      BY <3>1, ConstantsAssumption DEF SqlUpdate
    <3> QED BY <1>2, <2>2, <3>1, <3>2, SchemaAssumption
  <2> QED BY <2>1, <2>2
<1>7. i \in Ids /\ db[i] # Gone /\ db[i] # Unborn
  BY DEF Live
<1> HIDE DEF g
<1>8. /\ Sound(E) /\ i \in Live(E) /\ E[i].table = db[i].table
      /\ \A j \in Ids : j # i => E[j] = db[j]
  <2>1. E[i].table = t
    BY <1>1, <1>7 DEF Sound
  <2> HIDE DEF E
  <2>2. /\ Sound(E) /\ i \in Live(E)
        /\ \A j \in Ids : j # i => E[j] = db[j]
    BY <1>1, <1>2, <1>5, <1>6, <1>7, SetSound DEF E
  <2> QED BY <2>1, <2>2
<1>9. \A j \in Ids : /\ db[j] = Gone => E[j] = Gone
                     /\ db[j] # Unborn => E[j] # Unborn
                     /\ j \in Live(db) => E[j] = Gone \/ E[j].table = db[j].table
  BY <1>7, <1>8 DEF Live
<1> HIDE DEF E
<1> QED BY <1>4, <1>8, <1>9, WriteSound

\* What is collected are rows.
LEMMA CollectSound ==
    ASSUME SoundInv, NEW q \in Requests, NEW r \in Ids,
           NEW u \in Users(db) \cup {Outside}, Collect(q, r, u)
    PROVE  SoundInv'
<1> DEFINE J == Collected(db, r)
           copy == [i \in J |-> db[i]]
<1>1. /\ job' = [job EXCEPT ![q] = copy] /\ r \in Live(db)
      /\ db' = db /\ log' = log /\ writes' = writes /\ Sound(db)
  BY DEF Collect, SoundInv
<1>2. ASSUME NEW i \in J PROVE i \in Live(db)
  <2>1. i \in Reach(Model, db, {r}) /\ {r} \in SUBSET Ids
    BY DEF Collected
  <2> QED BY <1>1, <2>1, ReachCaused
<1>3. \A i \in J : i \in Ids /\ db[i] # Unborn /\ IsRow(db[i])
  BY <1>1, <1>2, LiveRows DEF Live
<1> HIDE DEF J
<1>4. /\ DOMAIN copy \subseteq Ids
      /\ \A i \in DOMAIN copy : IsRow(copy[i]) /\ CopyOf(copy[i], db[i])
  BY <1>3 DEF CopyOf
<1> HIDE DEF copy
<1>5. DOMAIN job' = Requests
  BY <1>1 DEF SoundInv, TypeOK
<1>6. ASSUME NEW s \in Requests
      PROVE  /\ DOMAIN job'[s] \subseteq Ids
             /\ \A i \in DOMAIN job'[s] : IsRow(job'[s][i]) /\ CopyOf(job'[s][i], db[i])
  <2>1. CASE s = q
    BY <1>1, <1>4, <2>1 DEF SoundInv, TypeOK
  <2>2. CASE s # q
    BY <1>1, <2>2 DEF SoundInv, TypeOK
  <2> QED BY <2>1, <2>2
<1>7. by' \in [Requests -> Ids \cup {Outside}]
  <2>1. u \in Ids \cup {Outside}
    BY DEF Users, Live
  <2> QED BY <2>1 DEF Collect, SoundInv, TypeOK
<1>8. TypeOK'
  BY <1>1, <1>5, <1>6, <1>7 DEF SoundInv, TypeOK
<1> QED BY <1>1, <1>6, <1>8 DEF SoundInv

\* A request that ends has collected nothing, and leaves the rest as it is.
LEMMA Emptied ==
    ASSUME SoundInv, NEW q \in Requests, Answer(q)
    PROVE  /\ DOMAIN job' = Requests
           /\ by' \in [Requests -> Ids \cup {Outside}]
           /\ \A s \in Requests :
                /\ DOMAIN job'[s] \subseteq Ids
                /\ \A i \in DOMAIN job'[s] : IsRow(job'[s][i]) /\ CopyOf(job'[s][i], db[i])
<1>1. DOMAIN NoRows = {}
  BY DEF NoRows
<1>2. /\ job' = [job EXCEPT ![q] = NoRows] /\ DOMAIN job' = Requests
      /\ by' \in [Requests -> Ids \cup {Outside}]
  BY DEF Answer, SoundInv, TypeOK
<1>3. ASSUME NEW s \in Requests
      PROVE  /\ DOMAIN job'[s] \subseteq Ids
             /\ \A i \in DOMAIN job'[s] : IsRow(job'[s][i]) /\ CopyOf(job'[s][i], db[i])
  <2>1. CASE s = q
    BY <1>1, <1>2, <2>1 DEF SoundInv, TypeOK
  <2>2. CASE s # q
    BY <1>2, <2>2 DEF SoundInv, TypeOK
  <2> QED BY <2>1, <2>2
<1> QED BY <1>2, <1>3

\* A worker that dies changes no row.
LEMMA DieSound == ASSUME SoundInv, NEW q \in Requests, Die(q) PROVE SoundInv'
<1>1. Answer(q) /\ db' = db /\ log' = log /\ writes' = writes
  BY DEF Die
<1>2. /\ DOMAIN job' = Requests
      /\ by' \in [Requests -> Ids \cup {Outside}]
      /\ \A s \in Requests :
                /\ DOMAIN job'[s] \subseteq Ids
                /\ \A i \in DOMAIN job'[s] : IsRow(job'[s][i]) /\ CopyOf(job'[s][i], db[i])
  BY <1>1, Emptied
<1>3. TypeOK'
  BY <1>1, <1>2 DEF SoundInv, TypeOK
<1> QED BY <1>1, <1>2, <1>3 DEF SoundInv

\* The transaction of a DELETE leaves a sound database and true records.
LEMMA ExecuteSound == ASSUME SoundInv, NEW q \in Requests, Execute(q) PROVE SoundInv'
<1> DEFINE J == DOMAIN job[q]
           G == J \cup Queried(db, J)
           all == Reach(Database, db, G)
           N == Nulled(Model, db, G) \cup Nulled(Database, db, all)
           E == Without(db, all, N)
<1>1. ByCollector(db, J) = E
  BY DEF ByCollector
<1>2. /\ Answer(q) /\ writes' = writes
      /\ \/ db' = db /\ log' = log
         \/ db' = E /\ log' = Recorded(q) /\ Consistent(E, Recorded(q))
  <2> HIDE DEF E
  <2> QED BY <1>1 DEF Execute, Commits
<1>3. /\ DOMAIN job' = Requests
      /\ by' \in [Requests -> Ids \cup {Outside}]
      /\ \A s \in Requests :
                /\ DOMAIN job'[s] \subseteq Ids
                /\ \A i \in DOMAIN job'[s] : IsRow(job'[s][i]) /\ CopyOf(job'[s][i], db[i])
  BY <1>2, Emptied
<1>4. CASE db' = db /\ log' = log
  <2>1. TypeOK'
    BY <1>2, <1>3, <1>4 DEF SoundInv, TypeOK
  <2> QED BY <1>3, <1>4, <2>1 DEF SoundInv
<1>5. CASE db' = E /\ log' = Recorded(q) /\ Consistent(E, Recorded(q))
  <2>1. Sound(db)
    BY DEF SoundInv
  <2>2. J \subseteq all
    <3>1. Queried(db, J) \subseteq Ids
      BY ChildIn DEF Queried, Live
    <3>2. G \in SUBSET Ids
      BY <3>1 DEF SoundInv, TypeOK
    <3> QED BY <3>2, ReachHolds
  <2> HIDE DEF all, N
  <2>3. Sound(E)
    BY <1>5, <2>1, WithoutSound
  <2>4. ASSUME NEW i \in Ids
        PROVE  /\ db[i] = Gone => E[i] = Gone
               /\ db[i] # Unborn => E[i] # Unborn
               /\ db[i] # Unborn /\ i \in all => E[i] = Gone
               /\ i \in Live(db) => E[i] = Gone \/ E[i].table = db[i].table
    BY <2>1, WithoutKeeps
  <2> HIDE DEF E
  <2>5. ASSUME NEW h \in Records(q)
        PROVE  /\ h.id \in Ids /\ IsRow(h.row) /\ E[h.id] = Gone
               /\ h.by \in Ids \cup {Outside, None}
    <3>1. h.id \in J /\ h.row = job[q][h.id] /\ h.by = by[q]
      BY DEF Records
    <3>2. h.id \in Ids /\ IsRow(job[q][h.id]) /\ db[h.id] # Unborn
      BY <3>1 DEF SoundInv, TypeOK, CopyOf
    <3> QED BY <2>2, <2>4, <3>1, <3>2 DEF SoundInv, TypeOK
  <2>6. ASSUME NEW h \in Anonymous(log, J)
        PROVE  /\ h.id \in Ids /\ IsRow(h.row) /\ E[h.id] = Gone
               /\ h.by \in Ids \cup {Outside, None}
    <3>1. PICK k \in log :
            h = [id |-> k.id, row |-> k.row, by |-> IF k.by \in J THEN None ELSE k.by]
      BY DEF Anonymous
    <3>2. /\ k.id \in Ids /\ IsRow(k.row) /\ E[k.id] = Gone
          /\ k.by \in Ids \cup {Outside, None}
      BY <2>4 DEF SoundInv, TypeOK
    <3>3. h.id = k.id /\ h.row = k.row /\ (h.by = None \/ h.by = k.by)
      BY <3>1
    <3> QED BY <3>2, <3>3
  <2>7. \A h \in log' : /\ h.id \in Ids /\ IsRow(h.row) /\ E[h.id] = Gone
                        /\ h.by \in Ids \cup {Outside, None}
    BY <1>5, <2>5, <2>6 DEF Recorded
  <2>8. \A i \in Ids : E[i] \in {Unborn, Gone} \/ IsRow(E[i])
    BY <2>3 DEF Sound
  <2>9. TypeOK'
    BY <1>2, <1>3, <1>5, <2>7, <2>8 DEF SoundInv, TypeOK
  <2>10. \A s \in Requests : \A i \in DOMAIN job'[s] : CopyOf(job'[s][i], E[i])
    BY <1>3, <2>4 DEF CopyOf, Live
  <2> QED BY <1>5, <2>3, <2>7, <2>9, <2>10 DEF SoundInv
<1> QED BY <1>2, <1>4, <1>5

\* Every step keeps the database sound.
LEMMA StepSound == SoundInv /\ [Next]_vars => SoundInv'
<1> SUFFICES ASSUME SoundInv, [Next]_vars PROVE SoundInv'
  OBVIOUS
<1>1. CASE UNCHANGED vars
  BY <1>1 DEF vars, SoundInv, TypeOK
<1>2. ASSUME NEW q \in Requests, \/ Execute(q) \/ Die(q)
                                  \/ \E r \in Ids, u \in Users(db) \cup {Outside} : Collect(q, r, u)
      PROVE  SoundInv'
  BY <1>2, ExecuteSound, DieSound, CollectSound
<1>3. ASSUME NEW r \in Ids, SqlDelete(r) PROVE SoundInv'
  BY <1>3, SqlDeleteSound
<1>4. ASSUME NEW i \in {j \in Ids : db[j] = Unborn}, NEW p \in Live(db), NEW t \in Tables,
             NEW f \in Columns(t), SqlInsert(i, t, f, p)
      PROVE  SoundInv'
  BY <1>4, SqlInsertSound
<1>5. ASSUME NEW i \in Live(db), NEW p \in Ids \cup {Outside, None},
             NEW f \in Columns(db[i].table), SqlUpdate(i, f, p)
      PROVE  SoundInv'
  BY <1>5, SqlUpdateSound
<1> QED BY <1>1, <1>2, <1>3, <1>4, <1>5 DEF Next

\* The database is always sound.
LEMMA SoundAlways == Spec => []SoundInv
BY InitSound, StepSound, PTL DEF Spec
-----------------------------------------------------------------------------
\* Ids hold rows of the classes, copies and records are rows.
THEOREM TypeCorrect == Spec => []TypeOK
<1>1. SoundInv => TypeOK
  BY DEF SoundInv
<1> QED BY <1>1, SoundAlways, PTL

\* A direct deletion leaves what the API's deletion leaves, or nothing
\* changes: for every schema in which the database's rules are a part of
\* the models' rules, and any number of rows.
THEOREM PathsAlwaysAgree == Spec => []PathsAgree
<1>1. SoundInv => PathsAgree
  BY OutcomesAgree DEF SoundInv, PathsAgree
<1> QED BY <1>1, SoundAlways, PTL

\* The history records the deletion only of rows that are gone.
THEOREM RecordsAreTrue == Spec => []RecordedRowsAreGone
<1>1. SoundInv => RecordedRowsAreGone
  BY DEF SoundInv, RecordedRowsAreGone
<1> QED BY <1>1, SoundAlways, PTL

\* What the API's transaction removes of the classes with a history was
\* collected: the rest it removes is of classes without one.
LEMMA ExecuteRecords ==
    ASSUME SoundInv, NEW q \in Requests, Execute(q),
           NEW i \in Live(db), db'[i] = Gone, db[i].table \in Tracked
    PROVE  \E h \in log' : h.id = i
<1> DEFINE J == DOMAIN job[q]
           G == J \cup Queried(db, J)
           all == Reach(Database, db, G)
           N == Nulled(Model, db, G) \cup Nulled(Database, db, all)
           E == Without(db, all, N)
<1>1. ByCollector(db, J) = E
  BY DEF ByCollector
<1>2. db' = E /\ Records(q) \subseteq log'
  <2>1. db' # db
    BY DEF Live
  <2> HIDE DEF E
  <2> QED BY <1>1, <2>1 DEF Execute, Recorded
<1>3. Sound(db) /\ IsRow(db[i]) /\ db[i].table \in Tables
  BY LiveRows, RowFacts DEF SoundInv
<1>4. G \in SUBSET Ids
  <2>1. Queried(db, J) \subseteq Ids
    BY ChildIn DEF Queried, Live
  <2> QED BY <2>1 DEF SoundInv, TypeOK
<1>5. i \in all
  <2> HIDE DEF all, N
  <2> SUFFICES ASSUME i \notin all PROVE FALSE
    OBVIOUS
  <2>1. i \in Live(E)
    BY <1>3, WithoutFacts
  <2> QED BY <1>2, <2>1 DEF Live
<1>6. i \in G
  <2> SUFFICES ASSUME i \notin G PROVE FALSE
    OBVIOUS
  <2>1. \E f \in Columns(db[i].table) : Database[db[i].table][f].rule = "CASCADE"
    <3> HIDE DEF G
    <3> QED BY <1>4, <1>5, ReachCaused
  <2> QED BY <2>1, SchemaAssumption
<1>7. i \in J
  <2>1. db[i].table \notin Fast
    BY SchemaAssumption DEF Fast
  <2> QED BY <1>6, <2>1 DEF Queried
<1>8. [id |-> i, row |-> job[q][i], by |-> by[q]] \in Records(q)
  <2>1. job[q][i].table \in Tracked
    BY <1>7 DEF SoundInv, CopyOf, Live
  <2> QED BY <1>7, <2>1 DEF Records
<1> QED BY <1>2, <1>8

\* Every row of a class with a history that the API deletes is recorded.
THEOREM DeletionsAlwaysRecorded == Spec => DeletionsAreRecorded
<1>1. SoundInv /\ [Next]_vars =>
        [(\E q \in Requests : Execute(q)) =>
            \A i \in Live(db) : db'[i] = Gone /\ db[i].table \in Tracked =>
                \E h \in log' : h.id = i]_vars
  BY ExecuteRecords
<1> QED BY <1>1, SoundAlways, PTL DEF Spec, DeletionsAreRecorded
-----------------------------------------------------------------------------
\* NOT NULL holds in every reachable database.
LEMMA NullsAlwaysAllowed == Spec => []NullsAllowed(db)
<1>1. Init => NullsAllowed(db)
  BY StartAssumption DEF Init
<1>2. NullsAllowed(db) /\ [Next]_vars => NullsAllowed(db)'
  <2> SUFFICES ASSUME NullsAllowed(db), [Next]_vars PROVE NullsAllowed(db)'
    OBVIOUS
  <2>1. ASSUME db' = db PROVE NullsAllowed(db)'
    BY <2>1 DEF NullsAllowed, Live
  <2>2. ASSUME NEW E, Write(E) PROVE NullsAllowed(db)'
    <3>1. db' = E /\ NullsAllowed(E)
      BY <2>2 DEF Write, Commits, Consistent
    <3> QED BY <3>1 DEF NullsAllowed, Live
  <2>3. ASSUME NEW q \in Requests, Execute(q) PROVE NullsAllowed(db)'
    <3> DEFINE E == ByCollector(db, DOMAIN job[q])
    <3>1. db' = db \/ (db' = E /\ NullsAllowed(E))
      BY <2>3 DEF Execute, Commits, Consistent
    <3> QED BY <2>1, <3>1 DEF NullsAllowed, Live
  <2>4. CASE UNCHANGED vars
    BY <2>1, <2>4 DEF vars
  <2>5. ASSUME NEW q \in Requests,
               Die(q) \/ \E r \in Ids, u \in Users(db) \cup {Outside} : Collect(q, r, u)
        PROVE  NullsAllowed(db)'
    BY <2>1, <2>5 DEF Die, Collect
  <2>6. ASSUME NEW r \in Ids, SqlDelete(r) PROVE NullsAllowed(db)'
    BY <2>2, <2>6 DEF SqlDelete
  <2>7. ASSUME NEW i \in {j \in Ids : db[j] = Unborn}, NEW p \in Live(db), NEW t \in Tables,
               NEW f \in Columns(t), SqlInsert(i, t, f, p)
        PROVE  NullsAllowed(db)'
    BY <2>2, <2>7 DEF SqlInsert
  <2>8. ASSUME NEW i \in Live(db), NEW p \in Ids \cup {Outside, None},
               NEW f \in Columns(db[i].table), SqlUpdate(i, f, p)
        PROVE  NullsAllowed(db)'
    BY <2>2, <2>8 DEF SqlUpdate
  <2> QED BY <2>3, <2>4, <2>5, <2>6, <2>7, <2>8 DEF Next
<1> QED BY <1>1, <1>2, PTL DEF Spec

\* Nothing goes with a row no row refers to.
LEMMA NothingFollows ==
    ASSUME NEW D, NEW r \in Live(D), Unreferenced(D, r), NEW S, NEW rule
    PROVE  /\ Children(S, D, {r}, rule) = {}
           /\ \A i, f : <<i, f>> \notin Nulled(S, D, {r})
           /\ Reach(S, D, {r}) = {r}
<1>1. Children(S, D, {r}, rule) = {}
  BY ChildIn DEF Unreferenced
<1>2. ASSUME NEW i, NEW f, <<i, f>> \in Nulled(S, D, {r}) PROVE FALSE
  <2>1. i \in Live(D) /\ f \in Columns(D[i].table) /\ D[i].ref[f] \in {r}
    BY <1>2, NulledIn
  <2> QED BY <2>1 DEF Unreferenced
<1>3. r \in Ids /\ Closed(S, D, {r})
  BY DEF Live, Closed, Unreferenced
<1>4. Reach(S, D, {r}) = {r}
  BY <1>3, ReachHolds, ReachLeast
<1> QED BY <1>1, <1>2, <1>4

\* What both paths leave of it: every other row as it was.
LEMMA OnlyItGoes ==
    ASSUME NEW D, Sound(D), NEW r \in Live(D), NEW N, \A i, f : <<i, f>> \notin N
    PROVE  /\ Live(Without(D, {r}, N)) = Live(D) \ {r}
           /\ \A i \in Live(D) \ {r} : Without(D, {r}, N)[i] = D[i]
<1> DEFINE E == Without(D, {r}, N)
<1>1. Live(E) = Live(D) \ {r}
  BY WithoutFacts
<1>2. ASSUME NEW i \in Live(D) \ {r} PROVE E[i] = D[i]
  <2>1. IsRow(D[i])
    BY LiveRows
  <2>2. /\ IsRow(E[i]) /\ E[i].table = D[i].table
        /\ \A f \in Columns(D[i].table) :
             E[i].ref[f] = IF <<i, f>> \in N THEN None ELSE D[i].ref[f]
    BY WithoutFacts
  <2> HIDE DEF E
  <2>3. /\ E[i] = [table |-> D[i].table, ref |-> E[i].ref]
        /\ D[i] = [table |-> D[i].table, ref |-> D[i].ref]
        /\ E[i].ref \in [Columns(D[i].table) -> Ids \cup {Outside, None}]
        /\ D[i].ref \in [Columns(D[i].table) -> Ids \cup {Outside, None}]
    BY <2>1, <2>2, RowFacts
  <2>4. \A f \in Columns(D[i].table) : E[i].ref[f] = D[i].ref[f]
    BY <2>2
  <2>5. E[i].ref = D[i].ref
    BY <2>3, <2>4
  <2> QED BY <2>3, <2>5
<1> QED BY <1>1, <1>2

\* The history tables have one constrained key, the user's: what they copy
\* has db_constraint=False.
OnlyUsersConstrained ==
    \A t \in Tracked : \A f \in Columns(t) \cup {"history_user"} :
        History[t][f] <=> f = "history_user"

\* The users of the records H are there.
Signed(D, H) ==
    \A h \in H : h.row.table \in Tracked /\ (h.by \in Ids => h.by \in Live(D))

\* Consistent names users who are there.
LEMMA ConsistentSigned ==
    ASSUME OnlyUsersConstrained, NEW D, NEW H, Consistent(D, H),
           \A h \in H : h.row.table \in Tracked
    PROVE  Signed(D, H)
<1> SUFFICES ASSUME NEW h \in H, h.by \in Ids PROVE h.by \in Live(D)
  BY DEF Signed
<1>1. "history_user" \in DOMAIN History[h.row.table] /\ History[h.row.table]["history_user"]
  BY SchemaAssumption DEF OnlyUsersConstrained
<1> QED BY <1>1 DEF Consistent, Mention

\* No trigger and no constraint stands in the way.
LEMMA UnreferencedCommits ==
    ASSUME OnlyUsersConstrained, NEW D, Sound(D), NullsAllowed(D),
           NEW r \in Live(D), Unreferenced(D, r),
           NEW E, Live(E) = Live(D) \ {r}, \A i \in Live(D) \ {r} : E[i] = D[i],
           NEW H, Signed(D, H), \A h \in H : h.by # r
    PROVE  Commits(D, E, H)
<1>1. ASSUME NEW c \in Live(D), D[c].table = "Cable"
      PROVE  /\ D[c].ref["uuid_node_start"] # r /\ D[c].ref["uuid_node_end"] # r
  BY <1>1, LiveRows, RowFacts, TriggerAssumption DEF Unreferenced
<1>2. ASSUME NEW k \in Nodes(D) PROVE D[k].ref["parent_node"] # r
  <2>1. k \in Live(D) /\ D[k].table = "Node"
    BY DEF Nodes
  <2> QED BY <2>1, LiveRows, RowFacts, TriggerAssumption DEF Unreferenced
<1>3. TriggersAllow(D, E)
  <2> SUFFICES ASSUME NEW n \in Nodes(D)
               PROVE  IF n \in Live(E)
                      THEN /\ D[n].ref["parent_node"] # E[n].ref["parent_node"] => ~Cabled(D, n)
                           /\ D[n].ref["node_type"] # E[n].ref["node_type"] =>
                                  ~(Cabled(D, n) /\ ChildNodes(D, n) # {})
                      ELSE ~Cabled(D, n) /\ \A k \in ChildNodes(D, n) : ~Cabled(D, k)
    BY DEF TriggersAllow
  <2>1. CASE n # r
    BY <2>1 DEF Nodes
  <2>2. CASE n = r
    BY <1>1, <1>2, <2>2 DEF Cabled, ChildNodes
  <2> QED BY <2>1, <2>2
<1>4. Consistent(E, H)
  <2>1. ASSUME NEW i \in Live(E), NEW f \in Columns(E[i].table), E[i].ref[f] \in Ids
        PROVE  E[i].ref[f] \in Live(E)
    BY <2>1 DEF Sound, Unreferenced
  <2>2. NullsAllowed(E)
    BY DEF NullsAllowed
  <2>3. ASSUME NEW h \in H, NEW f \in DOMAIN History[h.row.table],
               History[h.row.table][f], Mention(h, f) \in Ids
        PROVE  Mention(h, f) \in Live(E)
    <3>1. f = "history_user"
      BY <2>3, SchemaAssumption DEF Signed, OnlyUsersConstrained
    <3> QED BY <2>3, <3>1 DEF Signed, Mention
  <2> QED BY <2>1, <2>2, <2>3 DEF Consistent
<1> QED BY <1>3, <1>4 DEF Commits

\* A database that is left is not the outcome of a refusal.
LEMMA NotRefused ==
    ASSUME NEW D, Sound(D), NEW G, NEW N PROVE Without(D, G, N) # Refused
<1> DEFINE E == Without(D, G, N)
<1>1. \A i \in Ids : E[i] \in {Unborn, Gone} \/ IsRow(E[i])
  <2> SUFFICES ASSUME NEW i \in Ids PROVE E[i] \in {Unborn, Gone} \/ IsRow(E[i])
    OBVIOUS
  <2>1. CASE i \notin Live(D)
    BY <2>1, WithoutFacts DEF Live
  <2>2. CASE i \in Live(D)
    BY <2>2, WithoutFacts
  <2> QED BY <2>1, <2>2
<1>2. \A i \in Ids : E[i] \in {Unborn, Gone} \cup UNION {RowsOf(t) : t \in Tables}
  BY <1>1 DEF IsRow
<1>3. E = [i \in Ids |-> E[i]]
  BY DEF Without
<1> HIDE DEF E
<1>4. E \in [Ids -> {Unborn, Gone} \cup UNION {RowsOf(t) : t \in Tables}]
  BY <1>2, <1>3
<1> QED BY <1>4, ConstantsAssumption DEF E

\* The records are signed in every reachable database.
LEMMA AlwaysSigned == ASSUME OnlyUsersConstrained PROVE Spec => []Signed(db, log)
<1>1. Init => Signed(db, log)
  BY DEF Init, Signed
<1>2. Signed(db, log) /\ [Next]_vars => Signed(db, log)'
  <2> SUFFICES ASSUME Signed(db, log), [Next]_vars PROVE Signed(db, log)'
    OBVIOUS
  <2>1. ASSUME db' = db, log' = log PROVE Signed(db, log)'
    BY <2>1 DEF Signed, Live
  <2>2. ASSUME NEW q \in Requests, Execute(q) PROVE Signed(db, log)'
    <3> DEFINE E == ByCollector(db, DOMAIN job[q])
    <3>1. \/ db' = db /\ log' = log
          \/ db' = E /\ log' = Recorded(q) /\ Consistent(E, Recorded(q))
      BY <2>2 DEF Execute, Commits
    <3> HIDE DEF E
    <3>2. CASE db' = E /\ log' = Recorded(q) /\ Consistent(E, Recorded(q))
      <4>1. ASSUME NEW h \in Anonymous(log, DOMAIN job[q]) PROVE h.row.table \in Tracked
        <5>1. PICK k \in log : h.row = k.row
          BY DEF Anonymous
        <5> QED BY <5>1 DEF Signed
      <4>2. \A h \in Records(q) : h.row.table \in Tracked
        BY DEF Records
      <4>3. Signed(E, Recorded(q))
        BY <3>2, <4>1, <4>2, ConsistentSigned DEF Recorded
      <4> QED BY <3>2, <4>3 DEF Signed, Live
    <3> QED BY <2>1, <3>1, <3>2
  <2>3. CASE UNCHANGED vars
    BY <2>1, <2>3 DEF vars
  <2>4. ASSUME NEW q \in Requests,
               Die(q) \/ \E r \in Ids, u \in Users(db) \cup {Outside} : Collect(q, r, u)
        PROVE  Signed(db, log)'
    BY <2>1, <2>4 DEF Die, Collect
  <2>5. ASSUME NEW E, Write(E) PROVE Signed(db, log)'
    <3>1. db' = E /\ log' = log /\ Consistent(E, log)
      BY <2>5 DEF Write, Commits
    <3>2. Signed(E, log)
      BY <3>1, ConsistentSigned DEF Signed
    <3> QED BY <3>1, <3>2 DEF Signed, Live
  <2> QED BY <2>2, <2>3, <2>4, <2>5 DEF Next, SqlDelete, SqlInsert, SqlUpdate
<1> QED BY <1>1, <1>2, PTL DEF Spec

\* A row that no row refers to: the API deletes it, and the direct path does
\* exactly if no record names it as its user; in every schema whose history
\* tables constrain the user alone, and in every reachable database.
THEOREM UnreferencedAlwaysGoes == ASSUME OnlyUsersConstrained PROVE Spec => []UnreferencedGoes
<1>1. SoundInv /\ NullsAllowed(db) /\ Signed(db, log) => UnreferencedGoes
  <2> SUFFICES ASSUME SoundInv, NullsAllowed(db), Signed(db, log),
                      NEW r \in Live(db), Unreferenced(db, r)
               PROVE  /\ ApiOutcome(db, log, r) # Refused
                      /\ SqlOutcome(db, log, r) = Refused <=> \E h \in log : h.by = r
    BY DEF UnreferencedGoes
  <2> DEFINE N == Nulled(Database, db, {r})
             E == Without(db, {r}, N)
             M == Nulled(Model, db, {r}) \cup Nulled(Database, db, {r})
             F == Without(db, {r}, M)
             A == Anonymous(log, {r})
  <2>1. Sound(db) /\ r \in Ids
    BY DEF SoundInv, Live
  <2>2. /\ \A S, rule : Children(S, db, {r}, rule) = {}
        /\ \A S : Reach(S, db, {r}) = {r}
        /\ \A i, f : <<i, f>> \notin N
        /\ \A i, f : <<i, f>> \notin M
    BY NothingFollows
  <2>3. ByDatabase(db, {r}) = E
    BY <2>2 DEF ByDatabase
  <2>4. Collected(db, r) = {r} /\ Queried(db, {r}) = {}
    BY <2>2 DEF Collected, Queried
  <2>5. ByCollector(db, Collected(db, r)) = F
    BY <2>2, <2>4 DEF ByCollector
  <2>6. ~Protected(db, r)
    BY <2>2 DEF Protected
  <2> HIDE DEF N, M
  <2>7. /\ E # Refused /\ r \notin Live(E)
        /\ Commits(db, E, log) <=> ~\E h \in log : h.by = r
    <3>1. Live(E) = Live(db) \ {r} /\ \A i \in Live(db) \ {r} : E[i] = db[i]
      BY <2>1, <2>2, OnlyItGoes
    <3>2. E # Refused
      BY <2>1, NotRefused
    <3> HIDE DEF E
    <3>3. ASSUME \A h \in log : h.by # r PROVE Commits(db, E, log)
      BY <2>1, <3>1, <3>3, UnreferencedCommits
    <3>4. ASSUME NEW h \in log, h.by = r, Consistent(E, log) PROVE FALSE
      <4>1. Signed(E, log)
        BY <3>4, ConsistentSigned DEF Signed
      <4> QED BY <2>1, <3>1, <3>4, <4>1 DEF Signed
    <3> QED BY <3>1, <3>2, <3>3, <3>4 DEF Commits
  <2>8. Commits(db, F, A) /\ F # Refused
    <3>1. Live(F) = Live(db) \ {r} /\ \A i \in Live(db) \ {r} : F[i] = db[i]
      BY <2>1, <2>2, OnlyItGoes
    <3>2. F # Refused
      BY <2>1, NotRefused
    <3> HIDE DEF F
    <3>3. ASSUME NEW h \in A
          PROVE  /\ h.row.table \in Tracked /\ (h.by \in Ids => h.by \in Live(db))
                 /\ h.by # r
      <4>1. PICK k \in log :
              h = [id |-> k.id, row |-> k.row, by |-> IF k.by \in {r} THEN None ELSE k.by]
        BY DEF Anonymous
      <4>2. /\ h.row = k.row /\ k.row.table \in Tracked
            /\ h.by = None \/ (h.by = k.by /\ k.by # r)
            /\ k.by \in Ids => k.by \in Live(db)
        BY <4>1 DEF Signed
      <4> QED BY <2>1, <4>2, ConstantsAssumption
    <3>4. Signed(db, A)
      BY <3>3 DEF Signed
    <3> HIDE DEF A
    <3> QED BY <2>1, <3>1, <3>2, <3>3, <3>4, UnreferencedCommits
  <2> QED BY <2>3, <2>4, <2>5, <2>6, <2>7, <2>8 DEF SqlOutcome, ApiOutcome
<1> QED BY <1>1, AlwaysSigned, SoundAlways, NullsAlwaysAllowed, PTL
=============================================================================
