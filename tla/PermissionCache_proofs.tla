----------------------- MODULE PermissionCache_proofs -----------------------
(***************************************************************************)
(* Proofs about PermissionCache, for any number of users, groups, workers  *)
(* and levels and any timeouts: its type, how old a level may be that      *)
(* decides a request, and that the worker that made a change knows it.     *)
(***************************************************************************)
EXTENDS PermissionCache, WellFoundedInduction, TLAPS

(* There is a highest level of any groups, and it is a level. *)
LEMMA HighestType ==
    ASSUME NEW L \in [Groups -> Levels], NEW G \in SUBSET Groups
    PROVE  Highest(L, G) \in Levels
<1> DEFINE T == {l \in Levels : \A g \in G : L[g] <= l}
<1> DEFINE R == {p \in Nat \X Nat : p[1] < p[2]}
<1>1. IsWellFoundedOn(R, Nat)
    BY NatLessThanWellFounded DEF OpToRel
<1>2. T \subseteq Nat /\ Top \in T
    BY ConstantsAssumption DEF Levels
<1>3. PICK m \in T : \A l \in T : <<l, m>> \notin R
    <2> HIDE DEF R, T
    <2> QED BY <1>1, <1>2, WFMin
<1>4. \A l \in T : ~(l < m)
    BY <1>2, <1>3
<1>5. m = 0 \/ \E g \in G : L[g] = m
    <2>1. SUFFICES ASSUME m # 0, \A g \in G : L[g] # m PROVE FALSE
        OBVIOUS
    <2>2. m - 1 \in Levels /\ \A g \in G : L[g] <= m - 1
        BY <2>1, <1>3, ConstantsAssumption DEF Levels
    <2>3. m - 1 \in T /\ m - 1 < m
        BY <2>2, <1>3 DEF Levels
    <2> QED BY <2>3, <1>4
<1> QED BY <1>3, <1>5 DEF Highest

(* A user's level is a level. *)
LEMMA EffectiveType == ASSUME TypeOK, NEW u \in Users PROVE Effective(u) \in Levels
BY HighestType DEF TypeOK, Effective

(* A worker's request is a record. *)
LEMMA JobType ==
    ASSUME TypeOK, NEW w \in Workers, ~Idle(w) PROVE job[w] \in Request
BY DEF TypeOK, Idle

(* A change keeps the types. *)
LEMMA CommittedType ==
    ASSUME TypeOK, NEW L \in [Groups -> Levels], NEW M \in [Users -> SUBSET Groups],
           Committed(L, M)
    PROVE  /\ level' \in [Groups -> Levels] /\ member' \in [Users -> SUBSET Groups]
           /\ was' \in [Users -> [Levels -> Ages]] /\ changes' \in Nat
           /\ job' \in [Workers -> Request \cup {None}]
<1>1. \A u \in Users : Highest(L, M[u]) \in Levels
    BY HighestType
<1>2. 0 \in Ages
    BY ConstantsAssumption DEF Ages, Horizon
<1>3. was' \in [Users -> [Levels -> Ages]]
    BY <1>1, <1>2 DEF Committed, TypeOK
<1>4. ASSUME NEW w \in Workers, At(w, "levels") PROVE [job[w] EXCEPT !.mixed = TRUE] \in Request
    <2>1. job[w] \in Request
        BY <1>4, JobType DEF At
    <2> QED BY <2>1 DEF Request
<1>5. job' \in [Workers -> Request \cup {None}]
    BY <1>4 DEF Committed, TypeOK
<1> QED BY <1>3, <1>5 DEF Committed, TypeOK

(* A worker's change clears entries and nothing else. *)
LEMMA MadeByType ==
    ASSUME TypeOK, NEW w \in Workers, NEW U \in SUBSET Users, MadeBy(w, U)
    PROVE  /\ cache' \in [Workers -> [Users -> Entry \cup {None}]]
           /\ synced' \in [Workers -> SUBSET Users]
<1>1. Invalidated(cache[w], U) \in [Users -> Entry \cup {None}]
    BY DEF TypeOK, Invalidated
<1> QED BY <1>1 DEF MadeBy, TypeOK

(* An entry a tick later is an entry or none. *)
LEMMA AgedType ==
    ASSUME NEW e \in Entry \cup {None} PROVE Aged(e) \in Entry \cup {None}
BY ConstantsAssumption DEF Aged, Entry

(* Time keeps the types. *)
LEMMA TickType == ASSUME TypeOK, Tick PROVE TypeOK'
<1>1. cache' \in [Workers -> [Users -> Entry \cup {None}]]
    BY AgedType DEF Tick, TypeOK
<1>2. ASSUME NEW w \in Workers, ~Idle(w)
      PROVE  [job[w] EXCEPT !.age = job[w].age + 1] \in Request
    <2>1. job[w] \in Request /\ job[w].age < MaxRequest
        BY <1>2, JobType DEF Tick
    <2> QED BY <2>1, ConstantsAssumption DEF Request
<1>3. job' \in [Workers -> Request \cup {None}]
    BY <1>2 DEF Tick
<1>4. was' \in [Users -> [Levels -> Ages]]
    <2>1. \A a \in Ages : Older(a) \in Ages /\ 0 \in Ages
        BY ConstantsAssumption DEF Older, Ages, Horizon
    <2> QED BY <2>1 DEF Tick, TypeOK
<1> QED BY <1>1, <1>3, <1>4 DEF Tick, TypeOK

(* A request's step keeps the types. *)
LEMMA ServeType == ASSUME TypeOK, NEW w \in Workers, Serve(w) PROVE TypeOK'
<1>1. ASSUME NEW u \in Users, Begin(w, u) PROVE TypeOK'
    <2>1. [step |-> "groups", user |-> u, groups |-> {}, got |-> 0, mixed |-> FALSE, age |-> 0]
            \in Request
        BY ConstantsAssumption DEF Request, Levels
    <2> QED BY <1>1, <2>1 DEF Begin, TypeOK
<1>2. CASE ReadGroups(w)
    <2>1. job[w] \in Request
        BY <1>2, JobType DEF ReadGroups, At
    <2>2. [job[w] EXCEPT !.groups = member[job[w].user], !.step = "levels"] \in Request
        BY <2>1 DEF Request, TypeOK
    <2> QED BY <1>2, <2>2 DEF ReadGroups, TypeOK
<1>3. CASE ReadLevels(w)
    <2>1. job[w] \in Request
        BY <1>3, JobType DEF ReadLevels, At
    <2>2. Highest(level, job[w].groups) \in Levels
        BY <2>1, HighestType DEF Request, TypeOK
    <2>3. [job[w] EXCEPT !.got = Highest(level, job[w].groups), !.step = "store"] \in Request
        BY <2>1, <2>2 DEF Request
    <2> QED BY <1>3, <2>3 DEF ReadLevels, TypeOK
<1>4. CASE Store(w)
    <2>1. job[w] \in Request
        BY <1>4, JobType DEF Store, At
    <2>2. [level |-> job[w].got, age |-> 0, mixed |-> job[w].mixed] \in Entry
        BY <2>1, ConstantsAssumption DEF Request, Entry
    <2> DEFINE e == [level |-> job[w].got, age |-> 0, mixed |-> job[w].mixed]
    <2>3. /\ cache' = [cache EXCEPT ![w] = [cache[w] EXCEPT ![job[w].user] = e]]
          /\ job' = [job EXCEPT ![w] = None]
          /\ UNCHANGED <<level, member, was, synced, changes>>
        BY <1>4 DEF Store
    <2> HIDE DEF e
    <2>4. [cache[w] EXCEPT ![job[w].user] = e] \in [Users -> Entry \cup {None}]
        BY <2>2 DEF TypeOK, e
    <2> QED BY <2>3, <2>4 DEF TypeOK
<1>5. CASE Kill(w)
    BY <1>5 DEF Kill, TypeOK
<1> QED BY <1>1, <1>2, <1>3, <1>4, <1>5 DEF Serve

(* A change to the level of a group, or to the groups of a user, is typed. *)
LEMMA DeltaType ==
    ASSUME TypeOK
    PROVE  /\ \A g \in Groups, l \in Levels : [level EXCEPT ![g] = l] \in [Groups -> Levels]
           /\ \A u \in Users, G \in SUBSET Groups :
                  [member EXCEPT ![u] = G] \in [Users -> SUBSET Groups]
           /\ level \in [Groups -> Levels] /\ member \in [Users -> SUBSET Groups]
BY DEF TypeOK

(* A worker's change keeps the types. *)
LEMMA AdministerType == ASSUME TypeOK, NEW w \in Workers, Administer(w) PROVE TypeOK'
<1>1. PICK L \in [Groups -> Levels], M \in [Users -> SUBSET Groups], U \in SUBSET Users :
          Committed(L, M) /\ MadeBy(w, U)
    <2>1. CASE \E g \in Groups, l \in Levels : ChangeLevel(w, g, l)
        BY <2>1, DeltaType DEF ChangeLevel
    <2>2. CASE \E u \in Users, G \in SUBSET Groups : ChangeGroups(w, u, G)
        <3>1. PICK u \in Users, G \in SUBSET Groups : ChangeGroups(w, u, G)
            BY <2>2
        <3>2. {u} \in SUBSET Users
            OBVIOUS
        <3> QED BY <3>1, <3>2, DeltaType DEF ChangeGroups
    <2>3. CASE ChangeRoute(w)
        BY <2>3, DeltaType DEF ChangeRoute
    <2> QED BY <2>1, <2>2, <2>3 DEF Administer
<1> QED BY <1>1, CommittedType, MadeByType DEF TypeOK

(* A change made elsewhere keeps the types. *)
LEMMA ElsewhereType == ASSUME TypeOK, ChangeElsewhere PROVE TypeOK'
<1>1. PICK L \in [Groups -> Levels], M \in [Users -> SUBSET Groups] : Committed(L, M)
    BY DeltaType DEF ChangeElsewhere
<1>2. UNCHANGED cache /\ synced' = [v \in Workers |-> {}]
    BY DEF ChangeElsewhere
<1> QED BY <1>1, <1>2, CommittedType DEF TypeOK

(* A behaviour begins with the types. *)
LEMMA InitType == Init => TypeOK
<1> SUFFICES ASSUME Init PROVE TypeOK
    OBVIOUS
<1>1. 0 \in Ages /\ Horizon + 1 \in Ages
    BY ConstantsAssumption DEF Ages, Horizon
<1> QED BY <1>1 DEF Init, TypeOK

(* Every step keeps the types. *)
LEMMA NextType == TypeOK /\ [Next]_vars => TypeOK'
<1> SUFFICES ASSUME TypeOK, [Next]_vars PROVE TypeOK'
    OBVIOUS
<1>1. CASE UNCHANGED vars
    BY <1>1 DEF vars, TypeOK
<1> QED BY <1>1, ServeType, AdministerType, ElsewhereType, TickType DEF Next

(* The types of PermissionCache hold in every state. *)
THEOREM TypeCorrect == Spec => []TypeOK
BY InitType, NextType, PTL DEF Spec
-----------------------------------------------------------------------------
(* The level the user has now was the user's no time ago; a level loaded   *)
(* or cached was the user's when its load began.                           *)
RecentInv ==
    /\ TypeOK
    /\ \A u \in Users : was[u][Effective(u)] = 0
    /\ \A w \in Workers, u \in Users : cache[w][u] # None /\ ~cache[w][u].mixed =>
           was[u][cache[w][u].level] <= MaxRequest + cache[w][u].age
    /\ \A w \in Workers : ~Idle(w) /\ ~job[w].mixed =>
           /\ job[w].step = "levels" => job[w].groups = member[job[w].user]
           /\ job[w].step = "store" => was[job[w].user][job[w].got] <= job[w].age

(* A worker that made the latest change about a user loads its outcome.    *)
SyncInv ==
    /\ TypeOK /\ WriterIsInSync
    /\ \A w \in Workers : ~Idle(w) /\ job[w].user \in synced[w] =>
           /\ job[w].step = "levels" => job[w].groups = member[job[w].user]
           /\ job[w].step = "store" => job[w].got = Effective(job[w].user)

(* What a change does to the history and to the requests under way. *)
LEMMA CommittedFacts ==
    ASSUME TypeOK, NEW L \in [Groups -> Levels], NEW M \in [Users -> SUBSET Groups],
           Committed(L, M)
    PROVE  /\ \A u \in Users : Effective(u)' = Highest(L, M[u])
           /\ \A u \in Users : was'[u][Effective(u)'] = 0
           /\ \A u \in Users, l \in Levels : was'[u][l] <= was[u][l]
           /\ \A w \in Workers : job'[w] = job[w] \/
                 /\ ~Idle(w) /\ job'[w] = [job[w] EXCEPT !.mixed = TRUE]
                 /\ job[w] \in Request /\ job[w].step = "levels"
                 /\ M[job[w].user] # member[job[w].user]
           /\ \A w \in Workers : ~Idle(w) /\ job[w].step = "levels"
                 /\ M[job[w].user] # member[job[w].user] => job'[w].mixed
<1>1. \A u \in Users : Effective(u)' = Highest(L, M[u])
    BY DEF Committed, Effective
<1>2. \A u \in Users : Highest(L, M[u]) \in Levels
    BY HighestType
<1>3. \A u \in Users, l \in Levels : was[u][l] \in Nat
    BY ConstantsAssumption DEF TypeOK, Ages, Horizon
<1>4. \A u \in Users : was'[u] = [was[u] EXCEPT ![Highest(L, M[u])] = 0]
    BY DEF Committed
<1>5. \A u \in Users : was[u] \in [Levels -> Ages]
    BY DEF TypeOK
<1>6. \A u \in Users : was'[u][Highest(L, M[u])] = 0
    BY <1>2, <1>4, <1>5
<1>7. ASSUME NEW u \in Users, NEW l \in Levels PROVE was'[u][l] <= was[u][l]
    <2>1. CASE l = Highest(L, M[u])
        BY <1>3, <1>6, <2>1
    <2>2. CASE l # Highest(L, M[u])
        <3>1. was'[u][l] = was[u][l]
            BY <1>4, <1>5, <2>2
        <3> QED BY <1>3, <3>1
    <2> QED BY <2>1, <2>2
<1>8. ASSUME NEW w \in Workers
      PROVE  job'[w] = job[w] \/
                 /\ ~Idle(w) /\ job'[w] = [job[w] EXCEPT !.mixed = TRUE]
                 /\ job[w] \in Request /\ job[w].step = "levels"
                 /\ M[job[w].user] # member[job[w].user]
    BY JobType DEF Committed, At
<1>9. ASSUME NEW w \in Workers, ~Idle(w), job[w].step = "levels",
             M[job[w].user] # member[job[w].user]
      PROVE  job'[w].mixed
    <2>1. job'[w] = [job[w] EXCEPT !.mixed = TRUE]
        BY <1>9 DEF Committed, At
    <2>2. job[w] \in Request
        BY <1>9, JobType
    <2> QED BY <2>1, <2>2 DEF Request
<1> QED BY <1>1, <1>6, <1>7, <1>8, <1>9

(* A change by whomever is a commit that adds no entry to a cache. *)
LEMMA ChangeIsCommit ==
    ASSUME TypeOK, ChangeElsewhere \/ \E w \in Workers : Administer(w)
    PROVE  \E L \in [Groups -> Levels], M \in [Users -> SUBSET Groups] :
               /\ Committed(L, M)
               /\ \A v \in Workers, u \in Users : cache'[v][u] \in {cache[v][u], None}
<1>1. ASSUME NEW w \in Workers, NEW U \in SUBSET Users, MadeBy(w, U)
      PROVE  \A v \in Workers, u \in Users : cache'[v][u] \in {cache[v][u], None}
    BY <1>1 DEF MadeBy, Invalidated, TypeOK
<1>2. CASE ChangeElsewhere
    BY <1>2, DeltaType DEF ChangeElsewhere
<1>3. ASSUME NEW w \in Workers, Administer(w)
      PROVE  \E L \in [Groups -> Levels], M \in [Users -> SUBSET Groups] :
                 Committed(L, M) /\ \E U \in SUBSET Users : MadeBy(w, U)
    <2>1. CASE \E g \in Groups, l \in Levels : ChangeLevel(w, g, l)
        BY <2>1, DeltaType DEF ChangeLevel
    <2>2. CASE \E u \in Users, G \in SUBSET Groups : ChangeGroups(w, u, G)
        <3>1. PICK u \in Users, G \in SUBSET Groups : ChangeGroups(w, u, G)
            BY <2>2
        <3>2. {u} \in SUBSET Users
            OBVIOUS
        <3> QED BY <3>1, <3>2, DeltaType DEF ChangeGroups
    <2>3. CASE ChangeRoute(w)
        BY <2>3, DeltaType DEF ChangeRoute
    <2> QED BY <1>3, <2>1, <2>2, <2>3 DEF Administer
<1> QED BY <1>1, <1>2, <1>3

(* A change makes the levels held at most as old as before. *)
LEMMA ChangeKeepsRecent ==
    ASSUME RecentInv, ChangeElsewhere \/ \E w \in Workers : Administer(w), TypeOK'
    PROVE  RecentInv'
<1>0. TypeOK
    BY DEF RecentInv
<1>1. PICK L \in [Groups -> Levels], M \in [Users -> SUBSET Groups] :
          /\ Committed(L, M)
          /\ \A v \in Workers, u \in Users : cache'[v][u] \in {cache[v][u], None}
    BY <1>0, ChangeIsCommit
<1>2. /\ \A u \in Users : was'[u][Effective(u)'] = 0
      /\ \A u \in Users, l \in Levels : was'[u][l] <= was[u][l]
    BY <1>0, <1>1, CommittedFacts
<1>3. /\ \A u \in Users, l \in Levels : was[u][l] \in Nat /\ was'[u][l] \in Nat
      /\ MaxRequest \in Nat
    BY <1>0, ConstantsAssumption DEF TypeOK, Ages, Horizon
<1>4. ASSUME NEW w \in Workers, NEW u \in Users, cache'[w][u] # None, ~cache'[w][u].mixed
      PROVE  was'[u][cache'[w][u].level] <= MaxRequest + cache'[w][u].age
    <2>1. cache'[w][u] = cache[w][u]
        BY <1>1, <1>4
    <2>2. cache[w][u].level \in Levels /\ cache[w][u].age \in Nat
        BY <1>0, <1>4, <2>1, ConstantsAssumption DEF TypeOK, Entry
    <2>3. was[u][cache[w][u].level] <= MaxRequest + cache[w][u].age
        BY <1>4, <2>1 DEF RecentInv
    <2> QED BY <1>2, <1>3, <2>1, <2>2, <2>3
<1>5. ASSUME NEW w \in Workers, job'[w] # None, ~job'[w].mixed
      PROVE  /\ job'[w].step = "levels" => job'[w].groups = member'[job'[w].user]
             /\ job'[w].step = "store" => was'[job'[w].user][job'[w].got] <= job'[w].age
    <2>1. job'[w] = job[w]
        <3>1. CASE job'[w] # job[w]
            <4>1. job[w] \in Request /\ job'[w] = [job[w] EXCEPT !.mixed = TRUE]
                BY <1>0, <1>1, <3>1, CommittedFacts
            <4> QED BY <1>5, <4>1 DEF Request
        <3> QED BY <3>1
    <2>2. job[w] \in Request /\ ~Idle(w)
        BY <1>0, <1>5, <2>1, JobType DEF Idle
    <2>3. job[w].user \in Users /\ job[w].got \in Levels /\ job[w].age \in Nat
        BY <2>2, <1>3 DEF Request
    <2>4. job[w].step = "levels" => M[job[w].user] = member[job[w].user]
        BY <1>0, <1>1, <1>5, <2>1, <2>2, CommittedFacts
    <2>5. member' = M
        BY <1>1 DEF Committed
    <2>6. /\ job[w].step = "levels" => job[w].groups = member[job[w].user]
          /\ job[w].step = "store" => was[job[w].user][job[w].got] <= job[w].age
        BY <1>5, <2>1, <2>2 DEF RecentInv
    <2> QED BY <1>2, <1>3, <2>1, <2>3, <2>4, <2>5, <2>6
<1> QED BY <1>2, <1>4, <1>5 DEF RecentInv, Idle

(* Time ages the entries and requests with the levels they hold. *)
LEMMA TickKeepsRecent == ASSUME RecentInv, Tick, TypeOK' PROVE RecentInv'
<1>0. TypeOK
    BY DEF RecentInv
<1>1. \A u \in Users : Effective(u)' = Effective(u)
    BY DEF Tick, Effective
<1>2. \A u \in Users : Effective(u) \in Levels
    BY <1>0, EffectiveType
<1>3. \A u \in Users, l \in Levels :
          was'[u][l] = IF l = Effective(u) THEN 0 ELSE Older(was[u][l])
    BY DEF Tick
<1>4. /\ \A u \in Users, l \in Levels : was[u][l] \in Nat
      /\ MaxRequest \in Nat /\ Horizon \in Nat
    BY <1>0, ConstantsAssumption DEF TypeOK, Ages, Horizon
<1>5. \A u \in Users, l \in Levels : was'[u][l] <= was[u][l] + 1
    BY <1>3, <1>4 DEF Older
<1>05. \A u \in Users, l \in Levels : was'[u][l] \in Nat
    BY <1>3, <1>4 DEF Older
<1>6. \A u \in Users : was'[u][Effective(u)'] = 0
    BY <1>1, <1>2, <1>3
<1>7. ASSUME NEW w \in Workers, NEW u \in Users, cache'[w][u] # None, ~cache'[w][u].mixed
      PROVE  was'[u][cache'[w][u].level] <= MaxRequest + cache'[w][u].age
    <2>1. cache'[w][u] = Aged(cache[w][u])
        BY DEF Tick
    <2>2. cache[w][u] # None /\ cache'[w][u] = [cache[w][u] EXCEPT !.age = cache[w][u].age + 1]
        BY <1>7, <2>1 DEF Aged
    <2>3. cache[w][u] \in Entry
        BY <1>0, <2>2 DEF TypeOK
    <2>4. /\ cache'[w][u].level = cache[w][u].level /\ cache'[w][u].age = cache[w][u].age + 1
          /\ ~cache[w][u].mixed /\ cache[w][u].level \in Levels /\ cache[w][u].age \in Nat
        BY <1>7, <2>2, <2>3, ConstantsAssumption DEF Entry
    <2>5. was[u][cache[w][u].level] <= MaxRequest + cache[w][u].age
        BY <2>2, <2>4 DEF RecentInv
    <2> QED BY <1>4, <1>5, <1>05, <2>4, <2>5
<1>8. ASSUME NEW w \in Workers, job'[w] # None, ~job'[w].mixed
      PROVE  /\ job'[w].step = "levels" => job'[w].groups = member'[job'[w].user]
             /\ job'[w].step = "store" => was'[job'[w].user][job'[w].got] <= job'[w].age
    <2>1. ~Idle(w) /\ job'[w] = [job[w] EXCEPT !.age = job[w].age + 1]
        BY <1>8 DEF Tick
    <2>2. job[w] \in Request
        BY <1>0, <2>1, JobType
    <2>3. /\ job'[w].step = job[w].step /\ job'[w].groups = job[w].groups
          /\ job'[w].user = job[w].user /\ job'[w].got = job[w].got
          /\ job'[w].age = job[w].age + 1 /\ ~job[w].mixed
          /\ job[w].user \in Users /\ job[w].got \in Levels /\ job[w].age \in Nat
        BY <1>4, <1>8, <2>1, <2>2 DEF Request
    <2>4. member' = member
        BY DEF Tick
    <2>5. /\ job[w].step = "levels" => job[w].groups = member[job[w].user]
          /\ job[w].step = "store" => was[job[w].user][job[w].got] <= job[w].age
        BY <2>1, <2>3 DEF RecentInv
    <2> QED BY <1>4, <1>5, <1>05, <2>3, <2>4, <2>5
<1> QED BY <1>6, <1>7, <1>8 DEF RecentInv, Idle

(* A request hands on a level no older than itself. *)
LEMMA ServeKeepsRecent ==
    ASSUME RecentInv, NEW w \in Workers, Serve(w), TypeOK' PROVE RecentInv'
<1>0. TypeOK
    BY DEF RecentInv
<1>1. UNCHANGED <<level, member, was>>
    BY DEF Serve, Begin, ReadGroups, ReadLevels, Store, Kill
<1>2. \A u \in Users : was'[u][Effective(u)'] = 0
    BY <1>1 DEF RecentInv, Effective
<1>3. MaxRequest \in Nat
    BY ConstantsAssumption
<1> DEFINE CacheOf(v) == \A u \in Users : cache'[v][u] # None /\ ~cache'[v][u].mixed =>
                             was[u][cache'[v][u].level] <= MaxRequest + cache'[v][u].age
<1> DEFINE JobOf(v) == job'[v] # None /\ ~job'[v].mixed =>
               /\ job'[v].step = "levels" => job'[v].groups = member[job'[v].user]
               /\ job'[v].step = "store" => was[job'[v].user][job'[v].got] <= job'[v].age
<1>4. ASSUME NEW v \in Workers, cache'[v] = cache[v] PROVE CacheOf(v)
    BY <1>4 DEF RecentInv
<1>5. ASSUME NEW v \in Workers, job'[v] = job[v] PROVE JobOf(v)
    BY <1>5 DEF RecentInv, Idle
<1>6. \A v \in Workers : v # w => cache'[v] = cache[v] /\ job'[v] = job[v]
    BY <1>0 DEF Serve, Begin, ReadGroups, ReadLevels, Store, Kill, TypeOK
<1>7. CacheOf(w) /\ JobOf(w)
    <2>1. ASSUME NEW u \in Users, Begin(w, u) PROVE CacheOf(w) /\ JobOf(w)
        <3>1. job'[w] = [step |-> "groups", user |-> u, groups |-> {}, got |-> 0,
                         mixed |-> FALSE, age |-> 0] /\ cache'[w] = cache[w]
            BY <1>0, <2>1 DEF Begin, TypeOK
        <3> QED BY <3>1, <1>4
    <2>2. CASE ReadGroups(w)
        <3>1. job[w] \in Request
            BY <1>0, <2>2, JobType DEF ReadGroups, At
        <3>2. /\ job'[w] = [job[w] EXCEPT !.groups = member[job[w].user], !.step = "levels"]
              /\ cache'[w] = cache[w]
            BY <1>0, <2>2 DEF ReadGroups, TypeOK
        <3>3. /\ job'[w].step = "levels" /\ job'[w].groups = member[job'[w].user]
            BY <3>1, <3>2 DEF Request
        <3> QED BY <3>2, <3>3, <1>4
    <2>3. CASE ReadLevels(w)
        <3>1. job[w] \in Request /\ ~Idle(w) /\ job[w].step = "levels"
            BY <1>0, <2>3, JobType DEF ReadLevels, At
        <3>2. /\ job'[w] = [job[w] EXCEPT !.got = Highest(level, job[w].groups),
                                          !.step = "store"]
              /\ cache'[w] = cache[w]
            BY <1>0, <2>3 DEF ReadLevels, TypeOK
        <3>3. /\ job'[w].step = "store" /\ job'[w].user = job[w].user
              /\ job'[w].got = Highest(level, job[w].groups) /\ job'[w].age = job[w].age
              /\ job'[w].mixed = job[w].mixed /\ job[w].user \in Users /\ job[w].age \in Nat
            BY <1>3, <3>1, <3>2 DEF Request
        <3>4. ~job[w].mixed => Highest(level, job[w].groups) = Effective(job[w].user)
            BY <3>1 DEF RecentInv, Effective
        <3>5. was[job[w].user][Effective(job[w].user)] = 0
            BY <3>3 DEF RecentInv
        <3>6. JobOf(w)
            BY <3>3, <3>4, <3>5
        <3> QED BY <3>2, <3>6, <1>4
    <2>4. CASE Store(w)
        <3> DEFINE e == [level |-> job[w].got, age |-> 0, mixed |-> job[w].mixed]
        <3>1. job[w] \in Request /\ ~Idle(w) /\ job[w].step = "store"
            BY <1>0, <2>4, JobType DEF Store, At
        <3>2. job'[w] = None /\ cache'[w] = [cache[w] EXCEPT ![job[w].user] = e]
            BY <1>0, <2>4 DEF Store, TypeOK
        <3>3. /\ cache'[w][job[w].user] = e
              /\ \A u \in Users : u # job[w].user => cache'[w][u] = cache[w][u]
            <4> HIDE DEF e
            <4> QED BY <1>0, <3>1, <3>2 DEF TypeOK, Request
        <3>4. /\ job[w].user \in Users /\ job[w].age \in 0 .. MaxRequest
              /\ was[job[w].user][job[w].got] \in Nat
            BY <1>0, <3>1, ConstantsAssumption DEF Request, TypeOK, Ages, Horizon
        <3>5. ~job[w].mixed => was[job[w].user][job[w].got] <= job[w].age
            BY <3>1 DEF RecentInv
        <3>6. e.level = job[w].got /\ e.age = 0 /\ e.mixed = job[w].mixed
            OBVIOUS
        <3> HIDE DEF e
        <3>7. ASSUME NEW u \in Users, cache'[w][u] # None, ~cache'[w][u].mixed
              PROVE  was[u][cache'[w][u].level] <= MaxRequest + cache'[w][u].age
            <4>1. CASE u = job[w].user
                BY <1>3, <3>3, <3>4, <3>5, <3>6, <3>7, <4>1
            <4>2. CASE u # job[w].user
                BY <3>3, <3>7, <4>2 DEF RecentInv
            <4> QED BY <4>1, <4>2
        <3> QED BY <3>2, <3>7
    <2>5. CASE Kill(w)
        BY <1>0, <2>5 DEF Kill, TypeOK
    <2> QED BY <2>1, <2>2, <2>3, <2>4, <2>5 DEF Serve
<1>8. \A v \in Workers : CacheOf(v) /\ JobOf(v)
    BY <1>4, <1>5, <1>6, <1>7
<1> QED BY <1>1, <1>2, <1>8 DEF RecentInv, Idle

(* The level that decides a request was the user's no longer ago than an   *)
(* entry lives and a load takes (permissions.py, _get_access_level).       *)
THEOREM LevelsAreRecent == Spec => []DecisionsAreRecent
<1>1. Init => RecentInv
    <2> SUFFICES ASSUME Init PROVE RecentInv
        OBVIOUS
    <2>1. TypeOK
        BY InitType
    <2>2. \A u \in Users : was[u][Effective(u)] = 0
        BY <2>1, EffectiveType DEF Init
    <2> QED BY <2>1, <2>2 DEF Init, RecentInv, Idle
<1>2. RecentInv /\ [Next]_vars => RecentInv'
    <2> SUFFICES ASSUME RecentInv, [Next]_vars PROVE RecentInv'
        OBVIOUS
    <2>1. TypeOK'
        BY NextType DEF RecentInv
    <2>2. CASE UNCHANGED vars
        BY <2>1, <2>2 DEF vars, RecentInv, Effective, Idle
    <2> QED BY <2>1, <2>2, ServeKeepsRecent, ChangeKeepsRecent, TickKeepsRecent DEF Next
<1>3. RecentInv => DecisionsAreRecent
    <2> SUFFICES ASSUME RecentInv, NEW w \in Workers, NEW u \in Users,
                        cache[w][u] # None, ~cache[w][u].mixed
                 PROVE  was[u][cache[w][u].level] <= Horizon
        BY DEF DecisionsAreRecent
    <2>1. cache[w][u] \in Entry
        BY DEF RecentInv, TypeOK
    <2>2. /\ cache[w][u].age \in 0 .. Timeout - 1
          /\ was[u][cache[w][u].level] \in Nat
        BY <2>1, ConstantsAssumption DEF Entry, RecentInv, TypeOK, Ages, Horizon
    <2>3. was[u][cache[w][u].level] <= MaxRequest + cache[w][u].age
        BY DEF RecentInv
    <2> QED BY <2>2, <2>3, ConstantsAssumption DEF Horizon
<1> QED BY <1>1, <1>2, <1>3, PTL DEF Spec
-----------------------------------------------------------------------------
(* A change by a worker leaves alone the level of every user it is not     *)
(* about.                                                                  *)
LEMMA ChangeIsAbout ==
    ASSUME TypeOK, NEW v \in Workers, Administer(v)
    PROVE  \E L \in [Groups -> Levels], M \in [Users -> SUBSET Groups], U \in SUBSET Users :
               /\ Committed(L, M) /\ MadeBy(v, U)
               /\ \A u \in Users \ U : L = level /\ M[u] = member[u]
<1>1. CASE \E g \in Groups, l \in Levels : ChangeLevel(v, g, l)
    BY <1>1, DeltaType DEF ChangeLevel
<1>2. CASE \E u \in Users, G \in SUBSET Groups : ChangeGroups(v, u, G)
    <2>1. PICK u \in Users, G \in SUBSET Groups : ChangeGroups(v, u, G)
        BY <1>2
    <2> DEFINE M == [member EXCEPT ![u] = G]
    <2>2. M \in [Users -> SUBSET Groups] /\ level \in [Groups -> Levels]
        BY DeltaType
    <2>3. \A x \in Users \ {u} : M[x] = member[x]
        BY DEF TypeOK
    <2>4. Committed(level, M) /\ MadeBy(v, {u}) /\ {u} \in SUBSET Users
        BY <2>1 DEF ChangeGroups
    <2> HIDE DEF M
    <2> QED BY <2>2, <2>3, <2>4
<1>3. CASE ChangeRoute(v)
    BY <1>3, DeltaType DEF ChangeRoute
<1> QED BY <1>1, <1>2, <1>3 DEF Administer

(* A worker's change leaves it no entry that the change made wrong. *)
LEMMA AdministerKeepsSync ==
    ASSUME SyncInv, NEW v \in Workers, Administer(v), TypeOK' PROVE SyncInv'
<1>0. TypeOK
    BY DEF SyncInv
<1>1. PICK L \in [Groups -> Levels], M \in [Users -> SUBSET Groups], U \in SUBSET Users :
          /\ Committed(L, M) /\ MadeBy(v, U)
          /\ \A u \in Users \ U : L = level /\ M[u] = member[u]
    BY <1>0, ChangeIsAbout
<1>2. member' = M /\ \A u \in Users : Effective(u)' = Highest(L, M[u])
    BY <1>0, <1>1, CommittedFacts DEF Committed
<1>3. \A u \in Users \ U : Effective(u)' = Effective(u) /\ member'[u] = member[u]
    BY <1>1, <1>2 DEF Effective
<1>4. ASSUME NEW w \in Workers, NEW u \in U, u \in synced'[w]
      PROVE  cache'[w][u] = None /\ job'[w] = None
    <2>1. w = v
        BY <1>0, <1>1, <1>4 DEF MadeBy, TypeOK
    <2>2. cache'[v] = Invalidated(cache[v], U) /\ Idle(v)
        BY <1>0, <1>1 DEF MadeBy, TypeOK
    <2>3. cache'[v][u] = None
        BY <1>4, <2>2 DEF Invalidated
    <2>4. job'[v] = job[v]
        BY <1>1, <2>2 DEF Committed, At
    <2> QED BY <2>1, <2>2, <2>3, <2>4 DEF Idle
<1>5. ASSUME NEW w \in Workers, NEW u \in Users \ U, u \in synced'[w]
      PROVE  u \in synced[w] /\ cache'[w][u] = cache[w][u]
    BY <1>0, <1>1, <1>5 DEF MadeBy, TypeOK, Invalidated
<1>6. ASSUME NEW w \in Workers, NEW u \in synced'[w], cache'[w][u] # None
      PROVE  cache'[w][u].level = Effective(u)'
    <2>1. u \in Users \ U
        BY <1>4, <1>6 DEF TypeOK
    <2>2. u \in synced[w] /\ cache'[w][u] = cache[w][u]
        BY <1>5, <1>6, <2>1
    <2>3. cache[w][u].level = Effective(u)
        BY <1>6, <2>2 DEF SyncInv, WriterIsInSync
    <2> QED BY <1>3, <2>1, <2>2, <2>3
<1>7. ASSUME NEW w \in Workers, job'[w] # None, job'[w].user \in synced'[w]
      PROVE  /\ job'[w].step = "levels" => job'[w].groups = member'[job'[w].user]
             /\ job'[w].step = "store" => job'[w].got = Highest(level', member'[job'[w].user])
    <2>1. job'[w].user \in Users \ U
        BY <1>4, <1>7 DEF TypeOK
    <2>2. job'[w] = job[w]
        <3>1. CASE job'[w] # job[w]
            <4>1. job[w] \in Request /\ job'[w] = [job[w] EXCEPT !.mixed = TRUE]
                  /\ M[job[w].user] # member[job[w].user]
                BY <1>0, <1>1, <3>1, CommittedFacts
            <4>2. job'[w].user = job[w].user
                BY <4>1 DEF Request
            <4> QED BY <1>1, <2>1, <4>1, <4>2
        <3> QED BY <3>1
    <2>3. ~Idle(w) /\ job[w].user \in synced[w]
        BY <1>5, <1>7, <2>1, <2>2 DEF Idle
    <2>4. /\ job[w].step = "levels" => job[w].groups = member[job[w].user]
          /\ job[w].step = "store" => job[w].got = Effective(job[w].user)
        BY <2>3 DEF SyncInv
    <2>5. Highest(level', member'[job[w].user]) = Effective(job[w].user)
        BY <1>3, <2>1, <2>2 DEF Effective
    <2> QED BY <1>3, <2>1, <2>2, <2>4, <2>5
<1> QED BY <1>6, <1>7 DEF SyncInv, WriterIsInSync, Idle, Effective

(* After a change made elsewhere no worker counts as in sync. *)
LEMMA ElsewhereKeepsSync == ASSUME SyncInv, ChangeElsewhere, TypeOK' PROVE SyncInv'
<1>1. \A w \in Workers : synced'[w] = {}
    BY DEF ChangeElsewhere
<1> QED BY <1>1 DEF SyncInv, WriterIsInSync, Idle

(* Time changes no level. *)
LEMMA TickKeepsSync == ASSUME SyncInv, Tick, TypeOK' PROVE SyncInv'
<1>0. TypeOK /\ UNCHANGED <<level, member, synced>>
    BY DEF SyncInv, Tick
<1>1. \A u \in Users : Effective(u)' = Effective(u)
    BY <1>0 DEF Effective
<1>2. ASSUME NEW w \in Workers, NEW u \in synced'[w], cache'[w][u] # None
      PROVE  cache'[w][u].level = Effective(u)'
    <2>1. u \in Users /\ u \in synced[w]
        BY <1>0, <1>2 DEF TypeOK
    <2>2. cache'[w][u] = Aged(cache[w][u])
        BY <2>1 DEF Tick
    <2>3. cache[w][u] # None /\ cache'[w][u] = [cache[w][u] EXCEPT !.age = cache[w][u].age + 1]
        BY <1>2, <2>2 DEF Aged
    <2>4. cache[w][u] \in Entry
        BY <1>0, <2>1, <2>3 DEF TypeOK
    <2>5. cache'[w][u].level = cache[w][u].level
        BY <2>3, <2>4 DEF Entry
    <2>6. cache[w][u].level = Effective(u)
        BY <2>1, <2>3 DEF SyncInv, WriterIsInSync
    <2> QED BY <1>1, <2>1, <2>5, <2>6
<1>3. ASSUME NEW w \in Workers, job'[w] # None, job'[w].user \in synced'[w]
      PROVE  /\ job'[w].step = "levels" => job'[w].groups = member'[job'[w].user]
             /\ job'[w].step = "store" => job'[w].got = Highest(level', member'[job'[w].user])
    <2>1. ~Idle(w) /\ job'[w] = [job[w] EXCEPT !.age = job[w].age + 1]
        BY <1>3 DEF Tick
    <2>2. job[w] \in Request
        BY <1>0, <2>1, JobType
    <2>3. /\ job'[w].step = job[w].step /\ job'[w].groups = job[w].groups
          /\ job'[w].user = job[w].user /\ job'[w].got = job[w].got /\ job[w].user \in Users
        BY <2>1, <2>2 DEF Request
    <2>4. /\ job[w].step = "levels" => job[w].groups = member[job[w].user]
          /\ job[w].step = "store" => job[w].got = Effective(job[w].user)
        BY <1>0, <1>3, <2>1, <2>3 DEF SyncInv
    <2> QED BY <1>0, <2>3, <2>4 DEF Effective
<1> QED BY <1>2, <1>3 DEF SyncInv, WriterIsInSync, Idle, Effective

(* A worker in sync about a user loads the level as it is. *)
LEMMA ServeKeepsSync ==
    ASSUME SyncInv, NEW w \in Workers, Serve(w), TypeOK' PROVE SyncInv'
<1>0. TypeOK
    BY DEF SyncInv
<1>1. UNCHANGED <<level, member, synced>>
    BY DEF Serve, Begin, ReadGroups, ReadLevels, Store, Kill
<1>2. \A u : Effective(u)' = Effective(u)
    BY <1>1 DEF Effective
<1> DEFINE CacheOf(v) == \A u \in synced[v] :
               cache'[v][u] # None => cache'[v][u].level = Effective(u)
<1> DEFINE JobOf(v) == job'[v] # None /\ job'[v].user \in synced[v] =>
               /\ job'[v].step = "levels" => job'[v].groups = member[job'[v].user]
               /\ job'[v].step = "store" => job'[v].got = Effective(job'[v].user)
<1>4. ASSUME NEW v \in Workers, cache'[v] = cache[v] PROVE CacheOf(v)
    BY <1>4 DEF SyncInv, WriterIsInSync
<1>5. ASSUME NEW v \in Workers, job'[v] = job[v] PROVE JobOf(v)
    BY <1>5 DEF SyncInv, Idle
<1>6. \A v \in Workers : v # w => cache'[v] = cache[v] /\ job'[v] = job[v]
    BY <1>0 DEF Serve, Begin, ReadGroups, ReadLevels, Store, Kill, TypeOK
<1>7. CacheOf(w) /\ JobOf(w)
    <2>1. ASSUME NEW u \in Users, Begin(w, u) PROVE CacheOf(w) /\ JobOf(w)
        <3>1. job'[w] = [step |-> "groups", user |-> u, groups |-> {}, got |-> 0,
                         mixed |-> FALSE, age |-> 0] /\ cache'[w] = cache[w]
            BY <1>0, <2>1 DEF Begin, TypeOK
        <3> QED BY <3>1, <1>4
    <2>2. CASE ReadGroups(w)
        <3>1. job[w] \in Request
            BY <1>0, <2>2, JobType DEF ReadGroups, At
        <3>2. /\ job'[w] = [job[w] EXCEPT !.groups = member[job[w].user], !.step = "levels"]
              /\ cache'[w] = cache[w]
            BY <1>0, <2>2 DEF ReadGroups, TypeOK
        <3>3. job'[w].step = "levels" /\ job'[w].groups = member[job'[w].user]
            BY <3>1, <3>2 DEF Request
        <3> QED BY <3>2, <3>3, <1>4
    <2>3. CASE ReadLevels(w)
        <3>1. job[w] \in Request /\ ~Idle(w) /\ job[w].step = "levels"
            BY <1>0, <2>3, JobType DEF ReadLevels, At
        <3>2. /\ job'[w] = [job[w] EXCEPT !.got = Highest(level, job[w].groups),
                                          !.step = "store"]
              /\ cache'[w] = cache[w]
            BY <1>0, <2>3 DEF ReadLevels, TypeOK
        <3>3. /\ job'[w].step = "store" /\ job'[w].user = job[w].user
              /\ job'[w].got = Highest(level, job[w].groups)
            BY <3>1, <3>2 DEF Request
        <3>4. job[w].user \in synced[w] =>
                  Highest(level, job[w].groups) = Effective(job[w].user)
            BY <3>1 DEF SyncInv, Effective
        <3> QED BY <3>2, <3>3, <3>4, <1>4
    <2>4. CASE Store(w)
        <3> DEFINE e == [level |-> job[w].got, age |-> 0, mixed |-> job[w].mixed]
        <3>1. job[w] \in Request /\ ~Idle(w) /\ job[w].step = "store"
            BY <1>0, <2>4, JobType DEF Store, At
        <3>2. job'[w] = None /\ cache'[w] = [cache[w] EXCEPT ![job[w].user] = e]
            BY <1>0, <2>4 DEF Store, TypeOK
        <3>3. e.level = job[w].got
            OBVIOUS
        <3> HIDE DEF e
        <3>4. /\ cache'[w][job[w].user] = e
              /\ \A u \in Users : u # job[w].user => cache'[w][u] = cache[w][u]
            BY <1>0, <3>1, <3>2 DEF TypeOK, Request
        <3>5. job[w].user \in synced[w] => job[w].got = Effective(job[w].user)
            BY <3>1 DEF SyncInv
        <3>6. ASSUME NEW u \in synced[w], cache'[w][u] # None
              PROVE  cache'[w][u].level = Effective(u)
            <4>1. CASE u = job[w].user
                BY <3>3, <3>4, <3>5, <4>1
            <4>2. CASE u # job[w].user
                BY <1>0, <3>4, <3>6, <4>2 DEF SyncInv, WriterIsInSync, TypeOK
            <4> QED BY <4>1, <4>2
        <3> QED BY <3>2, <3>6
    <2>5. CASE Kill(w)
        <3>1. job'[w] = None /\ \A u \in synced[w] : cache'[w][u] = None
            BY <1>0, <2>5 DEF Kill, TypeOK
        <3> QED BY <3>1
    <2> QED BY <2>1, <2>2, <2>3, <2>4, <2>5 DEF Serve
<1>8. \A v \in Workers : CacheOf(v) /\ JobOf(v)
    BY <1>4, <1>5, <1>6, <1>7
<1> QED BY <1>1, <1>2, <1>8 DEF SyncInv, WriterIsInSync, Idle

(* A worker that made the latest change about a user decides by the user's *)
(* level: its handlers clear the entry and it serves no request between    *)
(* the change and the clearing (signals.py).                               *)
THEOREM WriterKnowsItsChange == Spec => []WriterIsInSync
<1>1. Init => SyncInv
    BY InitType DEF Init, SyncInv, WriterIsInSync, Idle
<1>2. SyncInv /\ [Next]_vars => SyncInv'
    <2> SUFFICES ASSUME SyncInv, [Next]_vars PROVE SyncInv'
        OBVIOUS
    <2>1. TypeOK'
        BY NextType DEF SyncInv
    <2>2. CASE UNCHANGED vars
        BY <2>1, <2>2 DEF vars, SyncInv, WriterIsInSync, Effective, Idle
    <2> QED BY <2>1, <2>2, ServeKeepsSync, AdministerKeepsSync, ElsewhereKeepsSync,
               TickKeepsSync DEF Next
<1>3. SyncInv => WriterIsInSync
    BY DEF SyncInv
<1> QED BY <1>1, <1>2, <1>3, PTL DEF Spec
=============================================================================
