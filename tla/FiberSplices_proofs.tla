------------------------ MODULE FiberSplices_proofs ------------------------
(* Theorems about FiberSplices, for every value of its constants.          *)
EXTENDS FiberSplices, WellFoundedInduction, TLAPS

(* Put writes v into the slots of K on side s and nothing else. *)
LEMMA PutEffect ==
    ASSUME NEW V, NEW column \in Column(V), NEW s \in Sides,
           NEW K, NEW v \in V \cup {None}
    PROVE  /\ Put(column, s, K, v) \in Column(V)
           /\ \A t \in Sides, k \in Slots :
                 Put(column, s, K, v)[t][k] =
                     IF t = s /\ k \in K THEN v ELSE column[t][k]
<1> DEFINE side == [k \in Slots |-> IF k \in K THEN v ELSE column[s][k]]
<1>1. side \in [Slots -> V \cup {None}]
  BY DEF Column
<1>2. Put(column, s, K, v) = [column EXCEPT ![s] = side]
  BY DEF Put, Column
<1> HIDE DEF side
<1>3. Put(column, s, K, v) \in Column(V)
  BY <1>1, <1>2 DEF Column
<1>4. ASSUME NEW t \in Sides, NEW k \in Slots
      PROVE  Put(column, s, K, v)[t][k] =
                 IF t = s /\ k \in K THEN v ELSE column[t][k]
  <2>1. Put(column, s, K, v)[t] = IF t = s THEN side ELSE column[t]
    BY <1>2 DEF Column
  <2>2. QED BY <2>1 DEF side
<1>5. QED BY <1>3, <1>4

(* Erase clears both sides of the slots of K and nothing else. *)
LEMMA EraseEffect ==
    ASSUME NEW V, NEW column \in Column(V), NEW K
    PROVE  /\ Erase(column, K) \in Column(V)
           /\ \A t \in Sides, k \in Slots :
                 Erase(column, K)[t][k] =
                     IF k \in K THEN None ELSE column[t][k]
BY DEF Erase, Column

(* A single cell write. *)
LEMMA CellEffect ==
    ASSUME NEW V, NEW column \in Column(V), NEW s \in Sides,
           NEW k \in Slots, NEW v \in V \cup {None}
    PROVE  /\ [column EXCEPT ![s][k] = v] \in Column(V)
           /\ \A t \in Sides, l \in Slots :
                 [column EXCEPT ![s][k] = v][t][l] =
                     IF t = s /\ l = k THEN v ELSE column[t][l]
BY DEF Column

(* The side of a group is a side. *)
LEMMA GroupSideType == ASSUME NEW g PROVE GroupSide(g) \in Sides
BY DEF GroupSide, Sides

(* Every non-empty set of natural numbers has a least element. *)
LEMMA LeastNumber ==
    ASSUME NEW T, T \subseteq Nat, T # {}
    PROVE  \E x \in T : \A y \in T : x <= y
<1> DEFINE R == {p \in Nat \X Nat : p[1] < p[2]}
<1>1. IsWellFoundedOn(R, Nat)
  BY NatLessThanWellFounded DEF OpToRel
<1>2. PICK x \in T : \A y \in T : ~ (<<y, x>> \in R)
  <2> HIDE DEF R
  <2>1. QED BY <1>1, WFMin
<1>3. ASSUME NEW y \in T PROVE x <= y
  <2>1. ~ (<<y, x>> \in R) BY <1>2
  <2>2. x \in Nat /\ y \in Nat OBVIOUS
  <2>3. ~ (y < x) BY <2>1, <2>2
  <2>4. QED BY <2>2, <2>3
<1>4. QED BY <1>3

(* The first row of a non-empty set of rows is one of them. *)
LEMMA FirstMember ==
    ASSUME NEW K \in SUBSET Slots, K # {}
    PROVE  First(K) \in K
<1> DEFINE N == {k[2] : k \in K}
<1>1. N \subseteq Nat /\ N # {}
  BY PortsAssumption DEF Slots
<1>2. PICK n \in N : \A m \in N : n <= m
  <2> HIDE DEF N
  <2>1. QED BY <1>1, LeastNumber
<1>3. \E k \in K : \A l \in K : k[2] <= l[2]
  BY <1>2
<1>4. QED BY <1>3 DEF First

-----------------------------------------------------------------------------
(* What unmerge_ports does, row by row: the rows of out, all of them rows   *)
(* of g, leave the group and drop the shared fiber.                         *)
LEMMA UnmergeEffect ==
    ASSUME TypeOK, NEW g \in Groups, NEW P, UnmergePorts(g, P)
    PROVE  /\ fiber' \in Column(Fibers)
           /\ mergeGroup' \in Column(Groups)
           /\ sharedFiber' \in Column(Fibers)
           /\ \E out \in SUBSET Members(GroupSide(g), g) :
                 /\ mergeGroup' = Put(mergeGroup, GroupSide(g), out, None)
                 /\ sharedFiber' = Put(sharedFiber, GroupSide(g), out, None)
                 /\ \A t \in Sides, k \in Slots :
                       \/ fiber'[t][k] = fiber[t][k]
                       \/ /\ t = GroupSide(g) /\ k \in out
                          /\ fiber'[t][k] # None
                          /\ \E l \in Members(t, g) :
                                fiber'[t][k] = sharedFiber[t][l]
<1> DEFINE s == GroupSide(g)
           G == Members(s, g)
           named == {k \in G : k[2] \in P}
           last == LastPort(G, named)
           shared == sharedFiber[s][First(G)]
           heir == Heir(named, shared)
           side == [k \in Slots |->
                        IF k \in heir THEN shared
                        ELSE IF k \in last /\ sharedFiber[s][k] # None
                             THEN sharedFiber[s][k] ELSE fiber[s][k]]
           out == named \cup last
<1>1. /\ s \in Sides /\ G \subseteq Slots /\ G # {}
      /\ First(G) \in G
  <2>1. s \in Sides /\ G \subseteq Slots
    BY GroupSideType DEF Members
  <2>2. G # {}
    BY DEF UnmergePorts
  <2>3. QED BY <2>1, <2>2, FirstMember
<1>2. named \subseteq G /\ last \subseteq G /\ out \subseteq G
  BY DEF LastPort
<1>3. heir \subseteq named
  <2>1. named # {} => First(named) \in named
    BY <1>1, <1>2, FirstMember
  <2>2. QED BY <2>1 DEF Heir
<1>4. /\ fiber' = [fiber EXCEPT ![s] = side]
      /\ mergeGroup' = Put(mergeGroup, s, out, None)
      /\ sharedFiber' = Put(sharedFiber, s, out, None)
  BY <1>1 DEF UnmergePorts, TypeOK, Column
<1>5. shared \in {sharedFiber[s][l] : l \in G} /\ shared \in Fibers \cup {None}
  BY <1>1 DEF TypeOK, Column
<1>6. ASSUME NEW k \in Slots
      PROVE  /\ side[k] \in Fibers \cup {None}
             /\ \/ side[k] = fiber[s][k]
                \/ k \in out /\ side[k] # None
                   /\ \E l \in G : side[k] = sharedFiber[s][l]
  <2>1. CASE k \in heir
    <3>1. side[k] = shared /\ shared # None BY <2>1 DEF Heir
    <3>2. k \in out BY <2>1, <1>3
    <3> HIDE DEF side, out, G, s
    <3>3. QED BY <3>1, <3>2, <1>5
  <2>2. CASE k \notin heir /\ k \in last /\ sharedFiber[s][k] # None
    <3>1. side[k] = sharedFiber[s][k] BY <2>2
    <3>2. k \in G /\ k \in out BY <2>2, <1>2
    <3>3. sharedFiber[s][k] \in Fibers \cup {None}
      BY <1>1 DEF TypeOK, Column
    <3> HIDE DEF heir, side, out, shared, named, last, G, s
    <3>4. QED BY <2>2, <3>1, <3>2, <3>3
  <2>3. CASE k \notin heir /\ ~ (k \in last /\ sharedFiber[s][k] # None)
    <3>1. side[k] = fiber[s][k] BY <2>3
    <3>2. fiber[s][k] \in Fibers \cup {None}
      BY <1>1 DEF TypeOK, Column
    <3> HIDE DEF heir, side, out, shared, named, last, G, s
    <3>3. QED BY <3>1, <3>2
  <2>4. QED BY <2>1, <2>2, <2>3
<1>7. mergeGroup' \in Column(Groups) /\ sharedFiber' \in Column(Fibers)
  <2> HIDE DEF s, out
  <2>1. QED BY <1>1, <1>4, PutEffect DEF TypeOK
<1>8. fiber' \in Column(Fibers)
  <2>1. side = [k \in Slots |-> side[k]] OBVIOUS
  <2> HIDE DEF s, side, heir, out, last, named, G
  <2>2. side \in [Slots -> Fibers \cup {None}] BY <1>6, <2>1
  <2>3. QED BY <1>1, <1>4, <2>2 DEF TypeOK, Column
<1>9. \A t \in Sides : fiber'[t] = IF t = s THEN side ELSE fiber[t]
  <2> HIDE DEF s, side
  <2>1. QED BY <1>1, <1>4 DEF TypeOK, Column
<1>10. ASSUME NEW t \in Sides, NEW k \in Slots
       PROVE  \/ fiber'[t][k] = fiber[t][k]
              \/ /\ t = s /\ k \in out /\ fiber'[t][k] # None
                 /\ \E l \in Members(t, g) : fiber'[t][k] = sharedFiber[t][l]
  <2>1. CASE t = s
    <3>1. G = Members(t, g) BY <2>1
    <3> HIDE DEF s, side, out, G
    <3>2. QED BY <1>6, <1>9, <2>1, <3>1
  <2>2. CASE t # s
    <3> HIDE DEF s, side, out
    <3>1. QED BY <1>9, <2>2
  <2>3. QED BY <2>1, <2>2
<1>11. QED
  <2>1. out \in SUBSET Members(s, g) BY <1>2
  <2> HIDE DEF out, side, last, heir, shared, named, G
  <2>2. QED BY <2>1, <1>4, <1>7, <1>8, <1>10

(* The rows of one structure are slots. *)
LEMMA StructureRows ==
    ASSUME TypeOK, NEW t \in structures
    PROVE  {t} \X Ports \subseteq Slots
BY DEF TypeOK, Slots

(* upsert_merged on the other side writes fibers of the list and no other.  *)
LEMMA DropType ==
    ASSUME TypeOK, NEW s \in Sides, NEW g \in Groups, NEW drop \in Drops,
           DropSequential(s, g, drop)
    PROVE  fiber' \in Column(Fibers)
<1>1. \A i \in DOMAIN drop : drop[i] \in Fibers
  BY DEF Drops
<1>2. QED
  BY <1>1 DEF DropSequential, TypeOK, Column

(* Removing rows keeps every column well typed. *)
LEMMA DropRowsType ==
    ASSUME TypeOK, NEW K, DropRows(K)
    PROVE  /\ present' \subseteq Slots
           /\ fiber' \in Column(Fibers) /\ mergeGroup' \in Column(Groups)
           /\ sharedFiber' \in Column(Fibers) /\ unit' \in Column(Units)
BY EraseEffect DEF DropRows, TypeOK

(* Every step keeps the types. *)
LEMMA TypeStep == TypeOK /\ [Next]_vars => TypeOK'
<1> SUFFICES ASSUME TypeOK, [Next]_vars PROVE TypeOK'
  OBVIOUS
<1>1. ASSUME NEW s \in Sides, NEW k \in Slots, NEW f \in Fibers,
             UpsertFiber(s, k, f)
      PROVE  TypeOK'
  <2>1. CASE UpsertOwn(s, k, f)
    BY <1>1, <2>1, CellEffect DEF UpsertFiber, UpsertOwn, TypeOK
  <2>2. CASE UpsertShared(s, k, f)
    BY <1>1, <2>2, PutEffect DEF UpsertFiber, UpsertShared, TypeOK
  <2>3. QED BY <1>1, <2>1, <2>2 DEF UpsertFiber
<1>2. ASSUME NEW s \in Sides, NEW k \in Slots, NEW f \in Fibers,
             BulkUpsertFiber(s, k, f)
      PROVE  TypeOK'
  BY <1>2, CellEffect DEF BulkUpsertFiber, TypeOK
<1>3. ASSUME NEW s \in Sides, NEW k \in Slots, NEW u \in Units,
             UpsertUnit(s, k, u) \/ BulkUpsertUnit(s, k, u)
      PROVE  TypeOK'
  BY <1>3, CellEffect DEF UpsertUnit, BulkUpsertUnit, TypeOK
<1>4. ASSUME NEW s \in Sides, NEW k \in Slots, ClearPort(s, k)
      PROVE  TypeOK'
  <2>1. CASE ClearShared(s, k)
    BY <1>4, <2>1, PutEffect DEF ClearPort, ClearShared, TypeOK
  <2>2. CASE ClearOwn(s, k)
    BY <1>4, <2>2, CellEffect DEF ClearPort, ClearOwn, TypeOK
  <2>3. QED BY <1>4, <2>1, <2>2 DEF ClearPort
<1>5. ASSUME NEW s \in Sides, NEW K \in SUBSET Slots, NEW g \in Groups,
             MergePorts(s, K, g)
      PROVE  TypeOK'
  <2>1. FibersOn(s, K) \subseteq Fibers
    BY DEF FibersOn, TypeOK, Column
  <2>2. mergeGroup' \in Column(Groups) /\ fiber' \in Column(Fibers)
    BY <1>5, PutEffect DEF MergePorts, TypeOK
  <2>3. sharedFiber' \in Column(Fibers)
    BY <1>5, <2>1, PutEffect DEF MergePorts, TypeOK
  <2>4. QED BY <1>5, <2>2, <2>3 DEF MergePorts, TypeOK
<1>6. ASSUME NEW g \in Groups, NEW P, UnmergePorts(g, P)
      PROVE  TypeOK'
  <2>1. UNCHANGED <<present, unit, structures, cables, units>>
    BY <1>6 DEF UnmergePorts
  <2>2. QED BY <1>6, <2>1, UnmergeEffect DEF TypeOK
<1>7. ASSUME NEW s \in Sides, NEW g \in Groups, NEW drop \in Drops,
             UpsertMerged(s, g, drop)
      PROVE  TypeOK'
  <2>1. CASE DropShared(g, drop)
    <3>1. drop[1] \in Fibers BY DEF Drops
    <3>2. QED
      BY <1>7, <2>1, <3>1, GroupSideType, PutEffect
         DEF UpsertMerged, DropShared, TypeOK
  <2>2. CASE DropSequential(s, g, drop)
    <3>1. fiber' \in Column(Fibers) BY <2>2, DropType
    <3>2. QED BY <1>7, <2>2, <3>1 DEF UpsertMerged, DropSequential, TypeOK
  <2>3. QED BY <1>7, <2>1, <2>2 DEF UpsertMerged
<1>8. ASSUME NEW k \in Slots, DestroySplice(k)
      PROVE  TypeOK'
  BY <1>8, DropRowsType DEF DestroySplice, TypeOK
<1>9. ASSUME NEW c \in Cables, DeleteCable(c)
      PROVE  TypeOK'
  BY <1>9, DropRowsType DEF DeleteCable, TypeOK
<1>10. ASSUME NEW t \in Structures, DeleteStructure(t)
       PROVE  TypeOK'
  BY <1>10, DropRowsType DEF DeleteStructure, TypeOK
<1>11. ASSUME NEW u \in Units, DeleteUnit(u)
       PROVE  TypeOK'
  BY <1>11 DEF DeleteUnit, TypeOK, Column
<1>12. CASE UNCHANGED vars
  BY <1>12 DEF vars, TypeOK
<1>13. QED
  BY <1>1, <1>2, <1>3, <1>4, <1>5, <1>6, <1>7, <1>8, <1>9, <1>10, <1>11,
     <1>12 DEF Next

(* Every column of the splice table keeps its type, whatever the requests,  *)
(* stale identifiers and cascades.                                          *)
THEOREM TypeCorrect == Spec => []TypeOK
<1>1. Init => TypeOK
  BY DEF Init, TypeOK, NoColumn, Column
<1>2. QED BY <1>1, TypeStep, PTL DEF Spec

-----------------------------------------------------------------------------
(* The rows written by a group-wide UPDATE are exactly those of one group   *)
(* on one side.                                                             *)
LEMMA SharedWrite ==
    ASSUME TypeOK, SharedOnlyWhenMerged, NEW s \in Sides, NEW g \in Groups,
           NEW v \in Fibers \cup {None},
           sharedFiber' = Put(sharedFiber, s, Members(s, g), v),
           mergeGroup' = mergeGroup
    PROVE  /\ SharedOnlyWhenMerged'
           /\ UniformGroups => UniformGroups'
<1>1. \A t \in Sides, k \in Slots :
         sharedFiber'[t][k] = IF t = s /\ k \in Members(s, g)
                              THEN v ELSE sharedFiber[t][k]
  BY PutEffect DEF TypeOK
<1>2. g # None
  BY NoneAssumption
<1>3. SharedOnlyWhenMerged'
  BY <1>1, <1>2 DEF SharedOnlyWhenMerged, Members
<1>4. ASSUME UniformGroups PROVE UniformGroups'
  BY <1>1, <1>4 DEF UniformGroups, Members
<1>5. QED BY <1>3, <1>4

(* Removing rows keeps what holds of every remaining row or pair of rows. *)
LEMMA DropRowsKeeps ==
    ASSUME TypeOK, NEW K, DropRows(K)
    PROVE  /\ SharedOnlyWhenMerged => SharedOnlyWhenMerged'
           /\ GroupsAreLocal => GroupsAreLocal'
           /\ UniformGroups => UniformGroups'
           /\ AbsentIsBlank => AbsentIsBlank'
<1>1. \A t \in Sides, k \in Slots :
         /\ fiber'[t][k] = IF k \in K THEN None ELSE fiber[t][k]
         /\ mergeGroup'[t][k] = IF k \in K THEN None ELSE mergeGroup[t][k]
         /\ sharedFiber'[t][k] = IF k \in K THEN None ELSE sharedFiber[t][k]
         /\ unit'[t][k] = IF k \in K THEN None ELSE unit[t][k]
         /\ k \in present' <=> k \in present /\ k \notin K
  BY EraseEffect DEF DropRows, TypeOK
<1>2. SharedOnlyWhenMerged => SharedOnlyWhenMerged'
  BY <1>1 DEF SharedOnlyWhenMerged
<1>3. GroupsAreLocal => GroupsAreLocal'
  BY <1>1 DEF GroupsAreLocal
<1>4. UniformGroups => UniformGroups'
  BY <1>1 DEF UniformGroups
<1>5. AbsentIsBlank => AbsentIsBlank'
  BY <1>1 DEF AbsentIsBlank
<1>6. QED BY <1>2, <1>3, <1>4, <1>5

(* The rows merge_ports puts into the new group g, column by column. *)
LEMMA MergeEffect ==
    ASSUME TypeOK, NEW s \in Sides, NEW K \in SUBSET Slots, NEW g \in Groups,
           MergePorts(s, K, g)
    PROVE  /\ \A t \in Sides, k \in Slots :
                 /\ mergeGroup'[t][k] =
                       IF t = s /\ k \in K THEN g ELSE mergeGroup[t][k]
                 /\ fiber'[t][k] =
                       IF t = s /\ k \in K THEN None ELSE fiber[t][k]
                 /\ mergeGroup[t][k] # g
           /\ \/ sharedFiber' = sharedFiber
              \/ \E f \in FibersOn(s, K) : \A t \in Sides, k \in Slots :
                    sharedFiber'[t][k] =
                       IF t = s /\ k \in K THEN f ELSE sharedFiber[t][k]
<1>1. FibersOn(s, K) \subseteq Fibers
  BY DEF FibersOn, TypeOK, Column
<1>2. \A t \in Sides, k \in Slots :
         /\ mergeGroup'[t][k] =
               IF t = s /\ k \in K THEN g ELSE mergeGroup[t][k]
         /\ fiber'[t][k] = IF t = s /\ k \in K THEN None ELSE fiber[t][k]
  BY PutEffect DEF MergePorts, TypeOK
<1>3. \A t \in Sides, k \in Slots : mergeGroup[t][k] # g
  BY DEF MergePorts, FreshGroup, Members
<1>4. \/ sharedFiber' = sharedFiber
      \/ \E f \in FibersOn(s, K) : sharedFiber' = Put(sharedFiber, s, K, f)
  BY DEF MergePorts
<1>5. ASSUME NEW f \in FibersOn(s, K), sharedFiber' = Put(sharedFiber, s, K, f)
      PROVE  \A t \in Sides, k \in Slots :
                sharedFiber'[t][k] =
                   IF t = s /\ k \in K THEN f ELSE sharedFiber[t][k]
  BY <1>1, <1>5, PutEffect DEF TypeOK
<1>6. QED BY <1>2, <1>3, <1>4, <1>5

-----------------------------------------------------------------------------
(* The merge structure of the table.  Uniformity of the shared fiber needs  *)
(* the requests of the port table: merge_ports itself does not ask that the *)
(* ports be free of other groups.                                           *)
MergeInv ==
    /\ TypeOK
    /\ SharedOnlyWhenMerged
    /\ GroupsAreLocal
    /\ PortTable => UniformGroups

(* Every step keeps the invariant of the merge groups. *)
LEMMA MergeInvStep == MergeInv /\ [Next]_vars => MergeInv'
<1> SUFFICES ASSUME MergeInv, [Next]_vars PROVE MergeInv'
  OBVIOUS
<1> USE DEF MergeInv
<1>1. TypeOK'
  BY TypeStep
<1>2. ASSUME mergeGroup' = mergeGroup, sharedFiber' = sharedFiber
      PROVE  MergeInv'
  BY <1>1, <1>2 DEF SharedOnlyWhenMerged, GroupsAreLocal, UniformGroups
<1>3. ASSUME NEW s \in Sides, NEW g \in Groups, NEW v \in Fibers \cup {None},
             sharedFiber' = Put(sharedFiber, s, Members(s, g), v),
             mergeGroup' = mergeGroup
      PROVE  MergeInv'
  <2>1. GroupsAreLocal' BY <1>3 DEF GroupsAreLocal
  <2>2. QED BY <1>1, <1>3, <2>1, SharedWrite
<1>4. ASSUME NEW K, DropRows(K) PROVE MergeInv'
  BY <1>1, <1>4, DropRowsKeeps
<1>5. \A s \in Sides, k \in Slots :
         mergeGroup[s][k] # None => mergeGroup[s][k] \in Groups
  BY DEF TypeOK, Column
<1>6. ASSUME NEW s \in Sides, NEW k \in Slots, NEW f \in Fibers,
             UpsertFiber(s, k, f)
      PROVE  MergeInv'
  <2>1. mergeGroup' = mergeGroup BY <1>6 DEF UpsertFiber
  <2>2. CASE UpsertOwn(s, k, f)
    BY <1>2, <2>1, <2>2 DEF UpsertOwn
  <2>3. CASE UpsertShared(s, k, f)
    BY <1>2, <1>3, <1>5, <2>1, <2>3 DEF UpsertShared
  <2>4. QED BY <1>6, <2>2, <2>3 DEF UpsertFiber
<1>7. ASSUME NEW s \in Sides, NEW k \in Slots, ClearPort(s, k)
      PROVE  MergeInv'
  <2>1. mergeGroup' = mergeGroup BY <1>7 DEF ClearPort
  <2>2. CASE ClearShared(s, k)
    BY <1>3, <1>5, <2>1, <2>2 DEF ClearShared
  <2>3. CASE ClearOwn(s, k)
    BY <1>2, <2>1, <2>3 DEF ClearOwn
  <2>4. QED BY <1>7, <2>2, <2>3 DEF ClearPort
<1>8. ASSUME NEW s \in Sides, NEW K \in SUBSET Slots, NEW g \in Groups,
             MergePorts(s, K, g)
      PROVE  MergeInv'
  <2>1. \A t \in Sides, k \in Slots :
           /\ mergeGroup'[t][k] =
                 IF t = s /\ k \in K THEN g ELSE mergeGroup[t][k]
           /\ mergeGroup[t][k] # g
    BY <1>8, MergeEffect
  <2>2. \/ sharedFiber' = sharedFiber
        \/ \E f \in Fibers : \A t \in Sides, k \in Slots :
              sharedFiber'[t][k] =
                 IF t = s /\ k \in K THEN f ELSE sharedFiber[t][k]
    <3>1. FibersOn(s, K) \subseteq Fibers BY DEF FibersOn, TypeOK, Column
    <3>2. QED BY <1>8, <3>1, MergeEffect
  <2>3. g # None BY NoneAssumption
  <2>4. SharedOnlyWhenMerged'
    BY <2>1, <2>2, <2>3 DEF SharedOnlyWhenMerged
  <2>5. \E t \in Structures : \A k \in K : k[1] = t
    BY <1>8 DEF MergePorts, TypeOK
  <2>6. GroupsAreLocal'
    BY <2>1, <2>3, <2>5 DEF GroupsAreLocal
  <2>7. ASSUME PortTable PROVE UniformGroups'
    <3>1. \A k \in K : sharedFiber[s][k] = None
      BY <1>8, <2>7 DEF MergePorts, Mergeable, SharedOnlyWhenMerged
    <3>2. QED BY <2>1, <2>2, <2>7, <3>1 DEF UniformGroups
  <2>8. QED BY <1>1, <2>4, <2>6, <2>7
<1>9. ASSUME NEW g \in Groups, NEW P, UnmergePorts(g, P)
      PROVE  MergeInv'
  <2>1. PICK out \in SUBSET Members(GroupSide(g), g) :
           /\ mergeGroup' = Put(mergeGroup, GroupSide(g), out, None)
           /\ sharedFiber' = Put(sharedFiber, GroupSide(g), out, None)
    BY <1>9, UnmergeEffect
  <2>2. \A t \in Sides, k \in Slots :
           LET gone == t = GroupSide(g) /\ k \in out
           IN  /\ mergeGroup'[t][k] = IF gone THEN None ELSE mergeGroup[t][k]
               /\ sharedFiber'[t][k] = IF gone THEN None ELSE sharedFiber[t][k]
    BY <2>1, GroupSideType, PutEffect DEF TypeOK
  <2>3. SharedOnlyWhenMerged' BY <2>2 DEF SharedOnlyWhenMerged
  <2>4. GroupsAreLocal' BY <2>2 DEF GroupsAreLocal
  <2>5. UniformGroups => UniformGroups' BY <2>2 DEF UniformGroups
  <2>6. QED BY <1>1, <2>3, <2>4, <2>5
<1>10. ASSUME NEW s \in Sides, NEW g \in Groups, NEW drop \in Drops,
              UpsertMerged(s, g, drop)
       PROVE  MergeInv'
  <2>1. mergeGroup' = mergeGroup BY <1>10 DEF UpsertMerged
  <2>2. CASE DropShared(g, drop)
    <3>1. drop[1] \in Fibers BY DEF Drops
    <3>2. QED BY <1>3, <2>1, <2>2, <3>1, GroupSideType DEF DropShared
  <2>3. CASE DropSequential(s, g, drop)
    BY <1>2, <2>1, <2>3 DEF DropSequential
  <2>4. QED BY <1>10, <2>2, <2>3 DEF UpsertMerged
<1>11. ASSUME \/ \E k \in Slots : DestroySplice(k)
              \/ \E c \in Cables : DeleteCable(c)
              \/ \E t \in Structures : DeleteStructure(t)
       PROVE  MergeInv'
  BY <1>4, <1>11 DEF DestroySplice, DeleteCable, DeleteStructure
<1>12. ASSUME \/ \E s \in Sides, k \in Slots, f \in Fibers :
                     BulkUpsertFiber(s, k, f)
              \/ \E s \in Sides, k \in Slots, u \in Units :
                     UpsertUnit(s, k, u) \/ BulkUpsertUnit(s, k, u)
              \/ \E u \in Units : DeleteUnit(u)
       PROVE  MergeInv'
  BY <1>2, <1>12
     DEF BulkUpsertFiber, UpsertUnit, BulkUpsertUnit, DeleteUnit
<1>13. CASE UNCHANGED vars
  BY <1>2, <1>13 DEF vars
<1>14. QED
  BY <1>6, <1>7, <1>8, <1>9, <1>10, <1>11, <1>12, <1>13 DEF Next

(* The invariant of the merge groups holds always. *)
LEMMA MergeInvariant == Spec => []MergeInv
<1>1. Init => MergeInv
  BY DEF Init, MergeInv, TypeOK, NoColumn, Column, SharedOnlyWhenMerged,
         GroupsAreLocal, UniformGroups
<1>2. QED BY <1>1, MergeInvStep, PTL DEF Spec

(* A shared fiber never outlives its group. *)
THEOREM SharedFiberNeedsGroup == Spec => []SharedOnlyWhenMerged
BY MergeInvariant, PTL DEF MergeInv

(* A merge group stays on one side of one structure. *)
THEOREM GroupsStayLocal == Spec => []GroupsAreLocal
BY MergeInvariant, PTL DEF MergeInv

(* Under the requests the port table offers, all ports of a group share the *)
(* same fiber.                                                              *)
THEOREM GroupsShareOneFiber == ASSUME PortTable PROVE Spec => []UniformGroups
<1>1. MergeInv => UniformGroups
  BY DEF MergeInv
<1>2. QED BY <1>1, MergeInvariant, PTL

-----------------------------------------------------------------------------
(* The rows and what they refer to: a slot without a row carries nothing,   *)
(* and a row refers only to what still exists.                              *)
RowInv ==
    /\ TypeOK
    /\ AbsentIsBlank
    /\ NoDanglingReference

(* A group-wide UPDATE writes present rows only. *)
LEMMA SharedWriteRows ==
    ASSUME RowInv, NEW s \in Sides, NEW g \in Groups,
           NEW v \in Fibers \cup {None}, v # None => Live(v),
           sharedFiber' = Put(sharedFiber, s, Members(s, g), v),
           present \subseteq present',
           \A k \in present' \ present : k[1] \in structures,
           UNCHANGED <<fiber, mergeGroup, unit, structures, cables, units>>
    PROVE  AbsentIsBlank' /\ NoDanglingReference'
<1> USE DEF RowInv
<1>1. \A t \in Sides, k \in Slots :
         sharedFiber'[t][k] = IF t = s /\ k \in Members(s, g)
                              THEN v ELSE sharedFiber[t][k]
  BY PutEffect DEF TypeOK
<1>2. Members(s, g) \subseteq present
  BY NoneAssumption DEF Members, AbsentIsBlank
<1>3. AbsentIsBlank'
  BY <1>1, <1>2 DEF AbsentIsBlank
<1>4. NoDanglingReference'
  BY <1>1 DEF NoDanglingReference, Live
<1>5. QED BY <1>3, <1>4

(* A write of one fiber cell of a row that exists afterwards. *)
LEMMA FiberCellWrite ==
    ASSUME RowInv, NEW s \in Sides, NEW k \in Slots, NEW f \in Fibers,
           k[1] \in structures, present' = present \cup {k},
           fiber' = IF Live(f) THEN [fiber EXCEPT ![s][k] = f] ELSE fiber,
           UNCHANGED <<mergeGroup, sharedFiber, unit,
                       structures, cables, units>>
    PROVE  AbsentIsBlank' /\ NoDanglingReference'
<1> USE DEF RowInv
<1>1. \A t \in Sides, l \in Slots :
         fiber'[t][l] = IF Live(f) /\ t = s /\ l = k THEN f ELSE fiber[t][l]
  BY CellEffect DEF TypeOK
<1>2. AbsentIsBlank' BY <1>1 DEF AbsentIsBlank
<1>3. NoDanglingReference' BY <1>1 DEF NoDanglingReference, Live
<1>4. QED BY <1>2, <1>3

(* Writing a unit that exists keeps the rows' references live. *)
LEMMA UnitCellWrite ==
    ASSUME RowInv, NEW s \in Sides, NEW k \in Slots, NEW u \in Units,
           k[1] \in structures, present' = present \cup {k},
           unit' = IF u \in units THEN [unit EXCEPT ![s][k] = u] ELSE unit,
           UNCHANGED <<fiber, mergeGroup, sharedFiber,
                       structures, cables, units>>
    PROVE  AbsentIsBlank' /\ NoDanglingReference'
<1> USE DEF RowInv
<1>1. \A t \in Sides, l \in Slots :
         unit'[t][l] = IF u \in units /\ t = s /\ l = k THEN u ELSE unit[t][l]
  BY CellEffect DEF TypeOK
<1>2. AbsentIsBlank' BY <1>1 DEF AbsentIsBlank
<1>3. NoDanglingReference' BY <1>1 DEF NoDanglingReference, Live
<1>4. QED BY <1>2, <1>3

(* Removing rows K keeps RowInv when no other row refers to what is gone. *)
LEMMA DropRowsRows ==
    ASSUME RowInv, NEW K, DropRows(K), units' = units,
           cables' \subseteq cables, structures' \subseteq structures,
           \A k \in present \ K : k[1] \in structures',
           \A t \in Sides, k \in Slots \ K :
              \A f \in {fiber[t][k], sharedFiber[t][k]} \ {None} :
                 Live(f) => CableOf[f] \in cables'
    PROVE  AbsentIsBlank' /\ NoDanglingReference'
<1> USE DEF RowInv
<1>1. \A t \in Sides, k \in Slots :
         /\ fiber'[t][k] = IF k \in K THEN None ELSE fiber[t][k]
         /\ sharedFiber'[t][k] = IF k \in K THEN None ELSE sharedFiber[t][k]
         /\ unit'[t][k] = IF k \in K THEN None ELSE unit[t][k]
  BY EraseEffect DEF DropRows, TypeOK
<1>2. present' = present \ K
  BY DEF DropRows
<1>3. AbsentIsBlank'
  BY DropRowsKeeps
<1>4. NoDanglingReference'
  BY <1>1, <1>2 DEF NoDanglingReference, Live
<1>5. QED BY <1>3, <1>4

(* Every step keeps the invariant of the rows. *)
LEMMA RowInvStep == RowInv /\ [Next]_vars => RowInv'
<1> SUFFICES ASSUME RowInv, [Next]_vars PROVE AbsentIsBlank' /\ NoDanglingReference'
  BY TypeStep DEF RowInv
<1>1. TypeOK /\ AbsentIsBlank /\ NoDanglingReference
  BY DEF RowInv
<1>2. \A s \in Sides, k \in Slots :
         mergeGroup[s][k] # None => mergeGroup[s][k] \in Groups
  BY <1>1 DEF TypeOK, Column
<1>3. ASSUME NEW s \in Sides, NEW k \in Slots, NEW f \in Fibers,
             UpsertFiber(s, k, f)
      PROVE  AbsentIsBlank' /\ NoDanglingReference'
  <2>1. CASE UpsertOwn(s, k, f)
    BY <1>3, <2>1, FiberCellWrite DEF UpsertFiber, UpsertOwn
  <2>2. CASE UpsertShared(s, k, f) /\ Live(f)
    <3>1. mergeGroup[s][k] \in Groups BY <1>2, <2>2 DEF UpsertShared
    <3>2. /\ present \subseteq present'
          /\ \A l \in present' \ present : l[1] \in structures
      BY <1>3 DEF UpsertFiber
    <3>3. QED
      BY <1>3, <2>2, <3>1, <3>2, SharedWriteRows DEF UpsertFiber, UpsertShared
  <2>3. CASE UpsertShared(s, k, f) /\ ~ Live(f)
    BY <1>1, <1>3, <2>3
       DEF UpsertFiber, UpsertShared, AbsentIsBlank, NoDanglingReference, Live
  <2>4. QED BY <1>3, <2>1, <2>2, <2>3 DEF UpsertFiber
<1>4. ASSUME NEW s \in Sides, NEW k \in Slots, NEW f \in Fibers,
             BulkUpsertFiber(s, k, f)
      PROVE  AbsentIsBlank' /\ NoDanglingReference'
  BY <1>4, FiberCellWrite DEF BulkUpsertFiber
<1>5. ASSUME NEW s \in Sides, NEW k \in Slots, NEW u \in Units,
             UpsertUnit(s, k, u) \/ BulkUpsertUnit(s, k, u)
      PROVE  AbsentIsBlank' /\ NoDanglingReference'
  BY <1>5, UnitCellWrite DEF UpsertUnit, BulkUpsertUnit
<1>6. ASSUME NEW s \in Sides, NEW k \in Slots, ClearPort(s, k)
      PROVE  AbsentIsBlank' /\ NoDanglingReference'
  <2>1. CASE ClearShared(s, k)
    <3>1. mergeGroup[s][k] \in Groups BY <1>2, <2>1 DEF ClearShared
    <3>2. QED BY <1>6, <2>1, <3>1, SharedWriteRows DEF ClearPort, ClearShared
  <2>2. CASE ClearOwn(s, k)
    <3>1. \A t \in Sides, l \in Slots :
             /\ fiber'[t][l] = IF t = s /\ l = k THEN None ELSE fiber[t][l]
             /\ unit'[t][l] = IF t = s /\ l = k THEN None ELSE unit[t][l]
      BY <1>1, <2>2, CellEffect DEF ClearOwn, TypeOK
    <3>2. AbsentIsBlank'
      BY <1>1, <1>6, <2>2, <3>1
         DEF ClearPort, ClearOwn, EmptyAfterClear, AbsentIsBlank
    <3>3. NoDanglingReference'
      BY <1>1, <1>6, <2>2, <3>1
         DEF ClearPort, ClearOwn, NoDanglingReference, Live
    <3>4. QED BY <3>2, <3>3
  <2>3. QED BY <1>6, <2>1, <2>2 DEF ClearPort
<1>7. ASSUME NEW s \in Sides, NEW K \in SUBSET Slots, NEW g \in Groups,
             MergePorts(s, K, g)
      PROVE  AbsentIsBlank' /\ NoDanglingReference'
  <2>1. \A t \in Sides, k \in Slots :
           /\ mergeGroup'[t][k] =
                 IF t = s /\ k \in K THEN g ELSE mergeGroup[t][k]
           /\ fiber'[t][k] = IF t = s /\ k \in K THEN None ELSE fiber[t][k]
    BY <1>1, <1>7, MergeEffect
  <2>2. \A f \in FibersOn(s, K) : Live(f)
    BY <1>1 DEF FibersOn, NoDanglingReference
  <2>3. \/ sharedFiber' = sharedFiber
        \/ \E f \in FibersOn(s, K) : \A t \in Sides, k \in Slots :
              sharedFiber'[t][k] =
                 IF t = s /\ k \in K THEN f ELSE sharedFiber[t][k]
    BY <1>1, <1>7, MergeEffect
  <2>4. /\ present' = present \cup K
        /\ \A k \in K : k[1] \in structures
        /\ UNCHANGED <<unit, structures, cables, units>>
    BY <1>7 DEF MergePorts
  <2>5. AbsentIsBlank'
    BY <1>1, <2>1, <2>3, <2>4 DEF AbsentIsBlank
  <2>6. NoDanglingReference'
    BY <1>1, <2>1, <2>2, <2>3, <2>4 DEF NoDanglingReference, Live
  <2>7. QED BY <2>5, <2>6
<1>8. ASSUME NEW g \in Groups, NEW P, UnmergePorts(g, P)
      PROVE  AbsentIsBlank' /\ NoDanglingReference'
  <2> DEFINE s == GroupSide(g)
  <2>1. PICK out \in SUBSET Members(s, g) :
           /\ mergeGroup' = Put(mergeGroup, s, out, None)
           /\ sharedFiber' = Put(sharedFiber, s, out, None)
           /\ \A t \in Sides, k \in Slots :
                 \/ fiber'[t][k] = fiber[t][k]
                 \/ /\ t = s /\ k \in out
                    /\ fiber'[t][k] # None
                    /\ \E l \in Members(t, g) :
                          fiber'[t][k] = sharedFiber[t][l]
    BY <1>1, <1>8, UnmergeEffect
  <2>2. UNCHANGED <<present, unit, structures, cables, units>>
    BY <1>8 DEF UnmergePorts
  <2>3. s \in Sides BY GroupSideType
  <2> HIDE DEF s
  <2>4. \A t \in Sides, k \in Slots :
           /\ mergeGroup'[t][k] \in {mergeGroup[t][k], None}
           /\ sharedFiber'[t][k] \in {sharedFiber[t][k], None}
    BY <1>1, <2>1, <2>3, PutEffect DEF TypeOK
  <2>5. Members(s, g) \subseteq present
    BY <1>1, <2>3, NoneAssumption DEF Members, AbsentIsBlank
  <2>6. AbsentIsBlank'
    BY <1>1, <2>1, <2>2, <2>4, <2>5 DEF AbsentIsBlank
  <2>7. NoDanglingReference'
    BY <1>1, <2>1, <2>2, <2>4 DEF NoDanglingReference, Live, Members
  <2>8. QED BY <2>6, <2>7
<1>9. ASSUME NEW s \in Sides, NEW g \in Groups, NEW drop \in Drops,
             UpsertMerged(s, g, drop)
      PROVE  AbsentIsBlank' /\ NoDanglingReference'
  <2>1. CASE DropShared(g, drop)
    <3>1. drop[1] \in Fibers BY DEF Drops
    <3>2. QED
      BY <1>9, <2>1, <3>1, GroupSideType, SharedWriteRows
         DEF UpsertMerged, DropShared
  <2>2. CASE DropSequential(s, g, drop)
    <3>1. Members(GroupSide(g), g) \subseteq present
      BY <1>1, GroupSideType, NoneAssumption DEF Members, AbsentIsBlank
    <3>2. \A t \in Sides, k \in Slots :
             \/ fiber'[t][k] = fiber[t][k]
             \/ /\ k \in Members(GroupSide(g), g)
                /\ \E i \in DOMAIN drop :
                      fiber'[t][k] = drop[i] /\ Live(drop[i])
      <4> DEFINE G == Members(GroupSide(g), g)
                 Reached(k) == /\ Rank(k, G) \in DOMAIN drop
                               /\ \A i \in 1..Rank(k, G) : Live(drop[i])
      <4>1. \A k : Rank(k, G) \in DOMAIN drop => Rank(k, G) \in 1..Rank(k, G)
        BY DEF Drops
      <4>2. \A k : Reached(k) => Live(drop[Rank(k, G)])
        BY <4>1
      <4>3. fiber' = [fiber EXCEPT ![s] = [k \in Slots |->
                        IF k \in G /\ Reached(k) THEN drop[Rank(k, G)] ELSE @[k]]]
        BY <2>2 DEF DropSequential
      <4>4. \A k : Reached(k) => Rank(k, G) \in DOMAIN drop
        OBVIOUS
      <4> HIDE DEF Reached, G
      <4>5. \A t \in Sides, k \in Slots :
               fiber'[t][k] = IF t = s /\ k \in G /\ Reached(k)
                              THEN drop[Rank(k, G)] ELSE fiber[t][k]
        BY <1>1, <4>3 DEF TypeOK, Column
      <4>6. QED BY <4>2, <4>4, <4>5 DEF G
    <3>3. UNCHANGED <<present, mergeGroup, sharedFiber, unit,
                      structures, cables, units>>
      BY <1>9, <2>2 DEF UpsertMerged, DropSequential
    <3>4. AbsentIsBlank' BY <1>1, <3>1, <3>2, <3>3 DEF AbsentIsBlank
    <3>5. NoDanglingReference'
      BY <1>1, <3>2, <3>3 DEF NoDanglingReference, Live
    <3>6. QED BY <3>4, <3>5
  <2>3. QED BY <1>9, <2>1, <2>2 DEF UpsertMerged
<1>10. ASSUME NEW k \in Slots, DestroySplice(k)
       PROVE  AbsentIsBlank' /\ NoDanglingReference'
  BY <1>1, <1>10, DropRowsRows DEF DestroySplice, NoDanglingReference, Live
<1>11. ASSUME NEW c \in Cables, DeleteCable(c)
       PROVE  AbsentIsBlank' /\ NoDanglingReference'
  <2>1. \A t \in Sides, k \in Slots \ RowsOf(c) :
           \A f \in {fiber[t][k], sharedFiber[t][k]} \ {None} : CableOf[f] # c
    BY DEF RowsOf
  <2>2. QED
    BY <1>1, <1>11, <2>1, DropRowsRows
       DEF DeleteCable, NoDanglingReference, Live
<1>12. ASSUME NEW t \in Structures, DeleteStructure(t)
       PROVE  AbsentIsBlank' /\ NoDanglingReference'
  <2>1. \A k \in present \ ({t} \X Ports) : k[1] \in structures \ {t}
    BY <1>1 DEF NoDanglingReference, TypeOK, Slots
  <2>2. QED
    BY <1>1, <1>12, <2>1, DropRowsRows DEF DeleteStructure, Live
<1>13. ASSUME NEW u \in Units, DeleteUnit(u)
       PROVE  AbsentIsBlank' /\ NoDanglingReference'
  BY <1>1, <1>13 DEF DeleteUnit, AbsentIsBlank, NoDanglingReference, Live
<1>14. CASE UNCHANGED vars
  BY <1>1, <1>14 DEF vars, AbsentIsBlank, NoDanglingReference, Live
<1>15. QED
  BY <1>3, <1>4, <1>5, <1>6, <1>7, <1>8, <1>9, <1>10, <1>11, <1>12, <1>13,
     <1>14 DEF Next

(* The invariant of the rows holds always. *)
LEMMA RowInvariant == Spec => []RowInv
<1>1. Init => RowInv
  BY DEF Init, RowInv, TypeOK, NoColumn, Column, AbsentIsBlank,
         NoDanglingReference, Live, Slots
<1>2. QED BY <1>1, RowInvStep, PTL DEF Spec

(* No row refers to a fiber whose cable, or to a unit or structure, that is *)
(* gone: the cascades reach the shared fibers as well.                      *)
THEOREM ReferencesStayLive == Spec => []NoDanglingReference
BY RowInvariant, PTL DEF RowInv

(* The empty-row test of clear_port never deletes a row that still says     *)
(* something, and no group-wide write reaches a slot without a row.         *)
THEOREM AbsentRowsStayBlank == Spec => []AbsentIsBlank
BY RowInvariant, PTL DEF RowInv

-----------------------------------------------------------------------------
(***************************************************************************)
(* What one request may do to the splice table: which rows and sides it    *)
(* reaches, and what unmerging keeps.                                      *)
(***************************************************************************)
Changed(s, k) == SideOf(s, k)' # SideOf(s, k)

(* A step that changes the fiber data of one side of one structure only.   *)
OnePlace ==
    \A s, t \in Sides, k, l \in Slots :
        Changed(s, k) /\ Changed(t, l) => s = t /\ k[1] = l[1]

(* Writing within one group, or within one structure, is in one place. *)
LEMMA WriteInPlace ==
    ASSUME GroupsAreLocal, NEW s \in Sides, NEW K,
           \/ \E g \in Groups, t \in Sides : K \subseteq Members(t, g)
           \/ \E t : \A k \in K : k[1] = t,
           \A t \in Sides, k \in Slots : Changed(t, k) => t = s /\ k \in K
    PROVE  OnePlace
<1>1. CASE \E g \in Groups, t \in Sides : K \subseteq Members(t, g)
    BY <1>1, NoneAssumption DEF GroupsAreLocal, Members, OnePlace
<1>2. CASE \E t : \A k \in K : k[1] = t
    BY <1>2 DEF OnePlace
<1> QED BY <1>1, <1>2

(* The group-wide write of a shared fiber. *)
LEMMA SharedInPlace ==
    ASSUME MergeInv, NEW s \in Sides, NEW g \in Groups, NEW v \in Fibers \cup {None},
           sharedFiber' = Put(sharedFiber, s, Members(s, g), v),
           UNCHANGED <<fiber, mergeGroup>>
    PROVE  OnePlace
<1>1. \A t \in Sides, k \in Slots :
         sharedFiber'[t][k] = IF t = s /\ k \in Members(s, g)
                              THEN v ELSE sharedFiber[t][k]
    BY PutEffect DEF MergeInv, TypeOK
<1>2. \A t \in Sides, k \in Slots : Changed(t, k) => t = s /\ k \in Members(s, g)
    BY <1>1 DEF Changed, SideOf
<1> QED BY <1>2, WriteInPlace DEF MergeInv

(* The write of one fiber cell. *)
LEMMA CellInPlace ==
    ASSUME MergeInv, NEW s \in Sides, NEW k \in Slots, NEW f \in Fibers \cup {None},
           fiber' = fiber \/ fiber' = [fiber EXCEPT ![s][k] = f],
           UNCHANGED <<mergeGroup, sharedFiber>>
    PROVE  OnePlace
<1>0. ASSUME fiber' = [fiber EXCEPT ![s][k] = f]
      PROVE  \A t \in Sides, l \in Slots :
                fiber'[t][l] = IF t = s /\ l = k THEN f ELSE fiber[t][l]
    <2>1. fiber \in Column(Fibers)
        BY DEF MergeInv, TypeOK
    <2> QED BY <1>0, <2>1, CellEffect
<1>1. \A t \in Sides, l \in Slots :
         fiber'[t][l] # fiber[t][l] => t = s /\ l = k
    BY <1>0
<1>2. \A t \in Sides, l \in Slots : Changed(t, l) => t = s /\ l \in {k}
    BY <1>1 DEF Changed, SideOf
<1> QED BY <1>2, WriteInPlace DEF MergeInv

(* Every request that removes no row changes one side in one structure. *)
LEMMA Footprint ==
    ASSUME MergeInv, [Next]_vars
    PROVE  \/ OnePlace
           \/ \E k \in Slots : DestroySplice(k)
           \/ \E c \in Cables : DeleteCable(c)
           \/ \E t \in Structures : DeleteStructure(t)
<1>1. TypeOK /\ GroupsAreLocal
    BY DEF MergeInv
<1>2. \A s \in Sides, k \in Slots :
         mergeGroup[s][k] # None => mergeGroup[s][k] \in Groups
    BY <1>1 DEF TypeOK, Column
<1>3. ASSUME UNCHANGED <<fiber, mergeGroup, sharedFiber>> PROVE OnePlace
    BY <1>3 DEF OnePlace, Changed, SideOf
<1>4. ASSUME NEW s \in Sides, NEW k \in Slots, NEW f \in Fibers,
             UpsertFiber(s, k, f)
      PROVE OnePlace
    <2>1. CASE UpsertOwn(s, k, f)
        BY <1>4, <2>1, CellInPlace DEF UpsertFiber, UpsertOwn
    <2>2. CASE UpsertShared(s, k, f) /\ Live(f)
        BY <1>2, <1>4, <2>2, SharedInPlace DEF UpsertFiber, UpsertShared
    <2>3. CASE UpsertShared(s, k, f) /\ ~Live(f)
        BY <1>3, <1>4, <2>3 DEF UpsertFiber, UpsertShared
    <2> QED BY <1>4, <2>1, <2>2, <2>3 DEF UpsertFiber
<1>5. ASSUME NEW s \in Sides, NEW k \in Slots, NEW f \in Fibers,
             BulkUpsertFiber(s, k, f)
      PROVE OnePlace
    BY <1>5, CellInPlace DEF BulkUpsertFiber
<1>6. ASSUME NEW s \in Sides, NEW k \in Slots, NEW u \in Units,
             UpsertUnit(s, k, u) \/ BulkUpsertUnit(s, k, u)
      PROVE OnePlace
    BY <1>3, <1>6 DEF UpsertUnit, BulkUpsertUnit
<1>7. ASSUME NEW s \in Sides, NEW k \in Slots, ClearPort(s, k) PROVE OnePlace
    <2>1. CASE ClearShared(s, k)
        BY <1>2, <1>7, <2>1, SharedInPlace DEF ClearPort, ClearShared
    <2>2. CASE ClearOwn(s, k)
        BY <1>7, <2>2, CellInPlace DEF ClearPort, ClearOwn
    <2> QED BY <1>7, <2>1, <2>2 DEF ClearPort
<1>8. ASSUME NEW s \in Sides, NEW K \in SUBSET Slots, NEW g \in Groups,
             MergePorts(s, K, g)
      PROVE OnePlace
    <2>1. \A t \in Sides, k \in Slots : Changed(t, k) => t = s /\ k \in K
        BY <1>1, <1>8, MergeEffect DEF Changed, SideOf
    <2>2. \E t : \A k \in K : k[1] = t
        BY <1>8 DEF MergePorts
    <2> QED BY <1>1, <2>1, <2>2, WriteInPlace
<1>9. ASSUME NEW g \in Groups, NEW P, UnmergePorts(g, P) PROVE OnePlace
    <2> DEFINE s == GroupSide(g)
    <2>1. PICK out \in SUBSET Members(s, g) :
             /\ mergeGroup' = Put(mergeGroup, s, out, None)
             /\ sharedFiber' = Put(sharedFiber, s, out, None)
             /\ \A t \in Sides, k \in Slots :
                   fiber'[t][k] = fiber[t][k] \/ (t = s /\ k \in out)
        BY <1>1, <1>9, UnmergeEffect
    <2>2. s \in Sides
        BY GroupSideType
    <2> HIDE DEF s
    <2>3. \A t \in Sides, k \in Slots : Changed(t, k) => t = s /\ k \in out
        BY <1>1, <2>1, <2>2, PutEffect DEF Changed, SideOf, TypeOK
    <2> QED BY <1>1, <2>2, <2>3, WriteInPlace
<1>10. ASSUME NEW s \in Sides, NEW g \in Groups, NEW drop \in Drops,
              UpsertMerged(s, g, drop)
       PROVE OnePlace
    <2>1. CASE DropShared(g, drop)
        <3>1. drop[1] \in Fibers
            BY DEF Drops
        <3> QED BY <1>10, <2>1, <3>1, GroupSideType, SharedInPlace
                DEF UpsertMerged, DropShared
    <2>2. CASE DropSequential(s, g, drop)
        <3> DEFINE G == Members(GroupSide(g), g)
        <3>1. \A t \in Sides, k \in Slots :
                 fiber'[t][k] # fiber[t][k] => t = s /\ k \in G
            BY <1>1, <2>2 DEF DropSequential, TypeOK, Column
        <3> HIDE DEF G
        <3>2. \A t \in Sides, k \in Slots : Changed(t, k) => t = s /\ k \in G
            BY <1>10, <2>2, <3>1 DEF UpsertMerged, DropSequential, Changed, SideOf
        <3> QED BY <1>1, <3>2, GroupSideType, WriteInPlace DEF G
    <2> QED BY <1>10, <2>1, <2>2 DEF UpsertMerged
<1>11. ASSUME NEW u \in Units, DeleteUnit(u) PROVE OnePlace
    BY <1>3, <1>11 DEF DeleteUnit
<1>12. CASE UNCHANGED vars
    BY <1>3, <1>12 DEF vars
<1> QED BY <1>4, <1>5, <1>6, <1>7, <1>8, <1>9, <1>10, <1>11, <1>12 DEF Next

(* The columns of a port on a side: what the table says of it depends on    *)
(* these and on the row being there, and an absent row is blank.            *)
SameColumns(t, k) ==
    /\ fiber'[t][k] = fiber[t][k] /\ mergeGroup'[t][k] = mergeGroup[t][k]
    /\ sharedFiber'[t][k] = sharedFiber[t][k] /\ unit'[t][k] = unit[t][k]

LEMMA SaysTheSame ==
    ASSUME AbsentIsBlank, NEW t \in Sides, NEW k \in Slots, SameColumns(t, k),
           \/ k \in present => k \in present'
           \/ /\ fiber[t][k] = None /\ mergeGroup[t][k] = None
              /\ sharedFiber[t][k] = None /\ unit[t][k] = None
    PROVE  Says(t, k)' = Says(t, k)
BY DEF SameColumns, Says, Blank, AbsentIsBlank

(* The write of one cell leaves the other side alone. *)
LEMMA CellOtherSide ==
    ASSUME NEW V, NEW column \in Column(V), NEW after,
           NEW s \in Sides, NEW t \in Sides, s # t,
           NEW l \in Slots, NEW k \in Slots, NEW v \in V \cup {None},
           after = column \/ after = [column EXCEPT ![s][l] = v]
    PROVE  after[t][k] = column[t][k]
<1>1. [column EXCEPT ![s][l] = v][t][k] = column[t][k]
    BY CellEffect
<1> QED BY <1>1

(* A group-wide UPDATE of the shared fiber leaves the other side alone. *)
LEMMA SharedOtherSide ==
    ASSUME TypeOK, NEW s \in Sides, NEW t \in Sides, s # t, NEW k \in Slots, NEW K,
           NEW v \in Fibers \cup {None},
           sharedFiber' = Put(sharedFiber, s, K, v) \/ sharedFiber' = sharedFiber
    PROVE  sharedFiber'[t][k] = sharedFiber[t][k]
BY PutEffect DEF TypeOK

(* No request sent for one side changes what the table says of the other.   *)
LEMMA OtherSideKept ==
    ASSUME RowInv, GroupsAreLocal, NEW s \in Sides, NEW t \in Sides, s # t, SentFor(s),
           NEW k \in Slots
    PROVE  Says(t, k)' = Says(t, k)
<1>1. TypeOK /\ AbsentIsBlank
    BY DEF RowInv
<1>2. ASSUME NEW l \in Slots, NEW f \in Fibers,
             UpsertFiber(s, l, f) \/ BulkUpsertFiber(s, l, f)
      PROVE  Says(t, k)' = Says(t, k)
    <2>1. /\ UNCHANGED <<mergeGroup, unit>>
          /\ k \in present => k \in present'
        BY <1>2 DEF UpsertFiber, BulkUpsertFiber
    <2>2. fiber' = fiber \/ fiber' = [fiber EXCEPT ![s][l] = f]
        BY <1>2 DEF UpsertFiber, UpsertOwn, UpsertShared, BulkUpsertFiber
    <2>3. fiber'[t][k] = fiber[t][k]
        <3>1. fiber \in Column(Fibers)
            BY <1>1 DEF TypeOK
        <3> QED BY <2>2, <3>1, CellOtherSide
    <2>4. \/ sharedFiber' = sharedFiber
          \/ sharedFiber' = Put(sharedFiber, s, Members(s, mergeGroup[s][l]), f)
        BY <1>2 DEF UpsertFiber, UpsertOwn, UpsertShared, BulkUpsertFiber
    <2>5. sharedFiber'[t][k] = sharedFiber[t][k]
        BY <1>1, <2>4, SharedOtherSide
    <2> QED BY <1>1, <2>1, <2>3, <2>5, SaysTheSame DEF SameColumns
<1>3. ASSUME NEW l \in Slots, NEW u \in Units,
             UpsertUnit(s, l, u) \/ BulkUpsertUnit(s, l, u)
      PROVE  Says(t, k)' = Says(t, k)
    <2>1. /\ UNCHANGED <<fiber, mergeGroup, sharedFiber>>
          /\ k \in present => k \in present'
          /\ unit' = unit \/ unit' = [unit EXCEPT ![s][l] = u]
        BY <1>3 DEF UpsertUnit, BulkUpsertUnit
    <2>2. unit'[t][k] = unit[t][k]
        <3>1. unit \in Column(Units)
            BY <1>1 DEF TypeOK
        <3> QED BY <2>1, <3>1, CellOtherSide
    <2> QED BY <1>1, <2>1, <2>2, SaysTheSame DEF SameColumns
<1>4. ASSUME NEW l \in Slots, ClearPort(s, l) PROVE Says(t, k)' = Says(t, k)
    <2>1. CASE ClearShared(s, l)
        <3>1. UNCHANGED <<present, fiber, mergeGroup, unit>>
            BY <1>4, <2>1 DEF ClearPort, ClearShared
        <3>2. sharedFiber'[t][k] = sharedFiber[t][k]
            BY <1>1, <2>1, SharedOtherSide DEF ClearShared
        <3> QED BY <1>1, <3>1, <3>2, SaysTheSame DEF SameColumns
    <2>2. CASE ClearOwn(s, l)
        <3>1. UNCHANGED <<mergeGroup, sharedFiber>>
            BY <1>4, <2>2 DEF ClearPort, ClearOwn
        <3>2. fiber'[t][k] = fiber[t][k] /\ unit'[t][k] = unit[t][k]
            BY <1>1, <2>2, CellEffect DEF ClearOwn, TypeOK
        <3>3. \/ k \in present => k \in present'
              \/ /\ fiber[t][k] = None /\ mergeGroup[t][k] = None
                 /\ sharedFiber[t][k] = None /\ unit[t][k] = None
            BY <2>2 DEF ClearOwn, EmptyAfterClear
        <3> QED BY <1>1, <3>1, <3>2, <3>3, SaysTheSame DEF SameColumns
    <2> QED BY <1>4, <2>1, <2>2 DEF ClearPort
<1>5. ASSUME NEW K \in SUBSET Slots, NEW g \in Groups, MergePorts(s, K, g)
      PROVE  Says(t, k)' = Says(t, k)
    <2>1. unit' = unit /\ (k \in present => k \in present')
        BY <1>5 DEF MergePorts
    <2>2. /\ fiber'[t][k] = fiber[t][k] /\ mergeGroup'[t][k] = mergeGroup[t][k]
          /\ sharedFiber'[t][k] = sharedFiber[t][k]
        BY <1>1, <1>5, MergeEffect
    <2> QED BY <1>1, <2>1, <2>2, SaysTheSame DEF SameColumns
<1>6. ASSUME NEW g \in Groups, NEW P \in SUBSET Ports,
             Members(s, g) # {}, UnmergePorts(g, P)
      PROVE  Says(t, k)' = Says(t, k)
    <2>1. s = GroupSide(g)
        BY <1>6, NoneAssumption DEF GroupsAreLocal, GroupSide, Members, Sides
    <2>2. PICK out \in SUBSET Members(s, g) :
             /\ mergeGroup' = Put(mergeGroup, s, out, None)
             /\ sharedFiber' = Put(sharedFiber, s, out, None)
             /\ fiber'[t][k] = fiber[t][k]
        BY <1>1, <1>6, <2>1, UnmergeEffect
    <2>3. UNCHANGED <<present, unit>>
        BY <1>6 DEF UnmergePorts
    <2>4. mergeGroup'[t][k] = mergeGroup[t][k] /\ sharedFiber'[t][k] = sharedFiber[t][k]
        BY <1>1, <2>2, PutEffect DEF TypeOK
    <2> QED BY <1>1, <2>2, <2>3, <2>4, SaysTheSame DEF SameColumns
<1>7. ASSUME NEW g \in Groups, NEW drop \in Drops, UpsertMerged(s, g, drop)
      PROVE  Says(t, k)' = Says(t, k)
    <2>1. UNCHANGED <<present, mergeGroup, unit>>
        BY <1>7 DEF UpsertMerged
    <2>2. CASE s = GroupSide(g) /\ DropShared(g, drop)
        <3>1. drop[1] \in Fibers
            BY DEF Drops
        <3>2. fiber' = fiber /\ sharedFiber'[t][k] = sharedFiber[t][k]
            BY <1>1, <2>2, <3>1, SharedOtherSide DEF DropShared
        <3> QED BY <1>1, <2>1, <3>2, SaysTheSame DEF SameColumns
    <2>3. CASE DropSequential(s, g, drop)
        <3>1. sharedFiber' = sharedFiber /\ fiber'[t][k] = fiber[t][k]
            BY <1>1, <2>3 DEF DropSequential, TypeOK, Column
        <3> QED BY <1>1, <2>1, <3>1, SaysTheSame DEF SameColumns
    <2> QED BY <1>7, <2>2, <2>3 DEF UpsertMerged
<1> QED BY <1>2, <1>3, <1>4, <1>5, <1>6, <1>7 DEF SentFor

(* No request changes anything on the side of a port it was not sent for:   *)
(* what is spliced, merged or attached there stays, and so does its row.    *)
THEOREM SidesStayIndependent == Spec => SidesIndependent
<1>1. RowInv /\ MergeInv /\ [Next]_vars =>
         [\A s, t \in Sides : s # t /\ Changes(t) => ~SentFor(s)]_vars
    <2> SUFFICES ASSUME RowInv, MergeInv, NEW s \in Sides, NEW t \in Sides, s # t,
                        Changes(t), SentFor(s)
                 PROVE FALSE
        OBVIOUS
    <2>1. PICK k \in Slots : Says(t, k)' # Says(t, k)
        BY DEF Changes
    <2> QED BY <2>1, OtherSideKept DEF MergeInv
<1> QED BY <1>1, RowInvariant, MergeInvariant, PTL DEF Spec, SidesIndependent

(* A removed row loses both sides; a row that stays is not touched by the   *)
(* removal of others.                                                       *)
LEMMA RemovalEffect ==
    ASSUME TypeOK, NEW K, DropRows(K)
    PROVE  \A s \in Sides, k \in Slots :
              Changed(s, k) => k \in K /\ k \notin present'
BY EraseEffect DEF DropRows, TypeOK, Changed, SideOf

(* Only the deletion of a cable or a unit reaches two structures.           *)
THEOREM RequestsStayInStructure == Spec => StaysInStructure
<1>1. MergeInv /\ [Next]_vars =>
         [(cables' = cables /\ units' = units) =>
             \A k, l \in Slots :
                 (/\ \E s \in Sides : SideOf(s, k)' # SideOf(s, k)
                  /\ \E s \in Sides : SideOf(s, l)' # SideOf(s, l))
                     => k[1] = l[1]]_vars
    <2> SUFFICES ASSUME MergeInv, [Next]_vars, cables' = cables,
                        NEW k \in Slots, NEW l \in Slots,
                        NEW s \in Sides, Changed(s, k),
                        NEW t \in Sides, Changed(t, l)
                 PROVE k[1] = l[1]
        BY DEF Changed
    <2>1. TypeOK
        BY DEF MergeInv
    <2>2. CASE OnePlace
        BY <2>2 DEF OnePlace
    <2>3. ASSUME NEW d \in Slots, DestroySplice(d) PROVE k[1] = l[1]
        BY <2>1, <2>3, RemovalEffect DEF DestroySplice
    <2>4. ASSUME NEW d \in Structures, DeleteStructure(d) PROVE k[1] = l[1]
        <3>1. k \in {d} \X Ports /\ l \in {d} \X Ports
            BY <2>1, <2>4, RemovalEffect DEF DeleteStructure
        <3> QED BY <3>1
    <2>5. ASSUME NEW c \in Cables, DeleteCable(c) PROVE FALSE
        BY <2>5 DEF DeleteCable
    <2> QED BY <2>2, <2>3, <2>4, <2>5, Footprint
<1> QED BY <1>1, MergeInvariant, PTL DEF Spec, StaysInStructure
-----------------------------------------------------------------------------
(* A row leaves a merge group and stays in the table only by unmerge_ports  *)
(* of that group.                                                           *)
LEMMA LeavingIsUnmerging ==
    ASSUME TypeOK, [Next]_vars, NEW s \in Sides, NEW k \in Slots, LeftGroup(s, k)
    PROVE  \E g \in Groups, P \in SUBSET Ports :
              /\ UnmergePorts(g, P)
              /\ s = GroupSide(g) /\ mergeGroup[s][k] = g
<1>1. mergeGroup[s][k] # None /\ mergeGroup'[s][k] = None /\ k \in present'
    BY DEF LeftGroup
<1>2. mergeGroup' # mergeGroup
    BY <1>1
<1>3. ASSUME NEW K, DropRows(K) PROVE FALSE
    <2>1. k \notin K
        BY <1>1, <1>3 DEF DropRows
    <2>2. mergeGroup'[s][k] = mergeGroup[s][k]
        BY <1>3, <2>1, EraseEffect DEF DropRows, TypeOK
    <2> QED BY <1>1, <2>2
<1>4. ASSUME NEW t \in Sides, NEW K \in SUBSET Slots, NEW g \in Groups,
             MergePorts(t, K, g)
      PROVE FALSE
    BY <1>1, <1>4, MergeEffect, NoneAssumption
<1>5. ASSUME NEW t \in Sides, NEW l \in Slots, NEW f \in Fibers,
             UpsertFiber(t, l, f) \/ BulkUpsertFiber(t, l, f)
      PROVE FALSE
    BY <1>2, <1>5 DEF UpsertFiber, BulkUpsertFiber
<1>6. ASSUME NEW t \in Sides, NEW l \in Slots, NEW u \in Units,
             UpsertUnit(t, l, u) \/ BulkUpsertUnit(t, l, u)
      PROVE FALSE
    BY <1>2, <1>6 DEF UpsertUnit, BulkUpsertUnit
<1>7. ASSUME NEW t \in Sides, NEW l \in Slots, ClearPort(t, l) PROVE FALSE
    BY <1>2, <1>7 DEF ClearPort
<1>8. ASSUME NEW t \in Sides, NEW g \in Groups, NEW drop \in Drops,
             UpsertMerged(t, g, drop)
      PROVE FALSE
    BY <1>2, <1>8 DEF UpsertMerged
<1>9. ASSUME NEW u \in Units, DeleteUnit(u) PROVE FALSE
    BY <1>2, <1>9 DEF DeleteUnit
<1>10. ~UNCHANGED vars
    BY <1>2 DEF vars
<1>11. PICK g \in Groups, P \in SUBSET Ports : UnmergePorts(g, P)
    BY <1>3, <1>4, <1>5, <1>6, <1>7, <1>8, <1>9, <1>10
       DEF Next, DestroySplice, DeleteCable, DeleteStructure
<1>12. PICK out \in SUBSET Members(GroupSide(g), g) :
          mergeGroup' = Put(mergeGroup, GroupSide(g), out, None)
    BY <1>11, UnmergeEffect
<1>13. s = GroupSide(g) /\ k \in Members(s, g)
    BY <1>1, <1>12, GroupSideType, PutEffect DEF TypeOK
<1> QED BY <1>11, <1>13 DEF Members

(* Emptying the rows of K on side s of a column.                            *)
LEMMA EmptyRows ==
    ASSUME NEW V, NEW column \in Column(V), NEW after, NEW s \in Sides, NEW K,
           after = Put(column, s, K, None)
    PROVE  \A k \in Slots :
              after[s][k] = IF k \in K THEN None ELSE column[s][k]
<1>1. \A t \in Sides, k \in Slots :
         Put(column, s, K, None)[t][k] =
            IF t = s /\ k \in K THEN None ELSE column[t][k]
    BY PutEffect
<1> QED BY <1>1

(* What unmerging does to the rows of the group, in the words of the code.  *)
LEMMA UnmergeRows ==
    ASSUME TypeOK, NEW g \in Groups, NEW P, UnmergePorts(g, P),
           NEW G, G = Members(GroupSide(g), g),
           NEW named, named = {k \in G : k[2] \in P},
           NEW last, last = LastPort(G, named),
           NEW shared, shared = sharedFiber[GroupSide(g)][First(G)]
    PROVE  \A k \in G :
              /\ mergeGroup'[GroupSide(g)][k] =
                    IF k \in named \cup last THEN None ELSE g
              /\ sharedFiber'[GroupSide(g)][k] =
                    IF k \in named \cup last THEN None
                    ELSE sharedFiber[GroupSide(g)][k]
              /\ fiber'[GroupSide(g)][k] =
                    IF k \in Heir(named, shared) THEN shared
                    ELSE IF k \in last /\ sharedFiber[GroupSide(g)][k] # None
                         THEN sharedFiber[GroupSide(g)][k]
                         ELSE fiber[GroupSide(g)][k]
<1> DEFINE s == GroupSide(g)
           heir == Heir(named, shared)
           side == [k \in Slots |->
                        IF k \in heir THEN shared
                        ELSE IF k \in last /\ sharedFiber[s][k] # None
                             THEN sharedFiber[s][k] ELSE fiber[s][k]]
<1>1. s \in Sides /\ G \subseteq Slots /\ \A k \in G : mergeGroup[s][k] = g
    BY GroupSideType DEF Members
<1>2. /\ fiber' = [fiber EXCEPT ![s] = side]
      /\ mergeGroup' = Put(mergeGroup, s, named \cup last, None)
      /\ sharedFiber' = Put(sharedFiber, s, named \cup last, None)
    BY <1>1 DEF UnmergePorts, TypeOK, Column
<1>3. fiber'[s] = side
    <2> HIDE DEF s, side
    <2> QED BY <1>1, <1>2 DEF TypeOK, Column
<1>4. \A k \in G : /\ mergeGroup'[s][k] = IF k \in named \cup last THEN None ELSE g
                   /\ sharedFiber'[s][k] = IF k \in named \cup last THEN None
                                           ELSE sharedFiber[s][k]
    <2>1. mergeGroup \in Column(Groups) /\ sharedFiber \in Column(Fibers)
        BY DEF TypeOK
    <2>2. PICK out : out = named \cup last
        OBVIOUS
    <2>3. /\ mergeGroup' = Put(mergeGroup, s, out, None)
          /\ sharedFiber' = Put(sharedFiber, s, out, None)
        BY <1>2, <2>2
    <2>4. s \in Sides
        BY <1>1
    <2> HIDE DEF s
    <2>5. \A k \in Slots :
             mergeGroup'[s][k] = IF k \in out THEN None ELSE mergeGroup[s][k]
        BY ONLY <2>1, <2>3, <2>4, EmptyRows
    <2>6. \A k \in Slots :
             sharedFiber'[s][k] = IF k \in out THEN None ELSE sharedFiber[s][k]
        BY ONLY <2>1, <2>3, <2>4, EmptyRows
    <2> QED BY <1>1, <2>2, <2>5, <2>6
<1> QED BY <1>1, <1>3, <1>4

(* Whatever a port of the group showed is still shown by one of its ports.  *)
LEMMA UnmergeShows ==
    ASSUME TypeOK, UniformGroups, NEW g \in Groups, NEW P, UnmergePorts(g, P),
           NEW s \in Sides, s = GroupSide(g),
           NEW l \in Members(s, g), Shown(s, l) # None
    PROVE  \E m \in Members(s, g) : Shown(s, m)' = Shown(s, l)
<1> DEFINE G == Members(s, g)
           named == {k \in G : k[2] \in P}
           last == LastPort(G, named)
           shared == sharedFiber[s][First(G)]
           Now(k) == IF mergeGroup'[s][k] # None /\ sharedFiber'[s][k] # None
                     THEN sharedFiber'[s][k] ELSE fiber'[s][k]
<1>1. /\ G \subseteq Slots /\ g # None
      /\ First(G) \in G /\ \A k \in G : mergeGroup[s][k] = g
    <2>1. G \subseteq Slots /\ G # {}
        BY DEF Members
    <2> QED BY <2>1, FirstMember, NoneAssumption DEF Members
<1>2. \A k \in G : sharedFiber[s][k] = shared
    BY <1>1 DEF UniformGroups
<1>3. \A k \in G :
         /\ mergeGroup'[s][k] = IF k \in named \cup last THEN None ELSE g
         /\ sharedFiber'[s][k] = IF k \in named \cup last THEN None ELSE shared
         /\ fiber'[s][k] = IF k \in Heir(named, shared) THEN shared
                           ELSE IF k \in last /\ shared # None
                                THEN shared ELSE fiber[s][k]
    <2>1. \A k \in G :
         /\ mergeGroup'[s][k] = IF k \in named \cup last THEN None ELSE g
         /\ sharedFiber'[s][k] = IF k \in named \cup last THEN None
                                 ELSE sharedFiber[s][k]
         /\ fiber'[s][k] = IF k \in Heir(named, shared) THEN shared
                           ELSE IF k \in last /\ sharedFiber[s][k] # None
                                THEN sharedFiber[s][k] ELSE fiber[s][k]
        BY UnmergeRows
    <2> HIDE DEF G, named, last, shared
    <2> QED BY <1>2, <2>1
<1>4. l \in G /\ Shown(s, l) = IF shared # None THEN shared ELSE fiber[s][l]
    BY <1>1, <1>2 DEF Shown
<1>5. named # {} => First(named) \in named
    BY <1>1, FirstMember
<1>6. named \subseteq G /\ last \in SUBSET G
    BY DEF LastPort
<1>7. \E m \in G : Now(m) = Shown(s, l)
    <2> HIDE DEF G, named, last, shared
    <2>1. CASE shared = None
        <3>1. fiber'[s][l] = fiber[s][l] /\ sharedFiber'[s][l] = None
            BY <1>3, <1>4, <2>1 DEF Heir
        <3> QED BY <1>4, <2>1, <3>1
    <2>2. CASE shared # None /\ named # {}
        <3>1. First(named) \in Heir(named, shared) /\ First(named) \in G
            BY <1>5, <1>6, <2>2 DEF Heir
        <3>2. fiber'[s][First(named)] = shared
            BY <1>3, <3>1
        <3>3. mergeGroup'[s][First(named)] = None
            BY <1>3, <1>5, <2>2, <3>1
        <3> QED BY <1>4, <2>2, <3>1, <3>2, <3>3
    <2>3. CASE shared # None /\ named = {} /\ l \in last
        BY <1>3, <1>4, <2>3 DEF Heir
    <2>4. CASE shared # None /\ named = {} /\ l \notin last
        BY <1>1, <1>3, <1>4, <2>4
    <2> QED BY <2>1, <2>2, <2>3, <2>4
<1> QED BY <1>7 DEF Shown

(* With the requests the port table offers, unmerging loses no fiber.       *)
THEOREM UnmergingLosesNoFiber ==
    ASSUME PortTable PROVE Spec => UnmergeKeepsFiber
<1>1. MergeInv /\ [Next]_vars =>
         [\A s \in Sides, k \in Slots : LeftGroup(s, k) =>
             \A l \in Members(s, mergeGroup[s][k]) :
                 Shown(s, l) # None =>
                     \E m \in Members(s, mergeGroup[s][k]) :
                         Shown(s, m)' = Shown(s, l)]_vars
    <2> SUFFICES ASSUME MergeInv, [Next]_vars,
                        NEW s \in Sides, NEW k \in Slots, LeftGroup(s, k),
                        NEW l \in Members(s, mergeGroup[s][k]), Shown(s, l) # None
                 PROVE \E m \in Members(s, mergeGroup[s][k]) :
                          Shown(s, m)' = Shown(s, l)
        OBVIOUS
    <2>1. TypeOK /\ UniformGroups
        BY DEF MergeInv
    <2>2. PICK g \in Groups, P \in SUBSET Ports :
             UnmergePorts(g, P) /\ s = GroupSide(g) /\ mergeGroup[s][k] = g
        BY <2>1, LeavingIsUnmerging
    <2> QED BY <2>1, <2>2, UnmergeShows
<1> QED BY <1>1, MergeInvariant, PTL DEF Spec, UnmergeKeepsFiber

(* unmerge_ports never leaves one port alone in its group, whatever an API  *)
(* client names: ports twice, of other groups, none, or all.                *)
THEOREM NoGroupOfOneLeft == Spec => UnmergeLeavesNoLoneMember
<1>1. TypeOK /\ [Next]_vars =>
         [\A s \in Sides, k, l \in Slots : LeftGroup(s, k) =>
             {m \in Slots : mergeGroup'[s][m] = mergeGroup[s][k]} # {l}]_vars
    <2> SUFFICES ASSUME TypeOK, [Next]_vars, NEW s \in Sides, NEW k \in Slots,
                        NEW l \in Slots, LeftGroup(s, k),
                        {m \in Slots : mergeGroup'[s][m] = mergeGroup[s][k]} = {l}
                 PROVE FALSE
        OBVIOUS
    <2>1. PICK g \in Groups, P \in SUBSET Ports :
             UnmergePorts(g, P) /\ s = GroupSide(g) /\ mergeGroup[s][k] = g
        BY LeavingIsUnmerging
    <2> DEFINE G == Members(GroupSide(g), g)
               named == {m \in G : m[2] \in P}
               last == LastPort(G, named)
    <2>2. \A m \in G : mergeGroup'[s][m] = IF m \in named \cup last THEN None ELSE g
        BY <2>1, UnmergeRows
    <2>3. g # None
        BY NoneAssumption
    <2>4. \A m \in Slots : mergeGroup'[s][m] = g => m \in G
        <3>1. PICK out \in SUBSET Members(GroupSide(g), g) :
                 mergeGroup' = Put(mergeGroup, GroupSide(g), out, None)
            BY <2>1, UnmergeEffect
        <3>2. \A m \in Slots : mergeGroup'[s][m] \in {mergeGroup[s][m], None}
            BY <2>1, <3>1, PutEffect DEF TypeOK
        <3> QED BY <2>1, <2>3, <3>2 DEF Members
    <2>5. G \subseteq Slots /\ named \subseteq G
        BY DEF Members
    <2>6. G \ (named \cup last) = {l}
        <3> HIDE DEF G, named, last
        <3> QED BY <2>1, <2>2, <2>3, <2>4, <2>5
    <2>7. last = IF \E m \in G : G \ named = {m} THEN G \ named ELSE {}
        BY DEF LastPort
    <2> HIDE DEF G, named, last
    <2>8. CASE \E m \in G : G \ named = {m}
        BY <2>6, <2>7, <2>8
    <2>9. CASE ~\E m \in G : G \ named = {m}
        BY <2>6, <2>7, <2>9
    <2> QED BY <2>8, <2>9
<1> QED BY <1>1, TypeCorrect, PTL DEF Spec, UnmergeLeavesNoLoneMember
=============================================================================
