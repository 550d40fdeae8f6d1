-------------------------- MODULE CanvasSync_proofs --------------------------
(***************************************************************************)
(* Proofs about CanvasSync: its type, and that the row keeps a second sync *)
(* out while one runs, for any number of workers and nodes.                *)
(***************************************************************************)
EXTENDS CanvasSync, FiniteSetTheorems, TLAPS

(* Counting nodes stays within the bounds of nodes_processed. *)
LEMMA CountOfNodes ==
    ASSUME NEW S \in SUBSET Nodes
    PROVE  Cardinality(S) \in 0..Cardinality(Nodes)
<1>1. IsFiniteSet(S) /\ Cardinality(S) <= Cardinality(Nodes)
    BY NodesAssumption, FS_Subset
<1>2. Cardinality(S) \in Nat /\ Cardinality(Nodes) \in Nat
    BY <1>1, NodesAssumption, FS_CardinalityType
<1> QED BY <1>1, <1>2

(* Every full save of a worker's copy writes well-typed columns. *)
LEMMA SaveRowType ==
    ASSUME TypeOK, NEW w \in Workers,
           NEW s \in {"ABSENT", "IDLE", "IN_PROGRESS", "COMPLETED", "FAILED"},
           SaveRow(w, s)
    PROVE  /\ status' \in {"ABSENT", "IDLE", "IN_PROGRESS", "COMPLETED", "FAILED"}
           /\ beat' \in Ages
           /\ processed' \in 0..Cardinality(Nodes)
<1>1. missing[w] \ todo[w] \in SUBSET Nodes
    BY DEF TypeOK
<1>2. own[w] \in Ages
    BY DEF TypeOK
<1> QED BY <1>1, <1>2, CountOfNodes DEF SaveRow

(* Leaving a request behind keeps the worker's columns well typed. *)
LEMMA FinishType ==
    ASSUME TypeOK, NEW w \in Workers, Finish(w)
    PROVE  /\ pc' \in [Workers -> Steps]
           /\ age' \in [Workers -> 0..WorkerTimeout]
           /\ own' \in [Workers -> Ages]
           /\ missing' \in [Workers -> SUBSET Nodes]
           /\ todo' \in [Workers -> SUBSET Nodes]
BY DEF Finish, TypeOK, Steps

(* Every step keeps the types. *)
LEMMA TypeStep == TypeOK /\ [Next]_vars => TypeOK'
<1> SUFFICES ASSUME TypeOK, [Next]_vars PROVE TypeOK'
    OBVIOUS
<1> USE DEF row, sync
<1>0. /\ StaleAfter \in Nat /\ WorkerTimeout \in Nat
      /\ 0 \in 0..Cardinality(Nodes)
      /\ 0 \in Ages /\ \A a \in Ages : Older(a) \in Ages
    <2>1. Cardinality(Nodes) \in Nat
        BY NodesAssumption, FS_CardinalityType
    <2> QED BY <2>1, TimeoutAssumption DEF Ages, Older
<1>1. CASE Get
    BY <1>1 DEF Get, TypeOK
<1>2. CASE Tick
    BY <1>0, <1>2 DEF Tick, TypeOK
<1>3. ASSUME NEW w \in Workers, TakeOver(w) PROVE TypeOK'
    BY <1>0, <1>3 DEF TakeOver, Claim, TypeOK, Steps, Syncing
<1>4. ASSUME NEW w \in Workers, FindNoRow(w) PROVE TypeOK'
    BY <1>0, <1>4 DEF FindNoRow, TypeOK, Steps, Syncing
<1>5. ASSUME NEW w \in Workers, Insert(w) PROVE TypeOK'
    BY <1>0, <1>5 DEF Insert, Claim, TypeOK, Steps, Syncing
<1>6. ASSUME NEW w \in Workers, ReadNodes(w) PROVE TypeOK'
    <2>1. CASE SaveRow(w, "COMPLETED") /\ Finish(w)
        BY <1>6, <2>1, SaveRowType, FinishType DEF ReadNodes, TypeOK
    <2>2. CASE ~(SaveRow(w, "COMPLETED") /\ Finish(w))
        BY <1>6, <2>2 DEF ReadNodes, Missing, TypeOK, Steps, Syncing
    <2> QED BY <2>1, <2>2
<1>7. ASSUME NEW w \in Workers, SaveCentre(w) PROVE TypeOK'
    BY <1>0, <1>7 DEF SaveCentre, TypeOK, Steps, Syncing
<1>8. ASSUME NEW w \in Workers, WriteBatch(w) PROVE TypeOK'
    BY <1>8 DEF WriteBatch, TypeOK, Steps, Syncing, Positions
<1>9. ASSUME NEW w \in Workers, Heartbeat(w) PROVE TypeOK'
    BY <1>0, <1>9 DEF Heartbeat, TypeOK, Steps, Syncing
<1>10. ASSUME NEW w \in Workers, Complete(w) PROVE TypeOK'
    BY <1>10, SaveRowType, FinishType DEF Complete, TypeOK
<1>11. ASSUME NEW w \in Workers, Fail(w) PROVE TypeOK'
    <2>1. mishaps' \in 0..MaxMishaps
        BY <1>11, MishapAssumption DEF Fail, TypeOK
    <2> QED BY <1>11, <2>1, SaveRowType DEF Fail, TypeOK, Steps, Syncing
<1>12. ASSUME NEW w \in Workers, FailAgain(w) PROVE TypeOK'
    BY <1>12, FinishType DEF FailAgain, TypeOK
<1>13. ASSUME NEW w \in Workers, Kill(w) PROVE TypeOK'
    <2>1. mishaps' \in 0..MaxMishaps
        BY <1>13, MishapAssumption DEF Kill, TypeOK
    <2> QED BY <1>13, <2>1, FinishType DEF Kill, TypeOK
<1>14. ASSUME NEW e \in Editors, EditRead(e) PROVE TypeOK'
    <2>1. PICK n \in Exists, k \in Edits :
             edit' = [edit EXCEPT ![e] =
                        <<[node |-> n, kind |-> k, copy |-> pos[n]], "read">>]
        BY <1>14 DEF EditRead
    <2>2. n \in Nodes /\ pos[n] \in Positions
        BY DEF Exists, TypeOK
    <2>3. [node |-> n, kind |-> k, copy |-> pos[n]] \in EditRecords
        BY <2>2 DEF EditRecords
    <2> QED BY <1>14, <2>1, <2>3 DEF EditRead, TypeOK
<1>15. ASSUME NEW e \in Editors, EditSave(e) PROVE TypeOK'
    <2> DEFINE r == edit[e][1]
    <2>1. edit[e] \in EditRecords \X {"waiting", "read", "saved"}
        BY DEF TypeOK
    <2>2. r.copy \in Positions \cup {"none"}
        BY <2>1 DEF EditRecords, NoEdit
    <2>3. pos' \in [Nodes -> Positions]
        BY <1>15, <2>2 DEF EditSave, TypeOK, Positions
    <2>4. edit' \in [Editors -> EditRecords \X {"waiting", "read", "saved"}]
        BY <1>15 DEF EditSave, TypeOK, EditRecords
    <2> QED BY <1>15, <2>3, <2>4 DEF EditSave, TypeOK
<1>16. ASSUME NEW n \in Nodes, CreateNode(n) PROVE TypeOK'
    BY <1>16 DEF CreateNode, TypeOK, Positions
<1>17. ASSUME NEW n \in Nodes, DeleteNode(n) PROVE TypeOK'
    BY <1>17 DEF DeleteNode, TypeOK, Positions
<1>18. CASE UNCHANGED vars
    BY <1>18 DEF vars, TypeOK
<1> QED
    BY <1>1, <1>2, <1>3, <1>4, <1>5, <1>6, <1>7, <1>8, <1>9, <1>10, <1>11,
       <1>12, <1>13, <1>14, <1>15, <1>16, <1>17, <1>18 DEF Next, Work

(* A behaviour begins with the types. *)
LEMMA SyncTypeInit == Init => TypeOK
<1> SUFFICES ASSUME Init PROVE TypeOK
    OBVIOUS
<1>1. 0 \in 0..Cardinality(Nodes) /\ 0 \in Ages /\ StaleAfter + 1 \in Ages
    BY NodesAssumption, FS_CardinalityType, TimeoutAssumption DEF Ages
<1> QED BY <1>1, TimeoutAssumption, MishapAssumption
        DEF Init, TypeOK, Positions, Steps, Syncing, EditRecords

(* Every reachable state is well typed, whatever raises or is killed. *)
THEOREM SyncTypeCorrect == Spec => []TypeOK
BY SyncTypeInit, TypeStep, PTL DEF Spec
-----------------------------------------------------------------------------
(* Why one sync runs at a time.  While a worker runs, the row says          *)
(* IN_PROGRESS with a heartbeat no older than the worker's request, and no  *)
(* request gets older than WorkerTimeout: the row cannot look stale, so     *)
(* neither a POST nor a GET takes it away.                                  *)
RowIsHeld ==
    \A w \in Workers : Runs(w) =>
        status = "IN_PROGRESS" /\ beat <= age[w] /\ own[w] <= age[w]

(* No worker is on a path that writes the row without holding it. *)
NoStranger == \A w \in Workers : pc[w] \notin {"inserting", "raised"}

LockInv == TypeOK /\ RowIsHeld /\ NoStranger /\ OneSync

(* A running sync is never claimable. *)
LEMMA HeldIsFresh ==
    ASSUME LockInv, NEW w \in Workers, Runs(w)
    PROVE  status = "IN_PROGRESS" /\ ~IsStale
<1>1. status = "IN_PROGRESS" /\ beat <= age[w]
    BY DEF LockInv, RowIsHeld
<1>2. age[w] \in 0..WorkerTimeout /\ beat \in Ages
    BY DEF LockInv, TypeOK
<1> QED BY <1>1, <1>2, TimeoutAssumption DEF IsStale, Ages

(* The row is written by the one worker that runs, or when none runs. *)
LEMMA LockStep ==
    ASSUME RowFirst, ~MayFail, LockInv, [Next]_vars
    PROVE  LockInv'
<1> USE DEF row, sync
<1>1. TypeOK /\ TypeOK'
    BY TypeStep DEF LockInv
<1>2. /\ StaleAfter \in Nat /\ WorkerTimeout \in Nat
      /\ beat \in Ages /\ own \in [Workers -> Ages]
      /\ age \in [Workers -> 0..WorkerTimeout] /\ pc \in [Workers -> Steps]
    BY <1>1, TimeoutAssumption DEF TypeOK
<1> DEFINE Held == (RowIsHeld /\ NoStranger /\ OneSync)'
<1>3. ASSUME Get PROVE Held
    <2>1. \A w \in Workers : Runs(w) => status' = status
        BY <1>3, HeldIsFresh DEF Get
    <2> QED BY <1>3, <2>1
            DEF Get, LockInv, RowIsHeld, NoStranger, OneSync, Runs
<1>4. ASSUME Tick PROVE Held
    <2>1. \A w \in Workers : Runs(w) => pc[w] # "idle"
        BY DEF Runs, Syncing
    <2>2. \A a, b \in Nat : a <= b => Older(a) <= b + 1
        BY <1>2 DEF Older
    <2>3. \A w \in Workers : Runs(w) =>
             /\ age'[w] = age[w] + 1
             /\ beat' <= age[w] + 1 /\ own'[w] <= age[w] + 1
        BY <1>2, <1>4, <2>1, <2>2 DEF Tick, LockInv, RowIsHeld, Ages
    <2>4. pc' = pc /\ status' = status
        BY <1>4 DEF Tick
    <2> QED BY <2>3, <2>4 DEF LockInv, RowIsHeld, NoStranger, OneSync, Runs
<1>5. ASSUME NEW w \in Workers, TakeOver(w) PROVE Held
    <2>1. \A v \in Workers : ~Runs(v)
        BY <1>5, HeldIsFresh DEF TakeOver, Claimable
    <2>2. \A v \in Workers : Runs(v)' => v = w
        BY <1>2, <1>5, <2>1 DEF TakeOver, Claim, Runs
    <2>3. status' = "IN_PROGRESS" /\ beat' = 0 /\ own'[w] = 0 /\ age'[w] = 0
        BY <1>2, <1>5 DEF TakeOver, Claim
    <2>4. NoStranger'
        BY <1>2, <1>5 DEF TakeOver, Claim, LockInv, NoStranger
    <2> QED BY <2>2, <2>3, <2>4 DEF RowIsHeld, OneSync
<1>6. ASSUME NEW w \in Workers, FindNoRow(w) \/ Insert(w) \/ Fail(w) \/ FailAgain(w)
      PROVE FALSE
    BY <1>6 DEF FindNoRow, Insert, Fail, FailAgain, LockInv, NoStranger
(* A worker that leaves its request: none runs afterwards.                  *)
<1>7. ASSUME NEW w \in Workers, Runs(w), Finish(w) PROVE Held
    <2>1. \A v \in Workers : ~Runs(v)'
        BY <1>2, <1>7 DEF Finish, LockInv, OneSync, Runs, Syncing
    <2>2. NoStranger'
        BY <1>2, <1>7 DEF Finish, LockInv, NoStranger
    <2> QED BY <2>1, <2>2 DEF RowIsHeld, OneSync
(* A worker that carries on: no other one runs. *)
<1>8. ASSUME NEW w \in Workers, Runs(w), NEW next \in Syncing,
             pc' = [pc EXCEPT ![w] = next], age' = age,
             status' = "IN_PROGRESS", beat' <= age[w], own'[w] <= age[w]
      PROVE Held
    <2>1. \A v \in Workers : Runs(v)' => v = w
        BY <1>2, <1>8 DEF LockInv, OneSync, Runs
    <2>2. NoStranger'
        BY <1>2, <1>8 DEF LockInv, NoStranger, Syncing
    <2> QED BY <1>8, <2>1, <2>2 DEF RowIsHeld, OneSync
<1>9. \A w \in Workers : Runs(w) =>
         status = "IN_PROGRESS" /\ beat <= age[w] /\ own[w] <= age[w]
             /\ 0 <= age[w]
    BY <1>2 DEF LockInv, RowIsHeld
<1>10. ASSUME NEW w \in Workers, ReadNodes(w) PROVE Held
    <2>1. Runs(w)
        BY <1>10 DEF ReadNodes, Runs, Syncing
    <2>2. CASE Finish(w)
        BY <1>7, <2>1, <2>2
    <2>3. CASE ~Finish(w)
        BY <1>8, <1>9, <1>10, <2>1, <2>3 DEF ReadNodes, Syncing
    <2> QED BY <2>2, <2>3
<1>11. ASSUME NEW w \in Workers, SaveCentre(w) PROVE Held
    BY <1>8, <1>9, <1>11 DEF SaveCentre, Runs, Syncing
<1>12. ASSUME NEW w \in Workers, WriteBatch(w) PROVE Held
    BY <1>8, <1>9, <1>12 DEF WriteBatch, Runs, Syncing
<1>13. ASSUME NEW w \in Workers, Heartbeat(w) PROVE Held
    BY <1>2, <1>8, <1>9, <1>13 DEF Heartbeat, Runs, Syncing
<1>14. ASSUME NEW w \in Workers, Complete(w) PROVE Held
    BY <1>7, <1>14 DEF Complete, Runs, Syncing
<1>15. ASSUME NEW w \in Workers, Kill(w) PROVE Held
    <2>1. Runs(w)
        BY <1>2, <1>15 DEF Kill, LockInv, NoStranger, Runs, Steps
    <2> QED BY <1>7, <1>15, <2>1 DEF Kill
<1>16. ASSUME UNCHANGED <<row, sync>> PROVE Held
    BY <1>16 DEF LockInv, RowIsHeld, NoStranger, OneSync, Runs
<1>17. ASSUME NEW e \in Editors, EditRead(e) \/ EditSave(e) PROVE Held
    BY <1>16, <1>17 DEF EditRead, EditSave
<1>18. ASSUME NEW n \in Nodes, CreateNode(n) \/ DeleteNode(n) PROVE Held
    BY <1>16, <1>18 DEF CreateNode, DeleteNode
<1>19. ASSUME UNCHANGED vars PROVE Held
    BY <1>16, <1>19 DEF vars
<1>20. Held
    BY <1>3, <1>4, <1>5, <1>6, <1>10, <1>11, <1>12, <1>13, <1>14, <1>15,
       <1>17, <1>18, <1>19 DEF Next, Work
<1> QED BY <1>1, <1>20 DEF LockInv

(* The row's holder stands for the running sync, always. *)
LEMMA LockInvariant == ASSUME RowFirst, ~MayFail PROVE Spec => []LockInv
<1>1. Init => LockInv
    <2>1. Init => TypeOK
        BY SyncTypeInit
    <2> QED BY <2>1 DEF Init, LockInv, RowIsHeld, NoStranger, OneSync, Runs, Syncing
<1>2. LockInv /\ [Next]_vars => LockInv'
    BY LockStep
<1> QED BY <1>1, <1>2, PTL DEF Spec

(* One sync at a time, with requests killed at any point, as long as the    *)
(* row exists before the first POST and no statement of a sync raises.      *)
THEOREM AtMostOneSync == ASSUME RowFirst, ~MayFail PROVE Spec => []OneSync
<1>1. LockInv => OneSync
    BY DEF LockInv
<1> QED BY <1>1, LockInvariant, PTL

(* Under the same assumptions a running sync is always shown as one, and    *)
(* never looks stale to the pages that ask.                                 *)
THEOREM RunningSyncIsShown ==
    ASSUME RowFirst, ~MayFail PROVE Spec => []RunningIsShown
<1>1. LockInv => RunningIsShown
    BY HeldIsFresh DEF RunningIsShown
<1> QED BY <1>1, LockInvariant, PTL
-----------------------------------------------------------------------------
(* The row implements the lease: every step of the sync is a step of        *)
(* SyncLease or none at all.  Where a step takes the row over, LockInv says *)
(* that nobody holds it.                                                    *)
HolderSet == {w \in Workers : Runs(w)}
Shown == status = "IN_PROGRESS"

(* A step of the sync is a step of the lease, or leaves it alone. *)
LEMMA LeaseStep ==
    ASSUME RowFirst, ~MayFail, LockInv, LockInv', [Next]_vars
    PROVE  [Lease!Next]_(Lease!vars)
<1> USE DEF row, sync
<1>1. pc \in [Workers -> Steps]
    BY DEF LockInv, TypeOK
<1> DEFINE Step == [Lease!Next]_(Lease!vars)
(* Nothing a page or another worker could notice. *)
<1>2. ASSUME HolderSet' = HolderSet, Shown' <=> Shown PROVE Step
    BY <1>2 DEF HolderSet, Shown, Lease!vars
<1>3. ASSUME UNCHANGED <<status, pc>> PROVE Step
    BY <1>2, <1>3 DEF HolderSet, Shown, Runs
<1>4. ASSUME NEW w \in Workers, Runs(w) PROVE HolderSet = {w} /\ Shown
    BY <1>4, HeldIsFresh DEF LockInv, OneSync, HolderSet, Shown
<1>5. ASSUME Get PROVE Step
    <2>1. HolderSet' = HolderSet
        BY <1>5 DEF Get, HolderSet, Runs
    <2>2. CASE Shown' <=> Shown
        BY <1>2, <2>1, <2>2
    <2>3. CASE ~(Shown' <=> Shown)
        <3>1. Shown /\ ~Shown' /\ IsStale
            BY <1>5, <2>3 DEF Get, Shown
        <3>2. HolderSet = {}
            BY <3>1, HeldIsFresh DEF HolderSet
        <3>3. Lease!Reclaim
            BY <2>1, <3>1, <3>2 DEF Lease!Reclaim, HolderSet, Shown
        <3> QED BY <3>3 DEF Lease!Next
    <2> QED BY <2>2, <2>3
<1>6. ASSUME NEW w \in Workers, TakeOver(w) PROVE Step
    <2>1. HolderSet = {}
        BY <1>6, HeldIsFresh DEF TakeOver, Claimable, HolderSet
    <2>2. HolderSet' = {w} /\ Shown'
        BY <1>1, <1>6, <2>1
           DEF TakeOver, Claim, HolderSet, Shown, Runs, Syncing
    <2>3. Lease!Acquire(w)
        BY <2>1, <2>2 DEF Lease!Acquire, HolderSet, Shown
    <2> QED BY <2>3 DEF Lease!Next
(* A worker that leaves its request releases the lease or dies with it. *)
<1>7. ASSUME NEW w \in Workers, Runs(w), Finish(w) PROVE Step
    <2>1. HolderSet = {w} /\ Shown
        BY <1>4, <1>7
    <2>2. HolderSet' = {}
        BY <1>1, <1>7, <2>1 DEF Finish, HolderSet, Runs, Syncing
    <2>3. CASE Shown'
        BY <2>1, <2>2, <2>3 DEF Lease!Next, Lease!Die, HolderSet, Shown
    <2>4. CASE ~Shown'
        BY <2>1, <2>2, <2>4 DEF Lease!Next, Lease!Release, HolderSet, Shown
    <2> QED BY <2>3, <2>4
<1>8. ASSUME NEW w \in Workers, Runs(w), NEW next \in Syncing,
             pc' = [pc EXCEPT ![w] = next], status' = "IN_PROGRESS"
      PROVE Step
    <2>1. HolderSet' = HolderSet
        BY <1>1, <1>8 DEF HolderSet, Runs
    <2> QED BY <1>2, <1>4, <1>8, <2>1 DEF Shown
<1>9. \A w \in Workers : Runs(w) => status = "IN_PROGRESS"
    BY HeldIsFresh
<1>10. ASSUME NEW w \in Workers, ReadNodes(w) PROVE Step
    <2>1. Runs(w)
        BY <1>10 DEF ReadNodes, Runs, Syncing
    <2>2. CASE Finish(w)
        BY <1>7, <2>1, <2>2
    <2>3. CASE ~Finish(w)
        BY <1>8, <1>9, <1>10, <2>1, <2>3 DEF ReadNodes, Syncing
    <2> QED BY <2>2, <2>3
<1>11. ASSUME NEW w \in Workers, SaveCentre(w) \/ WriteBatch(w) \/ Heartbeat(w)
       PROVE Step
    BY <1>8, <1>9, <1>11 DEF SaveCentre, WriteBatch, Heartbeat, Runs, Syncing
<1>12. ASSUME NEW w \in Workers, Complete(w) PROVE Step
    BY <1>7, <1>12 DEF Complete, Runs, Syncing
<1>13. ASSUME NEW w \in Workers, Kill(w) PROVE Step
    <2>1. Runs(w)
        BY <1>1, <1>13 DEF Kill, LockInv, NoStranger, Runs, Steps
    <2> QED BY <1>7, <1>13, <2>1 DEF Kill
<1>14. ASSUME NEW w \in Workers, FindNoRow(w) \/ Insert(w) \/ Fail(w) \/ FailAgain(w)
       PROVE FALSE
    BY <1>14 DEF FindNoRow, Insert, Fail, FailAgain, LockInv, NoStranger
<1>15. ASSUME Tick PROVE Step
    BY <1>3, <1>15 DEF Tick
<1>16. ASSUME NEW e \in Editors, EditRead(e) \/ EditSave(e) PROVE Step
    BY <1>3, <1>16 DEF EditRead, EditSave
<1>17. ASSUME NEW n \in Nodes, CreateNode(n) \/ DeleteNode(n) PROVE Step
    BY <1>3, <1>17 DEF CreateNode, DeleteNode
<1>18. ASSUME UNCHANGED vars PROVE Step
    BY <1>3, <1>18 DEF vars
<1> QED
    BY <1>5, <1>6, <1>10, <1>11, <1>12, <1>13, <1>14, <1>15, <1>16, <1>17,
       <1>18 DEF Next, Work

(* The sync row is a lease, for any number of workers and nodes, with       *)
(* requests killed at any point, when the row exists before the first POST  *)
(* and no statement of a sync raises.                                       *)
THEOREM SyncIsALease ==
    ASSUME RowFirst, ~MayFail PROVE Spec => ImplementsLease
<1>1. Init => Lease!Init
    BY DEF Init, Lease!Init, Runs, Syncing
<1>2. LockInv /\ LockInv' /\ [Next]_vars => [Lease!Next]_(Lease!vars)
    BY LeaseStep
<1> QED BY <1>1, <1>2, LockInvariant, PTL DEF Spec, Lease!Spec, ImplementsLease
=============================================================================
