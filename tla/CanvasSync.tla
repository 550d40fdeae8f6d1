----------------------------- MODULE CanvasSync -----------------------------
(***************************************************************************)
(* The canvas coordinate sync of one sync key.  A POST claims the          *)
(* canvas_sync_status row and then, outside the transaction that claimed   *)
(* it, places the nodes that have no canvas coordinates, batch by batch,   *)
(* each database statement committing on its own.  A GET marks a sync      *)
(* whose heartbeat is too old as FAILED.  The workers are the gunicorn     *)
(* processes; one that runs a request too long is killed.  Meanwhile users *)
(* PATCH, create and delete nodes.                                         *)
(***************************************************************************)
EXTENDS Naturals, FiniteSets

CONSTANTS
    Workers,        \* gunicorn worker processes
    Nodes,          \* nodes of the project
    Editors,        \* PATCH requests on nodes, one each
    Edits,          \* what they may change: "move", "other"
    BatchSize,      \* nodes per bulk_update (500 in the code)
    WorkerTimeout,  \* clock ticks after which gunicorn kills a request (60 s)
    StaleAfter,     \* clock ticks without heartbeat until stale (10 min)
    RowFirst,       \* TRUE: a POST follows a GET, which made the row
    MayFail,        \* TRUE: a statement of the sync may raise
    MaxMishaps      \* bound on killed and failed requests

ASSUME BatchAssumption == BatchSize \in Nat \ {0}
ASSUME TimeoutAssumption ==
    /\ WorkerTimeout \in Nat /\ StaleAfter \in Nat
    /\ WorkerTimeout <= StaleAfter
ASSUME NodesAssumption == IsFiniteSet(Nodes)
ASSUME SwitchAssumption == RowFirst \in BOOLEAN /\ MayFail \in BOOLEAN
ASSUME MishapAssumption == MaxMishaps \in Nat

VARIABLES
    status, beat, processed,    \* the row: status, age of last_heartbeat,
                                \* nodes_processed
    pos,            \* where a node's canvas coordinates come from
    pc, age,        \* a worker: its step, and the age of its request
    own,            \* the heartbeat age in the worker's copy of the row
    missing, todo,  \* nodes_to_update, and those not written yet
    edit,           \* the PATCH requests
    mishaps

row == <<status, beat, processed>>
sync == <<pc, age, own, missing, todo>>
vars == <<row, pos, sync, edit, mishaps>>

(* Ages above StaleAfter are all the same to the code. *)
Ages == 0..(StaleAfter + 1)
Older(a) == IF a > StaleAfter THEN a ELSE a + 1

Exists == {n \in Nodes : pos[n] \notin {"new", "gone"}}
Missing == {n \in Nodes : pos[n] = "none"}

(* Positions; "new" is a node not created yet, "gone" one deleted. *)
Positions == {"new", "gone", "none", "auto", "user"}

Syncing == {"started", "read", "writing", "written"}
Steps == Syncing \cup {"idle", "inserting", "raised"}
Runs(w) == pc[w] \in Syncing

NoEdit == [node |-> "none", kind |-> "none", copy |-> "none"]
EditRecords == [node : Nodes, kind : Edits, copy : Positions] \cup {NoEdit}

TypeOK ==
    /\ status \in {"ABSENT", "IDLE", "IN_PROGRESS", "COMPLETED", "FAILED"}
    /\ beat \in Ages
    /\ processed \in 0..Cardinality(Nodes)
    /\ pos \in [Nodes -> Positions]
    /\ pc \in [Workers -> Steps]
    /\ age \in [Workers -> 0..WorkerTimeout]
    /\ own \in [Workers -> Ages]
    /\ missing \in [Workers -> SUBSET Nodes]
    /\ todo \in [Workers -> SUBSET Nodes]
    /\ edit \in [Editors -> EditRecords \X {"waiting", "read", "saved"}]
    /\ mishaps \in 0..MaxMishaps

Init ==
    /\ status = "ABSENT" /\ beat = StaleAfter + 1 /\ processed = 0
    /\ pos \in [Nodes -> {"new", "none"}]
    /\ pc = [w \in Workers |-> "idle"]
    /\ age = [w \in Workers |-> 0] /\ own = [w \in Workers |-> 0]
    /\ missing = [w \in Workers |-> {}] /\ todo = [w \in Workers |-> {}]
    /\ edit = [e \in Editors |-> <<NoEdit, "waiting">>]
    /\ mishaps = 0

-----------------------------------------------------------------------------
IsStale == beat > StaleAfter

(* get: cleanup_stale_syncs, then get_or_create.  The counts it returns     *)
(* change nothing.                                                          *)
Get_NoCleanup ==
    /\ status' = IF status = "ABSENT" THEN "IDLE" ELSE status
    /\ UNCHANGED <<beat, processed, pos, sync, edit, mishaps>>

Get_IgnoresHeartbeat ==
    /\ status' = IF status = "ABSENT" THEN "IDLE"
                 ELSE IF status = "IN_PROGRESS" THEN "FAILED" ELSE status
    /\ UNCHANGED <<beat, processed, pos, sync, edit, mishaps>>

Get ==
    /\ status' = IF status = "ABSENT" THEN "IDLE"
                 ELSE IF status = "IN_PROGRESS" /\ IsStale THEN "FAILED"
                 ELSE status
    /\ UNCHANGED <<beat, processed, pos, sync, edit, mishaps>>

(* post, row found under select_for_update: a fresh sync in progress is     *)
(* answered with 409 and changes nothing, otherwise the row is taken over.  *)
Claimable_Always == status # "ABSENT"
Claimable_OnlyIdle == status = "IDLE" \/ (status = "IN_PROGRESS" /\ IsStale)
Claimable == status # "ABSENT" /\ ~(status = "IN_PROGRESS" /\ ~IsStale)

Claim_OldHeartbeat(w) ==
    /\ status' = "IN_PROGRESS" /\ processed' = 0
    /\ pc' = [pc EXCEPT ![w] = "started"]
    /\ own' = [own EXCEPT ![w] = beat]
    /\ UNCHANGED beat

Claim(w) ==
    /\ status' = "IN_PROGRESS" /\ beat' = 0 /\ processed' = 0
    /\ pc' = [pc EXCEPT ![w] = "started"]
    /\ own' = [own EXCEPT ![w] = 0]

TakeOver(w) ==
    /\ pc[w] = "idle"
    /\ Claimable
    /\ Claim(w)
    /\ age' = [age EXCEPT ![w] = 0]
    /\ UNCHANGED <<pos, missing, todo, edit, mishaps>>

(* post, no row found: there is nothing to lock, so the INSERT comes later. *)
FindNoRow(w) ==
    /\ pc[w] = "idle"
    /\ ~RowFirst
    /\ status = "ABSENT"
    /\ pc' = [pc EXCEPT ![w] = "inserting"]
    /\ age' = [age EXCEPT ![w] = 0]
    /\ UNCHANGED <<row, pos, own, missing, todo, edit, mishaps>>

(* The unique sync_key lets one INSERT through; the other one raises.       *)
Insert(w) ==
    /\ pc[w] = "inserting"
    /\ \/ status = "ABSENT" /\ Claim(w)
       \/ /\ status # "ABSENT"
          /\ pc' = [pc EXCEPT ![w] = "raised"]
          /\ UNCHANGED <<row, own>>
    /\ UNCHANGED <<pos, age, missing, todo, edit, mishaps>>

(* sync_status.save(): every column of the worker's copy. *)
SaveRow(w, s) ==
    /\ status' = s
    /\ beat' = own[w]
    /\ processed' = Cardinality(missing[w] \ todo[w])

Finish(w) ==
    /\ pc' = [pc EXCEPT ![w] = "idle"]
    /\ missing' = [missing EXCEPT ![w] = {}]
    /\ todo' = [todo EXCEPT ![w] = {}]
    /\ UNCHANGED <<age, own>>

-----------------------------------------------------------------------------
ReadNodes(w) ==
    /\ pc[w] = "started"
    /\ \/ /\ Exists = {}
          /\ SaveRow(w, "COMPLETED")
          /\ Finish(w)
       \/ /\ Exists # {}
          /\ missing' = [missing EXCEPT ![w] = Missing]
          /\ todo' = [todo EXCEPT ![w] = Missing]
          /\ pc' = [pc EXCEPT ![w] = "read"]
          /\ UNCHANGED <<row, age, own>>
    /\ UNCHANGED <<pos, edit, mishaps>>

(* The bounding box goes into the row; the whole copy is saved. *)
SaveCentre(w) ==
    /\ pc[w] = "read"
    /\ status' = "IN_PROGRESS" /\ beat' = own[w] /\ processed' = 0
    /\ pc' = [pc EXCEPT ![w] = "writing"]
    /\ UNCHANGED <<pos, age, own, missing, todo, edit, mishaps>>

(* bulk_update of the next batch: whatever the nodes hold by now. *)
WriteBatch(w) ==
    /\ pc[w] = "writing"
    /\ todo[w] # {}
    /\ \E batch \in SUBSET todo[w] :
          /\ Cardinality(batch) = IF Cardinality(todo[w]) < BatchSize
                                  THEN Cardinality(todo[w]) ELSE BatchSize
          /\ pos' = [n \in Nodes |-> IF n \in batch \cap Exists
                                     THEN "auto" ELSE pos[n]]
          /\ todo' = [todo EXCEPT ![w] = @ \ batch]
    /\ pc' = [pc EXCEPT ![w] = "written"]
    /\ UNCHANGED <<row, age, own, missing, edit, mishaps>>

(* update_heartbeat saves the one column; nodes_processed stays in memory.  *)
Heartbeat(w) ==
    /\ pc[w] = "written"
    /\ beat' = 0
    /\ own' = [own EXCEPT ![w] = 0]
    /\ pc' = [pc EXCEPT ![w] = "writing"]
    /\ UNCHANGED <<status, processed, pos, age, missing, todo, edit, mishaps>>

Complete(w) ==
    /\ pc[w] = "writing"
    /\ todo[w] = {}
    /\ SaveRow(w, "COMPLETED")
    /\ Finish(w)
    /\ UNCHANGED <<pos, edit, mishaps>>

(* A statement of _perform_sync raises: its except clause saves FAILED and  *)
(* raises again ...                                                         *)
Fail(w) ==
    /\ Runs(w)
    /\ MayFail /\ mishaps < MaxMishaps
    /\ mishaps' = mishaps + 1
    /\ SaveRow(w, "FAILED")
    /\ pc' = [pc EXCEPT ![w] = "raised"]
    /\ UNCHANGED <<pos, age, own, missing, todo, edit>>

(* ... to the except clause of post, which gets the row by its key, whoever *)
(* owns it by now, and saves FAILED once more.                              *)
FailAgain(w) ==
    /\ pc[w] = "raised"
    /\ status' = "FAILED"
    /\ Finish(w)
    /\ UNCHANGED <<beat, processed, pos, edit, mishaps>>

(* gunicorn kills the worker, the host restarts: no except clause runs.     *)
Kill(w) ==
    /\ pc[w] # "idle"
    /\ mishaps < MaxMishaps
    /\ mishaps' = mishaps + 1
    /\ Finish(w)
    /\ UNCHANGED <<row, pos, edit>>

Tick_NoTimeout ==
    /\ beat' = Older(beat)
    /\ own' = [w \in Workers |-> Older(own[w])]
    /\ age' = [w \in Workers |-> IF pc[w] # "idle" THEN age[w] + 1 ELSE age[w]]
    /\ UNCHANGED <<status, processed, pos, pc, missing, todo, edit, mishaps>>

(* No request outlives WorkerTimeout. *)
Tick ==
    /\ \A w \in Workers : pc[w] # "idle" => age[w] < WorkerTimeout
    /\ beat' = Older(beat)
    /\ own' = [w \in Workers |-> Older(own[w])]
    /\ age' = [w \in Workers |-> IF pc[w] # "idle" THEN age[w] + 1 ELSE age[w]]
    /\ UNCHANGED <<status, processed, pos, pc, missing, todo, edit, mishaps>>

-----------------------------------------------------------------------------
(* PATCH of a node: get_object ... *)
EditRead(e) ==
    /\ edit[e][2] = "waiting"
    /\ \E n \in Exists, k \in Edits :
          edit' = [edit EXCEPT ![e] =
                      <<[node |-> n, kind |-> k, copy |-> pos[n]], "read">>]
    /\ UNCHANGED <<row, pos, sync, mishaps>>

(* ... then save() of the whole row, which inserts it again if it is gone.  *)
EditSave(e) ==
    /\ edit[e][2] = "read"
    /\ LET r == edit[e][1]
       IN  pos' = [pos EXCEPT ![r.node] =
                      IF r.kind = "move" THEN "user" ELSE r.copy]
    /\ edit' = [edit EXCEPT ![e] = <<NoEdit, "saved">>]
    /\ UNCHANGED <<row, sync, mishaps>>

CreateNode(n) ==
    /\ pos[n] = "new"
    /\ pos' = [pos EXCEPT ![n] = "none"]
    /\ UNCHANGED <<row, sync, edit, mishaps>>

DeleteNode(n) ==
    /\ n \in Exists
    /\ pos' = [pos EXCEPT ![n] = "gone"]
    /\ UNCHANGED <<row, sync, edit, mishaps>>

-----------------------------------------------------------------------------
(* What a worker does on its own once it has a POST to answer. *)
Work(w) == \/ Insert(w) \/ ReadNodes(w) \/ SaveCentre(w) \/ WriteBatch(w)
           \/ Heartbeat(w) \/ Complete(w) \/ FailAgain(w)

Next ==
    \/ Get
    \/ Tick
    \/ \E w \in Workers : \/ TakeOver(w) \/ FindNoRow(w)
                          \/ Work(w) \/ Fail(w) \/ Kill(w)
    \/ \E e \in Editors : EditRead(e) \/ EditSave(e)
    \/ \E n \in Nodes : CreateNode(n) \/ DeleteNode(n)

Spec == Init /\ [][Next]_vars

(* Time passes, a worker carries on, and the schema page is opened again    *)
(* and again: it asks GET and, while nodes are missing, POSTs.              *)
Fairness ==
    /\ WF_vars(Tick)
    /\ WF_vars(Get)
    /\ WF_vars(Missing # {} /\ \E w \in Workers : TakeOver(w))
    /\ \A w \in Workers : WF_vars(Work(w))

FairSpec == Spec /\ Fairness

-----------------------------------------------------------------------------
(* CanvasSyncStatus: "Ensures only one sync operation runs per project/flag *)
(* combination at a time", although the row lock is released before the     *)
(* sync starts and a stale sync may be taken over.                          *)
OneSync == \A v, w \in Workers : Runs(v) /\ Runs(w) => v = w

(* Other pages are told of a running sync for as long as it runs: the row   *)
(* says IN_PROGRESS and does not look stale.                                *)
RunningIsShown ==
    \A w \in Workers : Runs(w) => status = "IN_PROGRESS" /\ ~IsStale

(* The row is a lease: it changes hands only when nobody holds it, and a    *)
(* page asks it away only from the dead, though neither a POST nor a GET    *)
(* can see the workers and both judge by the heartbeat.                     *)
Lease == INSTANCE SyncLease WITH holders <- {w \in Workers : Runs(w)},
                                 shown <- (status = "IN_PROGRESS")
ImplementsLease == Lease!Spec

(* A sync whose worker died is not shown as running for ever: pages wait    *)
(* for a running sync and do not start another.                             *)
NobodyRuns == \A w \in Workers : ~Runs(w)
DeadSyncIsReclaimed ==
    [](status = "IN_PROGRESS" /\ NobodyRuns
          => <>(status # "IN_PROGRESS" \/ ~NobodyRuns))

(* In the end every node has coordinates and keeps them, whatever syncs     *)
(* died, failed or were overtaken by stale PATCH requests.                  *)
AllPlaced == <>[](Missing = {})
=============================================================================
