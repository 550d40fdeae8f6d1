--------------------------- MODULE NodeStructures ---------------------------
(***************************************************************************)
(* Structures in the slots of a node: the rows the server keeps and what a *)
(* user's page shows of them.                                              *)
(*                                                                         *)
(* The page (NodeStructureManager) checks a placement against the list it  *)
(* shows, changes the list at once, sends the request and, when it fails,  *)
(* takes the change back.  The server checks a move and each structure of  *)
(* a bulk creation against the rows it has read; a plain POST it does not  *)
(* check for overlaps at all.  No check and write are one transaction.     *)
(***************************************************************************)
EXTENDS Naturals, FiniteSets

CONSTANTS
    Ids,            \* structures that exist at first or may be created
    Configs,        \* the slot configurations of the node
    ConfigOf,       \* the slot configuration of a structure
    Slots,          \* the slots of each configuration
    RowsAtFirst,    \* the rows when a behaviour begins
    Users, Ops,     \* the users, and operations that may be open together
    None,           \* no row, no operation
    MaxOps          \* bound on the operations of a behaviour

Ranges == {w \in (1 .. Slots) \X (1 .. Slots) : w[1] <= w[2]}
Places == [Ids -> Ranges \cup {None}]
Disjoint(v, w) == v[2] < w[1] \/ w[2] < v[1]
Clashing(R) ==
    {p \in Ids \X Ids : /\ p[1] # p[2] /\ ConfigOf[p[1]] = ConfigOf[p[2]]
                        /\ R[p[1]] # None /\ R[p[2]] # None
                        /\ ~Disjoint(R[p[1]], R[p[2]])}

ASSUME ConstantsAssumption ==
    /\ Slots \in Nat /\ MaxOps \in Nat
    /\ ConfigOf \in [Ids -> Configs]
    /\ None \notin Ranges
    /\ RowsAtFirst \in Places
    /\ Clashing(RowsAtFirst) = {}

VARIABLES
    rows,       \* node_structure: the slots of each structure, or None
    used,       \* the structures that existed at some time
    sel,        \* the configuration a user has selected
    version,    \* fetchVersion of a user's page
    shown,      \* the list a user's page shows
    temp,       \* the entries of it that wait for their creation
    op,         \* the operations that are open
    blind,      \* history: structures last placed without a look at all the others
    torn,       \* history: users whose list another's write or a mixed-up answer spoiled
    sent        \* the bound's counter

vars == <<rows, used, sel, version, shown, temp, op, blind, torn, sent>>
page == <<sel, version, shown, temp>>

Kinds == {"create", "bulk", "move", "remove", "fetch"}
Operation ==
    [kind : Kinds, user : Users, phase : {"sent", "checked", "ok", "failed"},
     todo : SUBSET Ids, plan : Places, done : SUBSET Ids, seen : Places,
     before : Places, beforeTemp : SUBSET Ids, config : Configs, version : Nat,
     mixed : BOOLEAN]

ASSUME NoneAssumption == None \notin Operation

Open(o) == op[o] # None
OpenOf(u) == {o \in Ops : Open(o) /\ op[o].user = u}
Writes(k) == k # "fetch"

\* The slots w are free for structure i, in the list or the rows R.
Free(R, i, w) ==
    \A j \in Ids \ {i} : R[j] # None /\ ConfigOf[j] = ConfigOf[i] => Disjoint(R[j], w)

\* What the page looks at: everything in its list, which for a while may be
\* the list of the configuration selected before.
Unoccupied(L, i, w) == \A j \in Ids \ {i} : L[j] # None => Disjoint(L[j], w)

OfConfig(R, k) == [i \in Ids |-> IF ConfigOf[i] = k THEN R[i] ELSE None]
Put(R, P, I) == [i \in Ids |-> IF i \in I THEN P[i] ELSE R[i]]
Nowhere == [i \in Ids |-> None]
Width(w) == w[2] - w[1] + 1
-----------------------------------------------------------------------------
\* The page sends a request.  (An operation is mixed when another one of its
\* user that writes is open at some time while it is.)
Send(o, u, kind, I, plan) ==
    LET others == {q \in OpenOf(u) : Writes(op[q].kind)}
    IN  /\ sent' = sent + 1
        /\ op' = [q \in Ops |->
               IF q = o
               THEN [kind |-> kind, user |-> u, phase |-> "sent", todo |-> I, plan |-> plan,
                     done |-> {}, seen |-> IF kind = "create" THEN shown[u] ELSE Nowhere,
                     before |-> shown[u], beforeTemp |-> temp[u], config |-> sel'[u],
                     version |-> version'[u], mixed |-> others # {}]
               ELSE IF q \in OpenOf(u) /\ Writes(kind) THEN [op[q] EXCEPT !.mixed = TRUE]
               ELSE op[q]]
        /\ torn' = IF Writes(kind) /\ \E q \in others : op[q].todo \cap I # {}
                   THEN torn \cup {u} ELSE torn
        /\ UNCHANGED <<rows, blind>>

Show(u, I, plan) == shown' = [shown EXCEPT ![u] = Put(shown[u], plan, I)]

\* createStructure: checked against the list, and shown at once.
CreateStructure(o, u, i, w) ==
    /\ i \notin used /\ ConfigOf[i] = sel[u]
    /\ Unoccupied(shown[u], i, w)
    /\ used' = used \cup {i}
    /\ Show(u, {i}, [Nowhere EXCEPT ![i] = w])
    /\ temp' = [temp EXCEPT ![u] = temp[u] \cup {i}]
    /\ UNCHANGED <<sel, version>>
    /\ Send(o, u, "create", {i}, [Nowhere EXCEPT ![i] = w])

\* createMultipleStructures: two of one width, one after the other.
CreateMultiple(o, u, i, j, v, w) ==
    LET plan == [Nowhere EXCEPT ![i] = v, ![j] = w]
    IN  /\ i # j /\ {i, j} \cap used = {} /\ ConfigOf[i] = sel[u] /\ ConfigOf[j] = sel[u]
        /\ Width(v) = Width(w) /\ w[1] = v[2] + 1
        /\ Unoccupied(shown[u], i, v) /\ Unoccupied(shown[u], j, w)
        /\ used' = used \cup {i, j}
        /\ Show(u, {i, j}, plan)
        /\ temp' = [temp EXCEPT ![u] = temp[u] \cup {i, j}]
        /\ UNCHANGED <<sel, version>>
        /\ Send(o, u, "bulk", {i, j}, plan)

\* A mutant: newSlotEnd is one slot too far.
MoveStructure_OneTooFar(o, u, i, w) ==
    /\ shown[u][i] # None
    /\ Width(w) = Width(shown[u][i])
    /\ Unoccupied(shown[u], i, w)
    /\ Show(u, {i}, [Nowhere EXCEPT ![i] = <<w[1], w[2] + 1>>])
    /\ UNCHANGED <<used, sel, version, temp>>
    /\ Send(o, u, "move", {i} \ temp[u], [Nowhere EXCEPT ![i] = <<w[1], w[2] + 1>>])

\* moveStructure.  An entry that waits for its creation can be taken too:
\* its temporary uuid is the uuid of no row.
MoveStructure(o, u, i, w) ==
    /\ shown[u][i] # None
    /\ Width(w) = Width(shown[u][i])
    /\ Unoccupied(shown[u], i, w)
    /\ Show(u, {i}, [Nowhere EXCEPT ![i] = w])
    /\ UNCHANGED <<used, sel, version, temp>>
    /\ Send(o, u, "move", {i} \ temp[u], [Nowhere EXCEPT ![i] = w])

\* deleteStructure.
DeleteStructure(o, u, i) ==
    /\ shown[u][i] # None
    /\ Show(u, {i}, Nowhere)
    /\ temp' = [temp EXCEPT ![u] = temp[u] \ {i}]
    /\ UNCHANGED <<used, sel, version>>
    /\ Send(o, u, "remove", {i} \ temp[u], Nowhere)

\* selectSlotConfig and the fetchStructures that follows; k may be the
\* configuration that is selected, then only the list is fetched again.
SelectSlotConfig(o, u, k) ==
    /\ sel' = [sel EXCEPT ![u] = k]
    /\ version' = [version EXCEPT ![u] = IF k = sel[u] THEN version[u] ELSE version[u] + 1]
    /\ UNCHANGED <<used, shown, temp>>
    /\ Send(o, u, "fetch", {}, Nowhere)
-----------------------------------------------------------------------------
\* The unique constraint: one structure per configuration and range.
Taken(i, w) == \E j \in Ids \ {i} : rows[j] = w /\ ConfigOf[j] = ConfigOf[i]

\* Operation o writes structure i to w, having looked at seen.
Write(o, i, w, seen) ==
    /\ rows' = [rows EXCEPT ![i] = w]
    /\ blind' = IF \A j \in Ids \ {i} : rows[j] # None /\ ConfigOf[j] = ConfigOf[i]
                                            => seen[j] = rows[j]
                THEN blind \ {i} ELSE blind \cup {i}
    /\ torn' = torn \cup (Users \ {op[o].user})

Set(o, r) == op' = [op EXCEPT ![o] = r]
Fail(o) ==
    /\ Set(o, [op[o] EXCEPT !.phase = "failed"])
    /\ UNCHANGED <<rows, blind, torn>>
Rest == UNCHANGED <<used, sel, version, shown, temp, sent>>
Sent(o, kind) == Open(o) /\ op[o].kind = kind /\ op[o].phase = "sent"
Checked(o, kind) == Open(o) /\ op[o].kind = kind /\ op[o].phase = "checked"

\* POST: no look at the other rows; only the unique constraint refuses.
Create(o) ==
    /\ Sent(o, "create")
    /\ \E i \in op[o].todo :
           IF Taken(i, op[o].plan[i]) THEN Fail(o)
           ELSE /\ Write(o, i, op[o].plan[i], op[o].seen)
                /\ Set(o, [op[o] EXCEPT !.phase = "ok"])
    /\ Rest

\* bulk_create reads the occupied slots once ...
ReadOccupied(o) ==
    /\ Sent(o, "bulk")
    /\ Set(o, [op[o] EXCEPT !.phase = "checked", !.seen = rows])
    /\ UNCHANGED <<rows, blind, torn>> /\ Rest

\* ... and creates the structures in order, each checked against the slots
\* read and those it has filled itself; an IntegrityError ends the request.
CreateNext(o) ==
    LET r == op[o]
    IN  /\ Checked(o, "bulk")
        /\ \E i \in r.todo :
             /\ \A j \in r.todo : r.plan[i][1] <= r.plan[j][1]
             /\ IF ~Free(r.seen, i, r.plan[i])
                THEN /\ Set(o, [r EXCEPT !.todo = r.todo \ {i}])
                     /\ UNCHANGED <<rows, blind, torn>>
                ELSE IF Taken(i, r.plan[i]) THEN Fail(o)
                ELSE /\ Write(o, i, r.plan[i], r.seen)
                     /\ Set(o, [r EXCEPT !.todo = r.todo \ {i}, !.done = r.done \cup {i},
                                         !.seen = [r.seen EXCEPT ![i] = r.plan[i]]])
        /\ Rest

AllCreated(o) ==
    /\ Checked(o, "bulk") /\ op[o].todo = {}
    /\ Set(o, [op[o] EXCEPT !.phase = IF op[o].done = {} THEN "failed" ELSE "ok"])
    /\ UNCHANGED <<rows, blind, torn>> /\ Rest

\* A mutant: slot_end__gt in place of slot_end__gte.
CheckMove_LastSlotFree(o) ==
    /\ Sent(o, "move")
    /\ IF \E i \in op[o].todo :
             rows[i] # None /\ \A j \in Ids \ {i} :
                rows[j] # None /\ ConfigOf[j] = ConfigOf[i] =>
                    op[o].plan[i][2] < rows[j][1] \/ rows[j][2] <= op[o].plan[i][1]
       THEN /\ Set(o, [op[o] EXCEPT !.phase = "checked", !.seen = rows])
            /\ UNCHANGED <<rows, blind, torn>>
       ELSE Fail(o)
    /\ Rest

\* move: 404 without the row; else the overlap with the other rows.
CheckMove(o) ==
    /\ Sent(o, "move")
    /\ IF \E i \in op[o].todo : rows[i] # None /\ Free(rows, i, op[o].plan[i])
       THEN /\ Set(o, [op[o] EXCEPT !.phase = "checked", !.seen = rows])
            /\ UNCHANGED <<rows, blind, torn>>
       ELSE Fail(o)
    /\ Rest

\* The save after it; it inserts the row again when it was deleted.
SaveMove(o) ==
    /\ Checked(o, "move")
    /\ \E i \in op[o].todo :
           IF Taken(i, op[o].plan[i]) THEN Fail(o)
           ELSE /\ Write(o, i, op[o].plan[i], op[o].seen)
                /\ Set(o, [op[o] EXCEPT !.phase = "ok"])
    /\ Rest

Destroy(o) ==
    /\ Sent(o, "remove")
    /\ IF \A i \in op[o].todo : rows[i] = None THEN Fail(o)
       ELSE /\ rows' = Put(rows, Nowhere, op[o].todo)
            /\ blind' = blind \ op[o].todo
            /\ torn' = torn \cup (Users \ {op[o].user})
            /\ Set(o, [op[o] EXCEPT !.phase = "ok"])
    /\ Rest

\* GET of the structures of the configuration.
ReadRows(o) ==
    /\ Sent(o, "fetch")
    /\ Set(o, [op[o] EXCEPT !.phase = "ok", !.seen = OfConfig(rows, op[o].config)])
    /\ UNCHANGED <<rows, blind, torn>> /\ Rest

\* The request or its answer is lost: an error for the page, whatever was
\* written.
Lose(o) ==
    /\ Open(o) /\ op[o].phase # "failed"
    /\ Set(o, [op[o] EXCEPT !.phase = "failed"])
    /\ torn' = IF op[o].phase # "sent" THEN torn \cup {op[o].user} ELSE torn
    /\ UNCHANGED <<rows, blind>> /\ Rest
-----------------------------------------------------------------------------
\* The page gets the answer of o.
Close(o, tears) ==
    /\ op' = [op EXCEPT ![o] = None]
    /\ torn' = IF tears THEN torn \cup {op[o].user} ELSE torn
    /\ UNCHANGED <<rows, used, sel, version, blind, sent>>

Ends(o, kinds, phase) == Open(o) /\ op[o].kind \in kinds /\ op[o].phase = phase

\* The temporary entry becomes the structure, if it is still in the list.
Created(o) ==
    LET u == op[o].user
    IN  /\ Ends(o, {"create"}, "ok")
        /\ temp' = [temp EXCEPT ![u] = temp[u] \ op[o].todo]
        /\ Show(u, temp[u] \cap op[o].todo, op[o].plan)
        /\ Close(o, FALSE)

NotCreated(o) ==
    LET u == op[o].user
        gone == temp[u] \cap op[o].todo
    IN  /\ Ends(o, {"create"}, "failed")
        /\ temp' = [temp EXCEPT ![u] = temp[u] \ gone]
        /\ Show(u, gone, Nowhere)
        /\ Close(o, FALSE)

\* Every temporary entry goes, also one of another creation, and the
\* structures created come in.
CreatedMultiple(o) ==
    LET u == op[o].user
    IN  /\ Ends(o, {"bulk"}, "ok")
        /\ temp' = [temp EXCEPT ![u] = {}]
        /\ shown' = [shown EXCEPT ![u] = Put(Put(shown[u], Nowhere, temp[u]), op[o].plan, op[o].done)]
        /\ Close(o, op[o].mixed \/ version[u] # op[o].version)

NotCreatedMultiple(o) ==
    LET u == op[o].user
    IN  /\ Ends(o, {"bulk"}, "failed")
        /\ temp' = [temp EXCEPT ![u] = {}]
        /\ Show(u, temp[u], Nowhere)
        /\ Close(o, op[o].mixed \/ op[o].done # {})

\* A structure moved shows where the server put it, if it is in the list.
Moved(o) ==
    LET u == op[o].user
        here == {i \in op[o].todo : shown[u][i] # None}
    IN  /\ Ends(o, {"move"}, "ok")
        /\ Show(u, here, op[o].plan)
        /\ UNCHANGED temp
        /\ Close(o, FALSE)

Removed(o) ==
    /\ Ends(o, {"remove"}, "ok")
    /\ UNCHANGED <<shown, temp>>
    /\ Close(o, FALSE)

\* The list as it was before the move or the deletion, whatever came since.
RolledBack(o) ==
    LET u == op[o].user
    IN  /\ Ends(o, {"move", "remove"}, "failed")
        /\ shown' = [shown EXCEPT ![u] = op[o].before]
        /\ temp' = [temp EXCEPT ![u] = op[o].beforeTemp]
        /\ Close(o, op[o].mixed \/ version[u] # op[o].version)

\* A mutant: the answer is taken whatever was selected since.
Fetched_AnyVersion(o) ==
    LET u == op[o].user
        list == IF op[o].phase = "ok" THEN op[o].seen ELSE Nowhere
    IN  /\ Ends(o, {"fetch"}, "ok") \/ Ends(o, {"fetch"}, "failed")
        /\ shown' = [shown EXCEPT ![u] = list]
        /\ temp' = [temp EXCEPT ![u] = {}]
        /\ op' = [op EXCEPT ![o] = None]
        /\ torn' = IF list = OfConfig(rows, op[o].config) /\ ~op[o].mixed THEN torn \ {u}
                   ELSE torn \cup {u}
        /\ UNCHANGED <<rows, used, sel, version, blind, sent>>

\* A list fetched is ignored when another configuration was selected since.
\* It is a true one when nobody wrote since it was read and no operation of
\* the user was under way.
Fetched(o) ==
    LET u == op[o].user
        current == version[u] = op[o].version
        list == IF op[o].phase = "ok" THEN op[o].seen ELSE Nowhere
    IN  /\ Ends(o, {"fetch"}, "ok") \/ Ends(o, {"fetch"}, "failed")
        /\ shown' = IF current THEN [shown EXCEPT ![u] = list] ELSE shown
        /\ temp' = IF current THEN [temp EXCEPT ![u] = {}] ELSE temp
        /\ op' = [op EXCEPT ![o] = None]
        /\ torn' = IF ~current THEN torn
                   ELSE IF list = OfConfig(rows, op[o].config) /\ ~op[o].mixed THEN torn \ {u}
                   ELSE torn \cup {u}
        /\ UNCHANGED <<rows, used, sel, version, blind, sent>>

Init ==
    /\ rows = RowsAtFirst
    /\ used = {i \in Ids : rows[i] # None}
    /\ sel \in [Users -> Configs]
    /\ version = [u \in Users |-> 0]
    /\ shown = [u \in Users |-> OfConfig(rows, sel[u])]
    /\ temp = [u \in Users |-> {}]
    /\ op = [o \in Ops |-> None]
    /\ blind = {} /\ torn = {} /\ sent = 0

Act(o, u) ==
    /\ op[o] = None /\ sent < MaxOps
    /\ \/ \E i \in Ids, w \in Ranges : CreateStructure(o, u, i, w) \/ MoveStructure(o, u, i, w)
       \/ \E i, j \in Ids \ used, v, w \in Ranges : CreateMultiple(o, u, i, j, v, w)
       \/ \E i \in Ids : DeleteStructure(o, u, i)
       \/ \E k \in Configs : SelectSlotConfig(o, u, k)

Serve(o) ==
    \/ Create(o) \/ ReadOccupied(o) \/ CreateNext(o) \/ AllCreated(o)
    \/ CheckMove(o) \/ SaveMove(o) \/ Destroy(o) \/ ReadRows(o) \/ Lose(o)

Receive(o) ==
    \/ Created(o) \/ NotCreated(o) \/ CreatedMultiple(o) \/ NotCreatedMultiple(o)
    \/ Moved(o) \/ Removed(o) \/ RolledBack(o) \/ Fetched(o)

Next == \E o \in Ops : (\E u \in Users : Act(o, u)) \/ Serve(o) \/ Receive(o)

Spec == Init /\ [][Next]_vars
-----------------------------------------------------------------------------
TypeOK ==
    /\ rows \in Places
    /\ used \subseteq Ids
    /\ sel \in [Users -> Configs]
    /\ version \in [Users -> Nat]
    /\ shown \in [Users -> Places]
    /\ temp \in [Users -> SUBSET Ids]
    /\ op \in [Ops -> Operation \cup {None}]
    /\ blind \subseteq Ids /\ torn \subseteq Users
    /\ sent \in Nat

\* Two structures of one configuration share a slot only when one of them
\* was placed by an operation that had not seen where another one was: a
\* page with an old list, or a check that another write came after (views.py,
\* move and bulk_create; NodeStructureManager, createStructure).
OverlapNeedsBlindness ==
    \A p \in Clashing(rows) : p[1] \in blind \/ p[2] \in blind

\* When a user's operations have all been answered, the page shows the rows
\* of the selected configuration, unless someone else wrote, an answer was
\* lost, or a failed or a bulk operation overlapped another one: successes
\* in any order, and any single failure, leave the list right
\* (NodeStructureManager, fetchVersion and the roll-backs).
ShownIsStored ==
    \A u \in Users : u \notin torn /\ OpenOf(u) = {} =>
        shown[u] = OfConfig(rows, sel[u]) /\ temp[u] = {}
=============================================================================
