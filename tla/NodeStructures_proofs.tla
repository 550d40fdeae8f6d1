----------------------- MODULE NodeStructures_proofs -----------------------
(***************************************************************************)
(* Proofs about NodeStructures, for any number of users, structures,       *)
(* configurations, slots and open operations: its type, that two           *)
(* structures overlap only after an operation that had not seen the other, *)
(* and that a page nobody spoiled ends up showing the rows.                *)
(***************************************************************************)
EXTENDS NodeStructures, TLAPS

(* The lists the page and the server work with are lists of places. *)
LEMMA ListTypes ==
    /\ Nowhere \in Places
    /\ \A i \in Ids, w \in Ranges : [Nowhere EXCEPT ![i] = w] \in Places
    /\ \A i, j \in Ids, v, w \in Ranges : [Nowhere EXCEPT ![i] = v, ![j] = w] \in Places
    /\ \A R, P \in Places, I \in SUBSET Ids : Put(R, P, I) \in Places
    /\ \A R \in Places, k \in Configs : OfConfig(R, k) \in Places
BY DEF Nowhere, Places, Put, OfConfig

(* An open operation is a record. *)
LEMMA OpenType ==
    ASSUME TypeOK, NEW o \in Ops, Open(o) PROVE op[o] \in Operation
BY DEF TypeOK, Open

(* A list with new places is a list. *)
LEMMA ShowType ==
    ASSUME TypeOK, NEW u \in Users, NEW I \in SUBSET Ids, NEW P \in Places, Show(u, I, P)
    PROVE  shown' \in [Users -> Places]
<1>1. Put(shown[u], P, I) \in Places
    BY ListTypes DEF TypeOK
<1> QED BY <1>1 DEF Show, TypeOK

(* What sending a request does to the operations. *)
LEMMA SendType ==
    ASSUME TypeOK, NEW o \in Ops, NEW u \in Users, NEW kind \in Kinds, NEW I \in SUBSET Ids,
           NEW P \in Places, sel' \in [Users -> Configs], version' \in [Users -> Nat],
           Send(o, u, kind, I, P)
    PROVE  /\ op' \in [Ops -> Operation \cup {None}]
           /\ torn' \subseteq Users /\ sent' \in Nat
           /\ rows' = rows /\ blind' = blind
<1>1. [kind |-> kind, user |-> u, phase |-> "sent", todo |-> I, plan |-> P,
       done |-> {}, seen |-> IF kind = "create" THEN shown[u] ELSE Nowhere,
       before |-> shown[u], beforeTemp |-> temp[u], config |-> sel'[u],
       version |-> version'[u], mixed |-> {q \in OpenOf(u) : Writes(op[q].kind)} # {}]
         \in Operation
    BY ListTypes DEF TypeOK, Operation
<1>2. \A q \in OpenOf(u) : [op[q] EXCEPT !.mixed = TRUE] \in Operation
    <2> TAKE q \in OpenOf(u)
    <2>1. op[q] \in Operation
        BY OpenType DEF OpenOf
    <2> QED BY <2>1 DEF Operation
<1>3. op' \in [Ops -> Operation \cup {None}]
    BY <1>1, <1>2 DEF Send, TypeOK
<1> QED BY <1>3 DEF Send, TypeOK

(* The typed facts a send and the page's own change leave to check. *)
LEMMA ActType ==
    ASSUME TypeOK, NEW o \in Ops, NEW u \in Users, NEW kind \in Kinds, NEW I \in SUBSET Ids,
           NEW P \in Places, sel' \in [Users -> Configs], version' \in [Users -> Nat],
           shown' \in [Users -> Places], temp' \in [Users -> SUBSET Ids], used' \subseteq Ids,
           Send(o, u, kind, I, P)
    PROVE  TypeOK'
BY SendType DEF TypeOK

(* A user's operation keeps the types. *)
LEMMA ActsType ==
    ASSUME TypeOK, NEW o \in Ops, NEW u \in Users, Act(o, u) PROVE TypeOK'
<1>1. ASSUME NEW i \in Ids, NEW w \in Ranges, CreateStructure(o, u, i, w) PROVE TypeOK'
    <2>1. [Nowhere EXCEPT ![i] = w] \in Places /\ "create" \in Kinds
        BY ListTypes DEF Kinds
    <2>2. shown' \in [Users -> Places]
        BY <1>1, <2>1, ShowType DEF CreateStructure
    <2> QED BY <1>1, <2>1, <2>2, ActType DEF CreateStructure, TypeOK
<1>2. ASSUME NEW i \in Ids, NEW w \in Ranges, MoveStructure(o, u, i, w) PROVE TypeOK'
    <2>1. [Nowhere EXCEPT ![i] = w] \in Places /\ "move" \in Kinds
        BY ListTypes DEF Kinds
    <2>2. shown' \in [Users -> Places]
        BY <1>2, <2>1, ShowType DEF MoveStructure
    <2> QED BY <1>2, <2>1, <2>2, ActType DEF MoveStructure, TypeOK
<1>3. ASSUME NEW i \in Ids, NEW j \in Ids, NEW v \in Ranges, NEW w \in Ranges,
             CreateMultiple(o, u, i, j, v, w)
      PROVE  TypeOK'
    <2> DEFINE P == [Nowhere EXCEPT ![i] = v, ![j] = w]
    <2>1. P \in Places /\ "bulk" \in Kinds
        BY ListTypes DEF Kinds
    <2>2. Show(u, {i, j}, P) /\ Send(o, u, "bulk", {i, j}, P)
        BY <1>3 DEF CreateMultiple
    <2>4. /\ sel' \in [Users -> Configs] /\ version' \in [Users -> Nat]
          /\ temp' \in [Users -> SUBSET Ids] /\ used' \subseteq Ids
        BY <1>3 DEF CreateMultiple, TypeOK
    <2> HIDE DEF P
    <2>3. shown' \in [Users -> Places]
        BY <2>1, <2>2, ShowType
    <2> QED BY <2>1, <2>2, <2>3, <2>4, ActType
<1>4. ASSUME NEW i \in Ids, DeleteStructure(o, u, i) PROVE TypeOK'
    <2>1. Nowhere \in Places /\ "remove" \in Kinds
        BY ListTypes DEF Kinds
    <2>2. shown' \in [Users -> Places]
        BY <1>4, <2>1, ShowType DEF DeleteStructure
    <2> QED BY <1>4, <2>1, <2>2, ActType DEF DeleteStructure, TypeOK
<1>5. ASSUME NEW k \in Configs, SelectSlotConfig(o, u, k) PROVE TypeOK'
    <2>1. Nowhere \in Places /\ "fetch" \in Kinds
        BY ListTypes DEF Kinds
    <2>2. sel' \in [Users -> Configs]
        BY <1>5 DEF SelectSlotConfig, TypeOK
    <2>3. version[u] \in Nat /\ version[u] + 1 \in Nat
        BY DEF TypeOK
    <2>4. version' \in [Users -> Nat]
        BY <1>5, <2>3 DEF SelectSlotConfig, TypeOK
    <2> QED BY <1>5, <2>1, <2>2, <2>4, ActType DEF SelectSlotConfig, TypeOK
<1> QED BY <1>1, <1>2, <1>3, <1>4, <1>5 DEF Act
-----------------------------------------------------------------------------
(* Replacing an operation by a record keeps their type. *)
LEMMA SetType ==
    ASSUME TypeOK, NEW o \in Ops, NEW r \in Operation, Set(o, r)
    PROVE  op' \in [Ops -> Operation \cup {None}]
BY DEF Set, TypeOK

(* Another phase, or another list seen, keeps the type of an operation. *)
LEMMA PhaseType ==
    ASSUME NEW r \in Operation, NEW p \in {"sent", "checked", "ok", "failed"}, NEW R \in Places
    PROVE  /\ [r EXCEPT !.phase = p] \in Operation
           /\ [r EXCEPT !.phase = p, !.seen = R] \in Operation
BY DEF Operation

(* A request that fails keeps the types. *)
LEMMA FailType ==
    ASSUME TypeOK, NEW o \in Ops, Open(o), Fail(o), Rest PROVE TypeOK'
<1>1. op[o] \in Operation
    BY OpenType
<1>2. [op[o] EXCEPT !.phase = "failed"] \in Operation
    BY <1>1 DEF Operation
<1> QED BY <1>2, SetType DEF Fail, Rest, TypeOK

(* A write keeps the types. *)
LEMMA WriteType ==
    ASSUME TypeOK, NEW o \in Ops, NEW i \in Ids, NEW r \in Operation,
           Write(o, i, op[o].plan[i], op[o].seen), Open(o), Set(o, r), Rest
    PROVE  TypeOK'
<1>1. op[o] \in Operation
    BY OpenType
<1>2. op[o].plan[i] \in Ranges \cup {None} /\ op[o].user \in Users
    BY <1>1 DEF Operation, Places
<1>3. rows' \in Places /\ blind' \subseteq Ids /\ torn' \subseteq Users
    BY <1>2 DEF Write, TypeOK, Places
<1> QED BY <1>3, SetType DEF Rest, TypeOK

(* A step of the server keeps the types. *)
LEMMA ServesType ==
    ASSUME TypeOK, NEW o \in Ops, Serve(o) PROVE TypeOK'
<1>0. Open(o) /\ op[o] \in Operation
    <2>1. Open(o)
        BY DEF Serve, Create, ReadOccupied, CreateNext, AllCreated, CheckMove, SaveMove, Destroy,
               ReadRows, Lose, Sent, Checked
    <2> QED BY <2>1, OpenType
<1>00. /\ [op[o] EXCEPT !.phase = "ok"] \in Operation
       /\ [op[o] EXCEPT !.phase = "failed"] \in Operation
       /\ [op[o] EXCEPT !.phase = "checked", !.seen = rows] \in Operation
    BY <1>0, PhaseType DEF TypeOK
<1>1. CASE Create(o)
    <2>1. Rest
        BY <1>1 DEF Create
    <2>2. PICK i \in op[o].todo :
              \/ Fail(o)
              \/ /\ Write(o, i, op[o].plan[i], op[o].seen)
                 /\ Set(o, [op[o] EXCEPT !.phase = "ok"])
        BY <1>1 DEF Create
    <2>3. i \in Ids
        BY <1>0, <2>2 DEF Operation
    <2> QED BY <1>0, <1>00, <2>1, <2>2, <2>3, FailType, WriteType
<1>2. CASE ReadOccupied(o)
    BY <1>2, <1>00, SetType DEF ReadOccupied, Rest, TypeOK
<1>3. CASE CreateNext(o)
    <2>1. Rest
        BY <1>3 DEF CreateNext
    <2>2. PICK i \in op[o].todo :
              \/ /\ Set(o, [op[o] EXCEPT !.todo = op[o].todo \ {i}])
                 /\ UNCHANGED <<rows, blind, torn>>
              \/ Fail(o)
              \/ /\ Write(o, i, op[o].plan[i], op[o].seen)
                 /\ Set(o, [op[o] EXCEPT !.todo = op[o].todo \ {i}, !.done = op[o].done \cup {i},
                                         !.seen = [op[o].seen EXCEPT ![i] = op[o].plan[i]]])
        BY <1>3 DEF CreateNext
    <2>3. i \in Ids /\ [op[o].seen EXCEPT ![i] = op[o].plan[i]] \in Places
        BY <1>0, <2>2 DEF Operation, Places
    <2>4. /\ [op[o] EXCEPT !.todo = op[o].todo \ {i}] \in Operation
          /\ [op[o] EXCEPT !.todo = op[o].todo \ {i}, !.done = op[o].done \cup {i},
                           !.seen = [op[o].seen EXCEPT ![i] = op[o].plan[i]]] \in Operation
        BY <1>0, <2>2, <2>3 DEF Operation
    <2>5. CASE Set(o, [op[o] EXCEPT !.todo = op[o].todo \ {i}]) /\ UNCHANGED <<rows, blind, torn>>
        BY <2>1, <2>4, <2>5, SetType DEF Rest, TypeOK
    <2> QED BY <1>0, <2>1, <2>2, <2>3, <2>4, <2>5, FailType, WriteType
<1>4. CASE AllCreated(o)
    BY <1>4, <1>00, SetType DEF AllCreated, Rest, TypeOK
<1>5. CASE CheckMove(o)
    <2>1. CASE Fail(o)
        BY <1>0, <1>5, <2>1, FailType DEF CheckMove
    <2>2. CASE ~Fail(o)
        BY <1>5, <1>00, <2>2, SetType DEF CheckMove, Rest, TypeOK
    <2> QED BY <2>1, <2>2
<1>6. CASE SaveMove(o)
    <2>1. Rest
        BY <1>6 DEF SaveMove
    <2>2. PICK i \in op[o].todo :
              \/ Fail(o)
              \/ /\ Write(o, i, op[o].plan[i], op[o].seen)
                 /\ Set(o, [op[o] EXCEPT !.phase = "ok"])
        BY <1>6 DEF SaveMove
    <2>3. i \in Ids
        BY <1>0, <2>2 DEF Operation
    <2> QED BY <1>0, <1>00, <2>1, <2>2, <2>3, FailType, WriteType
<1>7. CASE Destroy(o)
    <2>1. CASE Fail(o)
        BY <1>0, <1>7, <2>1, FailType DEF Destroy
    <2>2. CASE ~Fail(o)
        <3>1. op[o].todo \in SUBSET Ids /\ op[o].user \in Users
            BY <1>0 DEF Operation
        <3>2. Put(rows, Nowhere, op[o].todo) \in Places
            BY <3>1, ListTypes DEF TypeOK
        <3> QED BY <1>7, <1>00, <2>2, <3>1, <3>2, SetType DEF Destroy, Rest, TypeOK
    <2> QED BY <2>1, <2>2
<1>8. CASE ReadRows(o)
    <2>1. op[o].config \in Configs
        BY <1>0 DEF Operation
    <2>2. OfConfig(rows, op[o].config) \in Places
        BY <2>1, ListTypes DEF TypeOK
    <2>3. [op[o] EXCEPT !.phase = "ok", !.seen = OfConfig(rows, op[o].config)] \in Operation
        BY <1>0, <2>2, PhaseType
    <2> QED BY <1>8, <2>3, SetType DEF ReadRows, Rest, TypeOK
<1>9. CASE Lose(o)
    <2>1. op[o].user \in Users
        BY <1>0 DEF Operation
    <2> QED BY <1>9, <1>00, <2>1, SetType DEF Lose, Rest, TypeOK
<1> QED BY <1>1, <1>2, <1>3, <1>4, <1>5, <1>6, <1>7, <1>8, <1>9 DEF Serve
-----------------------------------------------------------------------------
(* Closing an operation keeps the types. *)
LEMMA CloseType ==
    ASSUME TypeOK, NEW o \in Ops, Open(o), NEW t, Close(o, t),
           shown' \in [Users -> Places], temp' \in [Users -> SUBSET Ids]
    PROVE  TypeOK'
<1>1. op[o].user \in Users
    BY OpenType DEF Operation
<1> QED BY <1>1 DEF Close, TypeOK

(* A step of the page with an answer keeps the types. *)
LEMMA ReceivesType ==
    ASSUME TypeOK, NEW o \in Ops, Receive(o) PROVE TypeOK'
<1>0. Open(o)
    BY DEF Receive, Created, NotCreated, CreatedMultiple, NotCreatedMultiple, Moved, Removed,
           RolledBack, Fetched, Ends
<1>00. /\ op[o].user \in Users /\ op[o].todo \in SUBSET Ids /\ op[o].done \in SUBSET Ids
       /\ op[o].plan \in Places /\ op[o].before \in Places /\ op[o].beforeTemp \in SUBSET Ids
       /\ op[o].seen \in Places
    BY <1>0, OpenType DEF Operation
<1> DEFINE u == op[o].user
<1>01. shown[u] \in Places /\ temp[u] \in SUBSET Ids /\ Nowhere \in Places
    BY <1>00, ListTypes DEF TypeOK
<1> HIDE DEF u
<1>1. CASE Created(o)
    <2>1. /\ temp' = [temp EXCEPT ![u] = temp[u] \ op[o].todo]
          /\ Show(u, temp[u] \cap op[o].todo, op[o].plan)
          /\ Close(o, FALSE)
        BY <1>1 DEF Created, u
    <2>2. shown' \in [Users -> Places]
        BY <1>00, <1>01, <2>1, ShowType DEF u
    <2>3. temp' \in [Users -> SUBSET Ids]
        BY <1>01, <2>1 DEF TypeOK
    <2> QED BY <1>0, <2>1, <2>2, <2>3, CloseType
<1>2. CASE NotCreated(o)
    <2>1. /\ temp' = [temp EXCEPT ![u] = temp[u] \ (temp[u] \cap op[o].todo)]
          /\ Show(u, temp[u] \cap op[o].todo, Nowhere)
          /\ Close(o, FALSE)
        BY <1>2 DEF NotCreated, u
    <2>2. shown' \in [Users -> Places]
        BY <1>00, <1>01, <2>1, ShowType DEF u
    <2>3. temp' \in [Users -> SUBSET Ids]
        BY <1>01, <2>1 DEF TypeOK
    <2> QED BY <1>0, <2>1, <2>2, <2>3, CloseType
<1>3. CASE CreatedMultiple(o)
    <2>1. /\ temp' = [temp EXCEPT ![u] = {}]
          /\ shown' = [shown EXCEPT ![u] =
                 Put(Put(shown[u], Nowhere, temp[u]), op[o].plan, op[o].done)]
          /\ Close(o, op[o].mixed \/ version[u] # op[o].version)
        BY <1>3 DEF CreatedMultiple, u
    <2>2. Put(Put(shown[u], Nowhere, temp[u]), op[o].plan, op[o].done) \in Places
        BY <1>00, <1>01, ListTypes
    <2>3. shown' \in [Users -> Places] /\ temp' \in [Users -> SUBSET Ids]
        BY <2>1, <2>2 DEF TypeOK
    <2> QED BY <1>0, <2>1, <2>3, CloseType
<1>4. CASE NotCreatedMultiple(o)
    <2>1. /\ temp' = [temp EXCEPT ![u] = {}]
          /\ Show(u, temp[u], Nowhere)
          /\ Close(o, op[o].mixed \/ op[o].done # {})
        BY <1>4 DEF NotCreatedMultiple, u
    <2>2. shown' \in [Users -> Places]
        BY <1>00, <1>01, <2>1, ShowType DEF u
    <2>3. temp' \in [Users -> SUBSET Ids]
        BY <2>1 DEF TypeOK
    <2> QED BY <1>0, <2>1, <2>2, <2>3, CloseType
<1>5. CASE Moved(o)
    <2>1. PICK I \in SUBSET Ids : Show(u, I, op[o].plan)
        BY <1>5, <1>00 DEF Moved, u
    <2>2. shown' \in [Users -> Places]
        BY <1>00, <2>1, ShowType DEF u
    <2> QED BY <1>0, <1>5, <2>2, CloseType DEF Moved, TypeOK
<1>6. CASE Removed(o)
    BY <1>0, <1>6, CloseType DEF Removed, TypeOK
<1>7. CASE RolledBack(o)
    <2>1. /\ shown' = [shown EXCEPT ![u] = op[o].before]
          /\ temp' = [temp EXCEPT ![u] = op[o].beforeTemp]
          /\ Close(o, op[o].mixed \/ version[u] # op[o].version)
        BY <1>7 DEF RolledBack, u
    <2>2. shown' \in [Users -> Places] /\ temp' \in [Users -> SUBSET Ids]
        BY <1>00, <2>1 DEF TypeOK
    <2> QED BY <1>0, <2>1, <2>2, CloseType
<1>8. CASE Fetched(o)
    <2>1. PICK list \in Places :
              /\ shown' = [shown EXCEPT ![u] = list] \/ shown' = shown
              /\ temp' = [temp EXCEPT ![u] = {}] \/ temp' = temp
              /\ op' = [op EXCEPT ![o] = None]
              /\ torn' \subseteq torn \cup {u}
              /\ UNCHANGED <<rows, used, sel, version, blind, sent>>
        BY <1>8, <1>00, <1>01 DEF Fetched, u
    <2> QED BY <1>00, <2>1 DEF TypeOK, u
<1> QED BY <1>1, <1>2, <1>3, <1>4, <1>5, <1>6, <1>7, <1>8 DEF Receive

(* A behaviour begins with the types. *)
LEMMA InitType == Init => TypeOK
<1> SUFFICES ASSUME Init PROVE TypeOK
    OBVIOUS
<1>1. rows \in Places
    BY ConstantsAssumption DEF Init
<1>2. \A u \in Users : OfConfig(rows, sel[u]) \in Places
    BY <1>1, ListTypes DEF Init
<1> QED BY <1>1, <1>2 DEF Init, TypeOK

(* Every step keeps the types. *)
LEMMA NextType == TypeOK /\ [Next]_vars => TypeOK'
<1> SUFFICES ASSUME TypeOK, [Next]_vars PROVE TypeOK'
    OBVIOUS
<1>1. CASE UNCHANGED vars
    BY <1>1 DEF vars, TypeOK
<1>2. ASSUME NEW o \in Ops, NEW u \in Users, Act(o, u) PROVE TypeOK'
    BY <1>2, ActsType
<1>3. ASSUME NEW o \in Ops, Serve(o) PROVE TypeOK'
    BY <1>3, ServesType
<1>4. ASSUME NEW o \in Ops, Receive(o) PROVE TypeOK'
    BY <1>4, ReceivesType
<1> QED BY <1>1, <1>2, <1>3, <1>4 DEF Next

(* The types of NodeStructures hold in every state. *)
THEOREM TypeCorrect == Spec => []TypeOK
BY InitType, NextType, PTL DEF Spec
-----------------------------------------------------------------------------
(* What a request still to be written has looked at leaves its slots free; *)
(* a move is about one structure.                                          *)
Ready(r) ==
    /\ (r.kind = "create" /\ r.phase = "sent") \/ (r.kind = "move" /\ r.phase = "checked") =>
           \A i \in r.todo : Free(r.seen, i, r.plan[i])
    /\ r.kind = "move" => \A i, j \in r.todo : i = j

OverlapInv == TypeOK /\ OverlapNeedsBlindness /\ \A o \in Ops : Open(o) => Ready(op[o])

(* A row written to slots that were free in what the writer had seen does  *)
(* not overlap another one unless one of them was placed blindly.          *)
LEMMA WriteKeeps ==
    ASSUME TypeOK, OverlapNeedsBlindness, NEW o \in Ops, NEW i \in Ids, NEW w, NEW seen,
           Free(seen, i, w), Write(o, i, w, seen)
    PROVE  OverlapNeedsBlindness'
<1>1. SUFFICES ASSUME NEW a \in Ids, NEW b \in Ids, a # b, ConfigOf[a] = ConfigOf[b],
                      rows'[a] # None, rows'[b] # None, ~Disjoint(rows'[a], rows'[b]),
                      a \notin blind', b \notin blind'
               PROVE  FALSE
    BY DEF OverlapNeedsBlindness, Clashing
<1>2. /\ \A j \in Ids \ {i} : rows'[j] = rows[j]
      /\ rows'[i] = w
    BY DEF Write, TypeOK, Places
<1>3. ASSUME i \notin blind', NEW j \in Ids \ {i}, rows[j] # None, ConfigOf[j] = ConfigOf[i]
      PROVE  Disjoint(rows[j], w)
    <2>1. seen[j] = rows[j]
        BY <1>3 DEF Write
    <2> QED BY <1>3, <2>1 DEF Free
<1>4. CASE a = i
    BY <1>1, <1>2, <1>3, <1>4 DEF Disjoint
<1>5. CASE b = i
    BY <1>1, <1>2, <1>3, <1>5 DEF Disjoint
<1>6. CASE a # i /\ b # i
    <2>1. ~Disjoint(rows[a], rows[b]) /\ rows[a] # None /\ rows[b] # None
        BY <1>1, <1>2, <1>6
    <2>2. a \notin blind /\ b \notin blind
        BY <1>1, <1>6 DEF Write
    <2>3. <<a, b>> \in Clashing(rows)
        BY <1>1, <2>1 DEF Clashing
    <2>4. a \in blind \/ b \in blind
        BY <2>3 DEF OverlapNeedsBlindness
    <2> QED BY <2>2, <2>4
<1> QED BY <1>4, <1>5, <1>6

(* Rows and blindness that stay, or rows that go, create no overlap. *)
LEMMA SameKeeps ==
    ASSUME OverlapNeedsBlindness, UNCHANGED <<rows, blind>> PROVE OverlapNeedsBlindness'
BY DEF OverlapNeedsBlindness, Clashing

(* Removing structures makes no overlap. *)
LEMMA RemoveKeeps ==
    ASSUME OverlapNeedsBlindness, NEW I \in SUBSET Ids,
           rows' = Put(rows, Nowhere, I), blind' = blind \ I
    PROVE  OverlapNeedsBlindness'
<1>1. \A i \in Ids : rows'[i] # None => i \notin I /\ rows'[i] = rows[i]
    BY DEF Put, Nowhere
<1> QED BY <1>1 DEF OverlapNeedsBlindness, Clashing

(* The invariant of the open operations goes from one to its successor. *)
LEMMA SetKeeps ==
    ASSUME TypeOK, \A q \in Ops : Open(q) => Ready(op[q]),
           NEW o \in Ops, NEW r, Set(o, r), Ready(r)
    PROVE  \A q \in Ops : Open(q)' => Ready(op[q])'
<1> TAKE q \in Ops
<1>1. CASE q = o
    <2>1. op'[q] = r
        BY <1>1 DEF Set, TypeOK
    <2> QED BY <2>1 DEF Ready, Free, Open
<1>2. CASE q # o
    <2>1. op'[q] = op[q]
        BY <1>2 DEF Set, TypeOK
    <2> QED BY <2>1 DEF Ready, Free, Open
<1> QED BY <1>1, <1>2

(* A request that fails makes no overlap. *)
LEMMA FailKeeps ==
    ASSUME OverlapInv, NEW o \in Ops, Open(o), Fail(o)
    PROVE  OverlapNeedsBlindness' /\ \A q \in Ops : Open(q)' => Ready(op[q])'
<1>1. op[o] \in Operation /\ Ready(op[o])
    BY OpenType DEF OverlapInv
<1> DEFINE r == [op[o] EXCEPT !.phase = "failed"]
<1>2. Ready(r)
    BY <1>1 DEF Ready, Operation
<1>3. Set(o, r) /\ UNCHANGED <<rows, blind>>
    BY DEF Fail
<1> HIDE DEF r
<1> QED BY <1>2, <1>3, SetKeeps, SameKeeps DEF OverlapInv

(* A request sent after a look at the list has a place that is free there. *)
LEMMA SendKeeps ==
    ASSUME OverlapInv, NEW o \in Ops, NEW u \in Users, NEW kind \in Kinds, NEW I \in SUBSET Ids,
           NEW P \in Places, Send(o, u, kind, I, P),
           kind = "create" => \A i \in I : Free(shown[u], i, P[i]),
           kind = "move" => \A i, j \in I : i = j
    PROVE  OverlapNeedsBlindness' /\ \A q \in Ops : Open(q)' => Ready(op[q])'
<1>1. OverlapNeedsBlindness'
    BY SameKeeps DEF Send, OverlapInv
<1>2. ASSUME NEW q \in Ops, Open(q)' PROVE Ready(op[q])'
    <2>1. CASE q = o
        <3> DEFINE r == [kind |-> kind, user |-> u, phase |-> "sent", todo |-> I, plan |-> P,
                     done |-> {}, seen |-> IF kind = "create" THEN shown[u] ELSE Nowhere,
                     before |-> shown[u], beforeTemp |-> temp[u], config |-> sel'[u],
                     version |-> version'[u],
                     mixed |-> {p \in OpenOf(u) : Writes(op[p].kind)} # {}]
        <3>1. op'[q] = r
            BY <2>1 DEF Send
        <3>2. Ready(r)
            BY DEF Ready
        <3> HIDE DEF r
        <3> QED BY <3>1, <3>2 DEF Ready, Free
    <2>2. CASE q # o /\ q \in OpenOf(u) /\ Writes(kind)
        <3> DEFINE r == [op[q] EXCEPT !.mixed = TRUE]
        <3>1. op'[q] = r
            BY <2>2 DEF Send
        <3>2. Open(q)
            BY <2>2 DEF OpenOf
        <3>3. op[q] \in Operation /\ Ready(op[q])
            BY <3>2, OpenType DEF OverlapInv
        <3>4. Ready(r)
            BY <3>3 DEF Ready, Operation
        <3> HIDE DEF r
        <3> QED BY <3>1, <3>4 DEF Ready, Free
    <2>3. CASE q # o /\ ~(q \in OpenOf(u) /\ Writes(kind))
        <3>1. op'[q] = op[q]
            BY <2>3 DEF Send
        <3> QED BY <1>2, <3>1 DEF Ready, Free, Open, OverlapInv
    <2> QED BY <2>1, <2>2, <2>3
<1> QED BY <1>1, <1>2

(* A user's operation keeps the invariant. *)
LEMMA ActsKeep ==
    ASSUME OverlapInv, NEW o \in Ops, NEW u \in Users, Act(o, u)
    PROVE  OverlapNeedsBlindness' /\ \A q \in Ops : Open(q)' => Ready(op[q])'
<1>1. ASSUME NEW i \in Ids, NEW w \in Ranges, CreateStructure(o, u, i, w)
      PROVE  OverlapNeedsBlindness' /\ \A q \in Ops : Open(q)' => Ready(op[q])'
    <2> DEFINE P == [Nowhere EXCEPT ![i] = w]
    <2>1. P \in Places /\ "create" \in Kinds /\ P[i] = w
        BY ListTypes DEF Kinds, Nowhere
    <2>2. Unoccupied(shown[u], i, w) /\ Send(o, u, "create", {i}, P)
        BY <1>1 DEF CreateStructure
    <2> HIDE DEF P
    <2>3. Free(shown[u], i, P[i])
        BY <2>1, <2>2 DEF Unoccupied, Free
    <2> QED BY <2>1, <2>2, <2>3, SendKeeps
<1>2. ASSUME NEW i \in Ids, NEW w \in Ranges, MoveStructure(o, u, i, w)
      PROVE  OverlapNeedsBlindness' /\ \A q \in Ops : Open(q)' => Ready(op[q])'
    <2>1. [Nowhere EXCEPT ![i] = w] \in Places /\ "move" \in Kinds
        BY ListTypes DEF Kinds
    <2> QED BY <1>2, <2>1, SendKeeps DEF MoveStructure
<1>3. ASSUME NEW i \in Ids, NEW j \in Ids, NEW v \in Ranges, NEW w \in Ranges,
             CreateMultiple(o, u, i, j, v, w)
      PROVE  OverlapNeedsBlindness' /\ \A q \in Ops : Open(q)' => Ready(op[q])'
    <2>1. [Nowhere EXCEPT ![i] = v, ![j] = w] \in Places /\ "bulk" \in Kinds
        BY ListTypes DEF Kinds
    <2> QED BY <1>3, <2>1, SendKeeps DEF CreateMultiple
<1>4. ASSUME NEW i \in Ids, DeleteStructure(o, u, i)
      PROVE  OverlapNeedsBlindness' /\ \A q \in Ops : Open(q)' => Ready(op[q])'
    <2>1. Nowhere \in Places /\ "remove" \in Kinds
        BY ListTypes DEF Kinds
    <2> QED BY <1>4, <2>1, SendKeeps DEF DeleteStructure
<1>5. ASSUME NEW k \in Configs, SelectSlotConfig(o, u, k)
      PROVE  OverlapNeedsBlindness' /\ \A q \in Ops : Open(q)' => Ready(op[q])'
    <2>1. Nowhere \in Places /\ "fetch" \in Kinds
        BY ListTypes DEF Kinds
    <2> QED BY <1>5, <2>1, SendKeeps DEF SelectSlotConfig
<1> QED BY <1>1, <1>2, <1>3, <1>4, <1>5 DEF Act

(* A step of the server keeps the invariant. *)
LEMMA ServesKeep ==
    ASSUME OverlapInv, NEW o \in Ops, Serve(o)
    PROVE  OverlapNeedsBlindness' /\ \A q \in Ops : Open(q)' => Ready(op[q])'
<1>0. Open(o)
    BY DEF Serve, Create, ReadOccupied, CreateNext, AllCreated, CheckMove, SaveMove, Destroy,
           ReadRows, Lose, Sent, Checked
<1>00. TypeOK /\ OverlapNeedsBlindness /\ op[o] \in Operation /\ Ready(op[o])
    BY <1>0, OpenType DEF OverlapInv
<1>01. Ready([op[o] EXCEPT !.phase = "ok"]) /\ Ready([op[o] EXCEPT !.phase = "failed"])
    BY <1>00 DEF Ready, Operation
<1>1. CASE Create(o)
    <2>1. PICK i \in op[o].todo :
              \/ Fail(o)
              \/ /\ Write(o, i, op[o].plan[i], op[o].seen)
                 /\ Set(o, [op[o] EXCEPT !.phase = "ok"])
        BY <1>1 DEF Create
    <2>2. i \in Ids /\ Free(op[o].seen, i, op[o].plan[i])
        BY <1>1, <1>00, <2>1 DEF Create, Sent, Ready, Operation
    <2> QED BY <1>0, <1>00, <1>01, <2>1, <2>2, FailKeeps, WriteKeeps, SetKeeps DEF OverlapInv
<1>2. CASE ReadOccupied(o)
    <2> DEFINE r == [op[o] EXCEPT !.phase = "checked", !.seen = rows]
    <2>1. Set(o, r) /\ UNCHANGED <<rows, blind>>
        BY <1>2 DEF ReadOccupied
    <2>2. op[o].kind = "bulk"
        BY <1>2 DEF ReadOccupied, Sent
    <2>3. Ready(r)
        BY <1>00, <2>2 DEF Ready, Operation
    <2> HIDE DEF r
    <2> QED BY <2>1, <2>3, SetKeeps, SameKeeps DEF OverlapInv
<1>3. CASE CreateNext(o)
    <2>0. op[o].kind = "bulk"
        BY <1>3 DEF CreateNext, Checked
    <2>1. PICK i \in op[o].todo :
              \/ /\ Set(o, [op[o] EXCEPT !.todo = op[o].todo \ {i}])
                 /\ UNCHANGED <<rows, blind, torn>>
              \/ Fail(o)
              \/ /\ Free(op[o].seen, i, op[o].plan[i])
                 /\ Write(o, i, op[o].plan[i], op[o].seen)
                 /\ Set(o, [op[o] EXCEPT !.todo = op[o].todo \ {i}, !.done = op[o].done \cup {i},
                                         !.seen = [op[o].seen EXCEPT ![i] = op[o].plan[i]]])
        BY <1>3 DEF CreateNext
    <2>2. i \in Ids
        BY <1>00, <2>1 DEF Operation
    <2>3. /\ Ready([op[o] EXCEPT !.todo = op[o].todo \ {i}])
          /\ Ready([op[o] EXCEPT !.todo = op[o].todo \ {i}, !.done = op[o].done \cup {i},
                                 !.seen = [op[o].seen EXCEPT ![i] = op[o].plan[i]]])
        BY <1>00, <2>0 DEF Ready, Operation
    <2> QED BY <1>0, <1>00, <2>1, <2>2, <2>3, FailKeeps, WriteKeeps, SetKeeps, SameKeeps
            DEF OverlapInv
<1>4. CASE AllCreated(o)
    BY <1>4, <1>01, SetKeeps, SameKeeps DEF AllCreated, OverlapInv
<1>5. CASE CheckMove(o)
    <2>1. CASE Fail(o)
        BY <1>0, <2>1, FailKeeps
    <2>2. CASE ~Fail(o)
        <3> DEFINE r == [op[o] EXCEPT !.phase = "checked", !.seen = rows]
        <3>1. PICK i \in op[o].todo : Free(rows, i, op[o].plan[i])
            BY <1>5, <2>2 DEF CheckMove
        <3>2. Set(o, r) /\ UNCHANGED <<rows, blind>> /\ op[o].kind = "move"
            BY <1>5, <2>2 DEF CheckMove, Sent
        <3>3. Ready(r)
            BY <1>00, <3>1, <3>2 DEF Ready, Operation
        <3> HIDE DEF r
        <3> QED BY <3>2, <3>3, SetKeeps, SameKeeps DEF OverlapInv
    <2> QED BY <2>1, <2>2
<1>6. CASE SaveMove(o)
    <2>1. PICK i \in op[o].todo :
              \/ Fail(o)
              \/ /\ Write(o, i, op[o].plan[i], op[o].seen)
                 /\ Set(o, [op[o] EXCEPT !.phase = "ok"])
        BY <1>6 DEF SaveMove
    <2>2. i \in Ids /\ Free(op[o].seen, i, op[o].plan[i])
        BY <1>6, <1>00, <2>1 DEF SaveMove, Checked, Ready, Operation
    <2> QED BY <1>0, <1>00, <1>01, <2>1, <2>2, FailKeeps, WriteKeeps, SetKeeps DEF OverlapInv
<1>7. CASE Destroy(o)
    <2>1. CASE Fail(o)
        BY <1>0, <2>1, FailKeeps
    <2>2. CASE ~Fail(o)
        <3>1. op[o].todo \in SUBSET Ids
            BY <1>00 DEF Operation
        <3> QED BY <1>7, <1>01, <2>2, <3>1, RemoveKeeps, SetKeeps DEF Destroy, OverlapInv
    <2> QED BY <2>1, <2>2
<1>8. CASE ReadRows(o)
    <2> DEFINE r == [op[o] EXCEPT !.phase = "ok", !.seen = OfConfig(rows, op[o].config)]
    <2>1. Set(o, r) /\ UNCHANGED <<rows, blind>>
        BY <1>8 DEF ReadRows
    <2>2. op[o].kind = "fetch"
        BY <1>8 DEF ReadRows, Sent
    <2>3. Ready(r)
        BY <1>00, <2>2 DEF Ready, Operation
    <2> HIDE DEF r
    <2> QED BY <2>1, <2>3, SetKeeps, SameKeeps DEF OverlapInv
<1>9. CASE Lose(o)
    BY <1>9, <1>01, SetKeeps, SameKeeps DEF Lose, OverlapInv
<1> QED BY <1>1, <1>2, <1>3, <1>4, <1>5, <1>6, <1>7, <1>8, <1>9 DEF Serve

(* The page's answers concern no row. *)
LEMMA ReceivesKeep ==
    ASSUME OverlapInv, NEW o \in Ops, Receive(o)
    PROVE  OverlapNeedsBlindness' /\ \A q \in Ops : Open(q)' => Ready(op[q])'
<1>1. op' = [op EXCEPT ![o] = None] /\ UNCHANGED <<rows, blind>>
    BY DEF Receive, Created, NotCreated, CreatedMultiple, NotCreatedMultiple, Moved, Removed,
           RolledBack, Fetched, Close
<1>2. \A q \in Ops : Open(q)' => op'[q] = op[q] /\ Open(q)
    BY <1>1 DEF Open, OverlapInv, TypeOK
<1> QED BY <1>1, <1>2, SameKeeps DEF Ready, Free, OverlapInv

(* In every state two structures of one configuration overlap only when    *)
(* one of them was placed by an operation that had not seen all the others *)
(* (views.py, move and bulk_create; NodeStructureManager.createStructure). *)
THEOREM OverlapsAreBlind == Spec => []OverlapNeedsBlindness
<1>1. Init => OverlapInv
    <2> SUFFICES ASSUME Init PROVE OverlapInv
        OBVIOUS
    <2>1. OverlapNeedsBlindness
        BY ConstantsAssumption DEF Init, OverlapNeedsBlindness
    <2>2. \A o \in Ops : ~Open(o)
        BY DEF Init, Open
    <2>3. TypeOK
        BY InitType
    <2> QED BY <2>1, <2>2, <2>3 DEF OverlapInv
<1>2. OverlapInv /\ [Next]_vars => OverlapInv'
    <2> SUFFICES ASSUME OverlapInv, [Next]_vars PROVE OverlapInv'
        OBVIOUS
    <2>1. TypeOK'
        BY NextType DEF OverlapInv
    <2>2. CASE UNCHANGED vars
        BY <2>1, <2>2 DEF vars, OverlapInv, OverlapNeedsBlindness, Clashing, Ready, Free, Open
    <2>3. ASSUME NEW o \in Ops, NEW u \in Users, Act(o, u) PROVE OverlapInv'
        BY <2>1, <2>3, ActsKeep DEF OverlapInv
    <2>4. ASSUME NEW o \in Ops, Serve(o) PROVE OverlapInv'
        BY <2>1, <2>4, ServesKeep DEF OverlapInv
    <2>5. ASSUME NEW o \in Ops, Receive(o) PROVE OverlapInv'
        BY <2>1, <2>5, ReceivesKeep DEF OverlapInv
    <2> QED BY <2>2, <2>3, <2>4, <2>5 DEF Next
<1>3. OverlapInv => OverlapNeedsBlindness
    BY DEF OverlapInv
<1> QED BY <1>1, <1>2, <1>3, PTL DEF Spec
-----------------------------------------------------------------------------
(* The operations of user u that write.                                    *)
WritesOf(u) == {o \in OpenOf(u) : Writes(op[o].kind)}

(* A structure that was never created is nowhere.                          *)
UsedBefore ==
    \A i \in Ids \ used :
        /\ rows[i] = None
        /\ \A u \in Users : shown[u][i] = None
        /\ \A o \in Ops : Open(o) =>
               /\ i \notin op[o].todo \cup op[o].done
               /\ op[o].seen[i] = None /\ op[o].before[i] = None

(* How far an operation can have come, and which configuration it is about.*)
Orderly(r) ==
    /\ r.kind # "bulk" => r.done = {} /\ \A i, j \in r.todo : i = j
    /\ r.kind = "bulk" => \A i \in r.todo \cup r.done : r.plan[i] # None
    /\ r.kind = "bulk" /\ r.phase = "sent" => r.done = {}
    /\ r.kind = "remove" => \A i \in r.todo : r.plan[i] = None
    /\ r.kind = "fetch" => r.todo = {}
    /\ r.kind \in {"move", "remove"} /\ r.todo = {} => r.phase \in {"sent", "failed"}
    /\ r.version <= version[r.user]
    /\ r.version = version[r.user] => r.config = sel[r.user]

(* An operation that overlapped one of its user's that writes is mixed.    *)
OverlapsNoted ==
    \A u \in Users : \A o \in OpenOf(u), q \in WritesOf(u) : o # q => op[o].mixed

(* A list of the configuration selected is on its way.                     *)
Fetching(u) == \E o \in OpenOf(u) : op[o].kind = "fetch" /\ op[o].version = version[u]

(* An operation whose answer will mix up the list.                         *)
Doomed(r) ==
    /\ r.mixed
    /\ \/ r.kind = "bulk"
       \/ r.kind \in {"move", "remove"} /\ (r.todo = {} \/ r.phase = "failed")

(* The structures an operation is about.                                   *)
Concerns(r) == IF r.kind = "bulk" THEN {i \in Ids : r.plan[i] # None} ELSE r.todo

(* What an operation has made of the row of structure i so far.            *)
Stored(r, i) ==
    /\ r.kind = "bulk" => rows[i] = IF i \in r.done THEN r.plan[i] ELSE None
    /\ r.kind = "create" => rows[i] = IF r.phase = "ok" THEN r.plan[i] ELSE None
    /\ r.kind \in {"move", "remove"} => (r.phase = "ok" => rows[i] = r.plan[i])

(* The users whose page neither is, nor is about to be, spoiled or         *)
(* replaced.                                                               *)
Sure(u) == u \notin torn /\ ~Fetching(u) /\ \A o \in OpenOf(u) : ~Doomed(op[o])

(* What no open operation is about, the page shows as it is stored.        *)
Settled(u) ==
    \A i \in Ids : (\A o \in WritesOf(u) : i \notin Concerns(op[o])) =>
        shown[u][i] = OfConfig(rows, sel[u])[i] /\ i \notin temp[u]

(* What operation o of user u is about, the page shows as o will leave it; *)
(* a move or a deletion that is alone can still be taken back.             *)
Anticipated(u, o) ==
    /\ op[o].version = version[u]
    /\ \A i \in Concerns(op[o]) :
           /\ ConfigOf[i] = sel[u] /\ shown[u][i] = op[o].plan[i]
           /\ i \in temp[u] <=> op[o].kind \in {"create", "bulk"}
           /\ op[o].kind # "remove" => op[o].plan[i] # None
           /\ Stored(op[o], i)
    /\ op[o].kind \in {"move", "remove"} /\ ~op[o].mixed /\ op[o].phase # "ok" =>
           op[o].before = OfConfig(rows, sel[u]) /\ op[o].beforeTemp = {}

Apart(u) ==
    \A o, q \in WritesOf(u) : q # o => Concerns(op[q]) \cap Concerns(op[o]) = {}

Right(u) == Settled(u) /\ Apart(u) /\ \A o \in WritesOf(u) : Anticipated(u, o)

AllOrderly == \A o \in Ops : Open(o) => Orderly(op[o])

PageInv ==
    /\ TypeOK /\ UsedBefore /\ AllOrderly /\ OverlapsNoted
    /\ \A u \in Users : Sure(u) => Right(u)
-----------------------------------------------------------------------------
(* Two records of one operation at different times.                        *)
SameRequest(r, s) ==
    /\ s.kind = r.kind /\ s.user = r.user /\ s.plan = r.plan
    /\ s.before = r.before /\ s.beforeTemp = r.beforeTemp
    /\ s.config = r.config /\ s.version = r.version

SameProgress(r, s) ==
    s.phase = r.phase /\ s.todo = r.todo /\ s.done = r.done /\ s.seen = r.seen

(* The record of a request that is sent.                                   *)
LEMMA SentRecord ==
    ASSUME TypeOK, TypeOK', NEW o \in Ops, NEW u \in Users,
           NEW kind \in Kinds, NEW I \in SUBSET Ids, NEW P \in Places, Send(o, u, kind, I, P)
    PROVE  /\ Open(o)' /\ op'[o].kind = kind /\ op'[o].user = u /\ op'[o].phase = "sent"
           /\ op'[o].todo = I /\ op'[o].plan = P /\ op'[o].done = {}
           /\ op'[o].seen \in {shown[u], Nowhere}
           /\ op'[o].before = shown[u] /\ op'[o].beforeTemp = temp[u]
           /\ op'[o].config = sel'[u] /\ op'[o].version = version'[u]
<1> DEFINE s == [kind |-> kind, user |-> u, phase |-> "sent", todo |-> I, plan |-> P,
                 done |-> {}, seen |-> IF kind = "create" THEN shown[u] ELSE Nowhere,
                 before |-> shown[u], beforeTemp |-> temp[u], config |-> sel'[u],
                 version |-> version'[u], mixed |-> WritesOf(u) # {}]
<1>1. op'[o] = s
    BY DEF Send, WritesOf
<1>2. s \in Operation
    BY ListTypes DEF Operation, TypeOK
<1>3. Open(o)'
    BY <1>1, <1>2, NoneAssumption DEF Open
<1>4. /\ s.kind = kind /\ s.user = u /\ s.phase = "sent" /\ s.todo = I /\ s.plan = P
      /\ s.done = {} /\ s.seen \in {shown[u], Nowhere}
      /\ s.before = shown[u] /\ s.beforeTemp = temp[u] /\ s.config = sel'[u]
      /\ s.version = version'[u]
    OBVIOUS
<1> HIDE DEF s
<1> QED BY <1>1, <1>3, <1>4

(* It is mixed when its user has another one under way that writes.        *)
LEMMA SentMixed ==
    ASSUME NEW o \in Ops, NEW u, NEW kind, NEW I, NEW P, Send(o, u, kind, I, P)
    PROVE  op'[o].mixed = (WritesOf(u) # {})
BY DEF Send, WritesOf

(* What sending it makes of the other operations.                          *)
LEMMA SentOthers ==
    ASSUME TypeOK, NEW o \in Ops, NEW u \in Users,
           NEW kind, NEW I, NEW P, Send(o, u, kind, I, P), NEW q \in Ops \ {o}
    PROVE  /\ Open(q)' <=> Open(q)
           /\ q \notin OpenOf(u) => op'[q] = op[q]
           /\ Open(q) => /\ SameRequest(op[q], op'[q]) /\ SameProgress(op[q], op'[q])
                         /\ op'[q].mixed <=> (op[q].mixed \/ (op[q].user = u /\ Writes(kind)))
<1>1. CASE q \in OpenOf(u) /\ Writes(kind)
    <2>1. Open(q) /\ op[q].user = u /\ op[q] \in Operation
        BY <1>1, OpenType DEF OpenOf
    <2>2. op'[q] = [op[q] EXCEPT !.mixed = TRUE]
        BY <1>1 DEF Send
    <2>3. op'[q] \in Operation /\ op'[q].mixed = TRUE
        BY <2>1, <2>2 DEF Operation
    <2>4. SameRequest(op[q], op'[q]) /\ SameProgress(op[q], op'[q])
        BY <2>1, <2>2 DEF Operation, SameRequest, SameProgress
    <2> QED BY <1>1, <2>1, <2>3, <2>4, NoneAssumption DEF Open
<1>2. CASE ~(q \in OpenOf(u) /\ Writes(kind))
    <2>1. op'[q] = op[q]
        BY <1>2 DEF Send
    <2>2. Open(q) => ~(op[q].user = u /\ Writes(kind))
        BY <1>2 DEF OpenOf
    <2> QED BY <2>1, <2>2 DEF Open, SameRequest, SameProgress
<1> QED BY <1>1, <1>2

(* The ways in which a step of the server goes from record r to record s   *)
(* of an operation.                                                        *)
Fails(r, s) ==
    /\ s.phase = "failed" /\ s.todo = r.todo /\ s.done = r.done /\ s.seen = r.seen
    /\ rows' = rows
    /\ r.phase = "ok" => r.user \in torn'

Looks(r, s) ==
    /\ r.phase = "sent" /\ s.phase = "checked" /\ s.todo = r.todo /\ s.done = r.done
    /\ s.seen = rows /\ rows' = rows
    /\ r.kind = "bulk" \/ (r.kind = "move" /\ r.todo # {})

Saves(r, s) ==
    /\ r.kind \in {"create", "move"} /\ r.phase \in {"sent", "checked"} /\ s.phase = "ok"
    /\ s.todo = r.todo /\ s.done = r.done /\ s.seen = r.seen
    /\ \E i \in r.todo : rows' = [rows EXCEPT ![i] = r.plan[i]]

CreatesNext(r, s) ==
    /\ r.kind = "bulk" /\ r.phase = "checked" /\ s.phase = r.phase
    /\ \E i \in r.todo :
           /\ s.todo = r.todo \ {i} /\ s.done = r.done \cup {i}
           /\ s.seen = [r.seen EXCEPT ![i] = r.plan[i]]
           /\ rows' = [rows EXCEPT ![i] = r.plan[i]]

Advances(r, s) ==
    /\ r.kind = "bulk" /\ r.phase = "checked"
    /\ s.phase \in {"checked", "ok", "failed"} /\ s.todo \subseteq r.todo
    /\ s.done = r.done /\ s.seen = r.seen /\ rows' = rows

Removes(r, s) ==
    /\ r.kind = "remove" /\ r.phase = "sent" /\ s.phase = "ok" /\ r.todo # {}
    /\ s.todo = r.todo /\ s.done = r.done /\ s.seen = r.seen
    /\ rows' = Put(rows, Nowhere, r.todo)

Lists(r, s) ==
    /\ r.kind = "fetch" /\ s.phase = "ok" /\ s.todo = r.todo /\ s.done = r.done
    /\ s.seen = OfConfig(rows, r.config) /\ rows' = rows

(* A record that replaces that of an open operation.                       *)
LEMMA SetEffect ==
    ASSUME TypeOK, NEW o \in Ops, NEW r \in Operation, Set(o, r)
    PROVE  op'[o] = r /\ Open(o)' /\ \A q \in Ops \ {o} : op'[q] = op[q]
BY NoneAssumption DEF Set, TypeOK, Open

(* An operation that fails.                                                *)
LEMMA FailEffect ==
    ASSUME TypeOK, NEW o \in Ops, Open(o), Set(o, [op[o] EXCEPT !.phase = "failed"]),
           rows' = rows, op[o].phase = "ok" => op[o].user \in torn'
    PROVE  /\ Open(o)' /\ \A q \in Ops \ {o} : op'[q] = op[q]
           /\ SameRequest(op[o], op'[o]) /\ (op'[o].mixed <=> op[o].mixed)
           /\ Fails(op[o], op'[o])
<1> DEFINE s == [op[o] EXCEPT !.phase = "failed"]
<1>1. op[o] \in Operation
    BY OpenType
<1>2. s \in Operation
    BY <1>1 DEF Operation
<1>3. SameRequest(op[o], s) /\ (s.mixed <=> op[o].mixed) /\ Fails(op[o], s)
    BY <1>1 DEF Operation, SameRequest, Fails
<1>4. Set(o, s)
    OBVIOUS
<1> HIDE DEF s
<1> QED BY <1>2, <1>3, <1>4, SetEffect

(* What a step of the server makes of an operation and the rows.           *)
LEMMA ServeEffect ==
    ASSUME TypeOK, NEW o \in Ops, Serve(o)
    PROVE  /\ Open(o) /\ Open(o)' /\ \A q \in Ops \ {o} : op'[q] = op[q]
           /\ SameRequest(op[o], op'[o]) /\ (op'[o].mixed <=> op[o].mixed)
           /\ torn \subseteq torn' /\ UNCHANGED <<used, sel, version, shown, temp>>
           /\ (\A v \in Users \ {op[o].user} : v \in torn') \/ rows' = rows
           /\ \/ Fails(op[o], op'[o]) \/ Looks(op[o], op'[o]) \/ Saves(op[o], op'[o])
              \/ CreatesNext(op[o], op'[o]) \/ Advances(op[o], op'[o])
              \/ Removes(op[o], op'[o]) \/ Lists(op[o], op'[o])
<1> DEFINE r == op[o]
           s == op'[o]
           Goal == /\ Open(o) /\ Open(o)' /\ \A q \in Ops \ {o} : op'[q] = op[q]
                   /\ SameRequest(r, s) /\ (s.mixed <=> r.mixed)
                   /\ torn \subseteq torn' /\ UNCHANGED <<used, sel, version, shown, temp>>
                   /\ (\A v \in Users \ {r.user} : v \in torn') \/ rows' = rows
                   /\ \/ Fails(r, s) \/ Looks(r, s) \/ Saves(r, s) \/ CreatesNext(r, s)
                      \/ Advances(r, s) \/ Removes(r, s) \/ Lists(r, s)
<1> SUFFICES Goal
    OBVIOUS
<1>0. Open(o) /\ UNCHANGED <<used, sel, version, shown, temp>>
    BY DEF Serve, Create, ReadOccupied, CreateNext, AllCreated, CheckMove, SaveMove, Destroy,
           ReadRows, Lose, Sent, Checked, Rest
<1>00. r \in Operation
    BY <1>0, OpenType
<1>01. ASSUME Fail(o), r.phase # "ok" PROVE Goal
    BY <1>0, <1>01, FailEffect DEF Fail
<1>02. ASSUME NEW i \in r.todo, r.kind \in {"create", "move"}, r.phase \in {"sent", "checked"},
              Write(o, i, r.plan[i], r.seen),
              Set(o, [r EXCEPT !.phase = "ok"])
       PROVE  Goal
    <2> DEFINE x == [r EXCEPT !.phase = "ok"]
    <2>1. x \in Operation /\ SameRequest(r, x) /\ (x.mixed <=> r.mixed)
        BY <1>00 DEF Operation, SameRequest
    <2>2. x.phase = "ok" /\ x.todo = r.todo /\ x.done = r.done /\ x.seen = r.seen /\ Set(o, x)
        BY <1>00, <1>02 DEF Operation
    <2> HIDE DEF x
    <2>3. s = x /\ Open(o)' /\ \A q \in Ops \ {o} : op'[q] = op[q]
        BY <2>1, <2>2, SetEffect
    <2>4. Saves(r, s)
        BY <1>02, <2>2, <2>3 DEF Saves, Write
    <2> QED BY <1>0, <1>02, <2>1, <2>3, <2>4 DEF Write
<1>03. ASSUME Set(o, [r EXCEPT !.phase = "checked", !.seen = rows]), Sent(o, r.kind),
              r.kind = "bulk" \/ (r.kind = "move" /\ r.todo # {}), UNCHANGED <<rows, torn>>
       PROVE  Goal
    <2> DEFINE x == [r EXCEPT !.phase = "checked", !.seen = rows]
    <2>1. x \in Operation /\ SameRequest(r, x) /\ (x.mixed <=> r.mixed)
        BY <1>00 DEF Operation, SameRequest, TypeOK
    <2>2. x.phase = "checked" /\ x.todo = r.todo /\ x.done = r.done /\ x.seen = rows /\ Set(o, x)
        BY <1>00, <1>03 DEF Operation
    <2> HIDE DEF x
    <2>3. s = x /\ Open(o)' /\ \A q \in Ops \ {o} : op'[q] = op[q]
        BY <2>1, <2>2, SetEffect
    <2>4. Looks(r, s)
        BY <1>03, <2>2, <2>3 DEF Looks, Sent
    <2> QED BY <1>0, <1>03, <2>1, <2>3, <2>4
<1>1. CASE Create(o)
    <2>1. r.kind = "create" /\ r.phase = "sent"
        BY <1>1 DEF Create, Sent
    <2>2. CASE Fail(o)
        BY <1>01, <2>1, <2>2
    <2>3. CASE ~Fail(o)
        <3>1. PICK i \in r.todo : /\ Write(o, i, r.plan[i], r.seen)
                                 /\ Set(o, [r EXCEPT !.phase = "ok"])
            BY <1>1, <2>3 DEF Create
        <3> QED BY <1>02, <2>1, <3>1
    <2> QED BY <2>2, <2>3
<1>2. CASE ReadOccupied(o)
    BY <1>2, <1>03 DEF ReadOccupied, Sent
<1>3. CASE CreateNext(o)
    <2>1. r.kind = "bulk" /\ r.phase = "checked"
        BY <1>3 DEF CreateNext, Checked
    <2>2. CASE Fail(o)
        BY <1>01, <2>1, <2>2
    <2>3. ASSUME NEW i \in r.todo, Set(o, [r EXCEPT !.todo = r.todo \ {i}]), UNCHANGED <<rows, torn>>
          PROVE  Goal
        <3> DEFINE x == [r EXCEPT !.todo = r.todo \ {i}]
        <3>1. x \in Operation /\ SameRequest(r, x) /\ (x.mixed <=> r.mixed) /\ Set(o, x)
            BY <1>00, <2>3 DEF Operation, SameRequest
        <3>2. x.phase = r.phase /\ x.todo = r.todo \ {i} /\ x.done = r.done /\ x.seen = r.seen
            BY <1>00 DEF Operation
        <3> HIDE DEF x
        <3>3. s = x /\ Open(o)' /\ \A q \in Ops \ {o} : op'[q] = op[q]
            BY <3>1, SetEffect
        <3>4. Advances(r, s)
            BY <2>1, <2>3, <3>2, <3>3 DEF Advances
        <3> QED BY <1>0, <2>3, <3>1, <3>3, <3>4
    <2>4. ASSUME NEW i \in r.todo, Write(o, i, r.plan[i], r.seen),
                 Set(o, [r EXCEPT !.todo = r.todo \ {i}, !.done = r.done \cup {i},
                                  !.seen = [r.seen EXCEPT ![i] = r.plan[i]]])
          PROVE  Goal
        <3> DEFINE l == [r.seen EXCEPT ![i] = r.plan[i]]
        <3>0. l \in Places /\ i \in Ids
            BY <1>00, <2>4 DEF Operation, Places
        <3> HIDE DEF l
        <3> DEFINE x == [r EXCEPT !.todo = r.todo \ {i}, !.done = r.done \cup {i}, !.seen = l]
        <3>1. x \in Operation /\ SameRequest(r, x) /\ (x.mixed <=> r.mixed)
            BY <1>00, <3>0 DEF Operation, SameRequest
        <3>2. /\ x.phase = r.phase /\ x.todo = r.todo \ {i} /\ x.done = r.done \cup {i}
              /\ x.seen = l
            BY <1>00 DEF Operation
        <3>3. Set(o, x)
            BY <2>4 DEF l
        <3> HIDE DEF x
        <3>4. s = x /\ Open(o)' /\ \A q \in Ops \ {o} : op'[q] = op[q]
            BY <3>1, <3>3, SetEffect
        <3>5. CreatesNext(r, s)
            BY <2>1, <2>4, <3>2, <3>4 DEF CreatesNext, Write, l
        <3> QED BY <1>0, <2>4, <3>1, <3>4, <3>5 DEF Write
    <2> HIDE DEF Goal
    <2> QED BY <1>3, <2>2, <2>3, <2>4 DEF CreateNext
<1>4. CASE AllCreated(o)
    <2> DEFINE p == IF r.done = {} THEN "failed" ELSE "ok"
    <2>0. p \in {"failed", "ok"}
        OBVIOUS
    <2> HIDE DEF p
    <2> DEFINE x == [r EXCEPT !.phase = p]
    <2>1. x \in Operation /\ SameRequest(r, x) /\ (x.mixed <=> r.mixed)
        BY <1>00, <2>0 DEF Operation, SameRequest
    <2>2. x.phase = p /\ x.todo = r.todo /\ x.done = r.done /\ x.seen = r.seen
        BY <1>00 DEF Operation
    <2>3. Set(o, x) /\ UNCHANGED <<rows, torn>> /\ r.kind = "bulk" /\ r.phase = "checked"
        BY <1>4 DEF AllCreated, Checked, p
    <2> HIDE DEF x
    <2>4. s = x /\ Open(o)' /\ \A q \in Ops \ {o} : op'[q] = op[q]
        BY <2>1, <2>3, SetEffect
    <2>5. Advances(r, s)
        BY <2>0, <2>2, <2>3, <2>4 DEF Advances
    <2> QED BY <1>0, <2>1, <2>3, <2>4, <2>5
<1>5. CASE CheckMove(o)
    <2>1. r.kind = "move" /\ r.phase = "sent" /\ Sent(o, r.kind)
        BY <1>5 DEF CheckMove, Sent
    <2>2. CASE Fail(o)
        BY <1>01, <2>1, <2>2
    <2>3. CASE ~Fail(o)
        BY <1>5, <1>03, <2>1, <2>3 DEF CheckMove
    <2> QED BY <2>2, <2>3
<1>6. CASE SaveMove(o)
    <2>1. r.kind = "move" /\ r.phase = "checked"
        BY <1>6 DEF SaveMove, Checked
    <2>2. CASE Fail(o)
        BY <1>01, <2>1, <2>2
    <2>3. CASE ~Fail(o)
        <3>1. PICK i \in r.todo : /\ Write(o, i, r.plan[i], r.seen)
                                 /\ Set(o, [r EXCEPT !.phase = "ok"])
            BY <1>6, <2>3 DEF SaveMove
        <3> QED BY <1>02, <2>1, <3>1
    <2> QED BY <2>2, <2>3
<1>7. CASE Destroy(o)
    <2>1. r.kind = "remove" /\ r.phase = "sent"
        BY <1>7 DEF Destroy, Sent
    <2>2. CASE Fail(o)
        BY <1>01, <2>1, <2>2
    <2>3. CASE ~Fail(o)
        <3> DEFINE x == [r EXCEPT !.phase = "ok"]
        <3>1. x \in Operation /\ SameRequest(r, x) /\ (x.mixed <=> r.mixed)
            BY <1>00 DEF Operation, SameRequest
        <3>2. x.phase = "ok" /\ x.todo = r.todo /\ x.done = r.done /\ x.seen = r.seen
            BY <1>00 DEF Operation
        <3>3. /\ Set(o, x) /\ r.todo # {} /\ rows' = Put(rows, Nowhere, r.todo)
              /\ torn' = torn \cup (Users \ {r.user})
            BY <1>7, <2>3 DEF Destroy
        <3> HIDE DEF x
        <3>4. s = x /\ Open(o)' /\ \A q \in Ops \ {o} : op'[q] = op[q]
            BY <3>1, <3>3, SetEffect
        <3>5. Removes(r, s)
            BY <2>1, <3>2, <3>3, <3>4 DEF Removes
        <3> QED BY <1>0, <3>1, <3>3, <3>4, <3>5
    <2> QED BY <2>2, <2>3
<1>8. CASE ReadRows(o)
    <2> DEFINE l == OfConfig(rows, r.config)
    <2>0. l \in Places
        BY <1>00, ListTypes DEF TypeOK, Operation
    <2> HIDE DEF l
    <2> DEFINE x == [r EXCEPT !.phase = "ok", !.seen = l]
    <2>1. x \in Operation /\ SameRequest(r, x) /\ (x.mixed <=> r.mixed)
        BY <1>00, <2>0 DEF Operation, SameRequest
    <2>2. x.phase = "ok" /\ x.todo = r.todo /\ x.done = r.done /\ x.seen = l
        BY <1>00 DEF Operation
    <2>3. Set(o, x) /\ UNCHANGED <<rows, torn>> /\ r.kind = "fetch"
        BY <1>8 DEF ReadRows, Sent, l
    <2> HIDE DEF x
    <2>4. s = x /\ Open(o)' /\ \A q \in Ops \ {o} : op'[q] = op[q]
        BY <2>1, <2>3, SetEffect
    <2>5. Lists(r, s)
        BY <2>2, <2>3, <2>4 DEF Lists, l
    <2> QED BY <1>0, <2>1, <2>3, <2>4, <2>5
<1>9. CASE Lose(o)
    <2>1. /\ Set(o, [r EXCEPT !.phase = "failed"]) /\ rows' = rows /\ torn \subseteq torn'
          /\ r.phase = "ok" => r.user \in torn'
        BY <1>9 DEF Lose
    <2> QED BY <1>0, <2>1, FailEffect
<1> HIDE DEF Goal
<1> QED BY <1>1, <1>2, <1>3, <1>4, <1>5, <1>6, <1>7, <1>8, <1>9 DEF Serve
-----------------------------------------------------------------------------
(* The page's answer ends one operation, and changes one user's page.      *)
LEMMA ReceiveEffect ==
    ASSUME TypeOK, NEW o \in Ops, Receive(o)
    PROVE  /\ Open(o) /\ ~Open(o)' /\ op[o].user \in Users
           /\ \A q \in Ops \ {o} : op'[q] = op[q]
           /\ UNCHANGED <<rows, used, sel, version>>
           /\ \A v \in Users \ {op[o].user} :
                  shown'[v] = shown[v] /\ temp'[v] = temp[v] /\ (v \in torn' <=> v \in torn)
<1>1. Open(o) /\ op' = [op EXCEPT ![o] = None] /\ UNCHANGED <<rows, used, sel, version>>
    BY DEF Receive, Created, NotCreated, CreatedMultiple, NotCreatedMultiple, Moved, Removed,
           RolledBack, Fetched, Close, Ends
<1> DEFINE u == op[o].user
<1>2. u \in Users
    BY <1>1, OpenType DEF Operation
<1>3. \A v \in Users \ {u} : v \in torn' <=> v \in torn
    BY DEF Receive, Created, NotCreated, CreatedMultiple, NotCreatedMultiple, Moved, Removed,
           RolledBack, Fetched, Close
<1>4. \A v \in Users \ {u} : shown'[v] = shown[v]
    BY DEF Receive, Created, NotCreated, CreatedMultiple, NotCreatedMultiple, Moved, Removed,
           RolledBack, Fetched, Show, TypeOK
<1>5. \A v \in Users \ {u} : temp'[v] = temp[v]
    BY DEF Receive, Created, NotCreated, CreatedMultiple, NotCreatedMultiple, Moved, Removed,
           RolledBack, Fetched, TypeOK
<1> HIDE DEF u
<1> QED BY <1>1, <1>2, <1>3, <1>4, <1>5 DEF Open, TypeOK, u

(* A step that leaves a page and what its user's operations write alone.   *)
LEMMA PageStill ==
    ASSUME NEW v \in Users, rows' = rows, sel'[v] = sel[v], version'[v] = version[v],
           shown'[v] = shown[v], temp'[v] = temp[v], WritesOf(v)' = WritesOf(v),
           \A q \in WritesOf(v) : op'[q] = op[q], Right(v)
    PROVE  Right(v)'
<1>1. \A r, i : Stored(r, i)' <=> Stored(r, i)
    BY DEF Stored
<1>2. Settled(v)'
    BY DEF Right, Settled
<1>3. Apart(v)'
    BY DEF Right, Apart
<1>4. \A o \in WritesOf(v)' : Anticipated(v, o)'
    BY <1>1 DEF Right, Anticipated
<1> QED BY <1>2, <1>3, <1>4 DEF Right

(* What another user does to the page of user v: nothing, or it spoils it. *)
LEMMA Bystander ==
    ASSUME NEW v \in Users, rows' = rows, sel'[v] = sel[v], version'[v] = version[v],
           shown'[v] = shown[v], temp'[v] = temp[v], v \in torn => v \in torn',
           \A q \in Ops : q \in OpenOf(v)' <=> q \in OpenOf(v),
           \A q \in OpenOf(v) : op'[q] = op[q],
           Sure(v) => Right(v), Sure(v)'
    PROVE  Right(v)'
<1>1. OpenOf(v)' = OpenOf(v) /\ WritesOf(v)' = WritesOf(v)
    BY DEF OpenOf, WritesOf
<1>2. Sure(v)
    BY <1>1 DEF Sure, Fetching
<1>3. \A q \in WritesOf(v) : op'[q] = op[q]
    BY DEF WritesOf
<1> QED BY <1>1, <1>2, <1>3, PageStill

(* Nothing of an operation that stays is disturbed by a later version.     *)
LEMMA OrderlyLater ==
    ASSUME NEW r, NEW s, Orderly(r), SameRequest(r, s), SameProgress(r, s),
           r.version \in Nat, version[r.user] \in Nat, version'[r.user] \in Nat,
           version'[r.user] >= version[r.user],
           version'[r.user] = version[r.user] => sel'[r.user] = sel[r.user]
    PROVE  /\ s.kind # "bulk" => s.done = {} /\ \A i, j \in s.todo : i = j
           /\ s.kind = "bulk" => \A i \in s.todo \cup s.done : s.plan[i] # None
           /\ s.kind = "bulk" /\ s.phase = "sent" => s.done = {}
           /\ s.kind = "remove" => \A i \in s.todo : s.plan[i] = None
           /\ s.kind = "fetch" => s.todo = {}
           /\ s.kind \in {"move", "remove"} /\ s.todo = {} => s.phase \in {"sent", "failed"}
           /\ s.version <= version'[s.user]
           /\ s.version = version'[s.user] => s.config = sel'[s.user]
BY DEF Orderly, SameRequest, SameProgress

(* Sending a request keeps the operations in order and the overlaps noted. *)
LEMMA SendKeepsOrder ==
    ASSUME PageInv, TypeOK', NEW o \in Ops, NEW u \in Users, op[o] = None,
           NEW kind \in Kinds, NEW I \in SUBSET Ids, NEW P \in Places, Send(o, u, kind, I, P),
           kind # "bulk" => \A i, j \in I : i = j,
           kind = "bulk" => \A i \in I : P[i] # None,
           kind = "remove" => \A i \in I : P[i] = None,
           kind = "fetch" => I = {},
           \A v \in Users : /\ version'[v] >= version[v]
                            /\ version'[v] = version[v] => sel'[v] = sel[v]
    PROVE  AllOrderly' /\ OverlapsNoted'
<1>0. TypeOK
    BY DEF PageInv
<1>1. /\ Open(o)' /\ op'[o].kind = kind /\ op'[o].user = u /\ op'[o].phase = "sent"
      /\ op'[o].todo = I /\ op'[o].plan = P /\ op'[o].done = {}
      /\ op'[o].seen \in {shown[u], Nowhere}
      /\ op'[o].before = shown[u] /\ op'[o].beforeTemp = temp[u]
      /\ op'[o].config = sel'[u] /\ op'[o].version = version'[u]
    BY <1>0, SentRecord
<1>6. op'[o].mixed = (WritesOf(u) # {})
    BY SentMixed
<1>2. ASSUME NEW q \in Ops \ {o}
      PROVE  /\ Open(q)' <=> Open(q)
             /\ Open(q) => /\ SameRequest(op[q], op'[q]) /\ SameProgress(op[q], op'[q])
                           /\ op'[q].user = op[q].user /\ op'[q].kind = op[q].kind
                           /\ op'[q].mixed <=> (op[q].mixed \/ (op[q].user = u /\ Writes(kind)))
    <2>1. Open(q) => SameRequest(op[q], op'[q])
        BY <1>0, SentOthers
    <2> QED BY <1>0, <2>1, SentOthers DEF SameRequest
<1>3. Orderly(op[o])'
    <2>1. op'[o].version <= version'[op'[o].user]
        BY <1>1 DEF TypeOK
    <2> QED BY <1>1, <2>1 DEF Orderly
<1>4. ASSUME NEW q \in Ops \ {o}, Open(q)' PROVE Orderly(op[q])'
    <2>1. Open(q) /\ SameRequest(op[q], op'[q]) /\ SameProgress(op[q], op'[q])
        BY <1>4, <1>2
    <2>2. op[q] \in Operation /\ Orderly(op[q])
        BY <1>0, <2>1, OpenType DEF PageInv, AllOrderly
    <2>3. op[q].version \in Nat /\ op[q].user \in Users
        BY <2>2 DEF Operation
    <2>4. version[op[q].user] \in Nat /\ version'[op[q].user] \in Nat
        BY <1>0, <2>3 DEF TypeOK
    <2> QED BY <2>1, <2>2, <2>3, <2>4, OrderlyLater DEF Orderly
<1>5. ASSUME NEW v \in Users, NEW a \in OpenOf(v)', NEW b \in WritesOf(v)', a # b
      PROVE  op'[a].mixed
    <2>1. a \in Ops /\ b \in Ops /\ Open(a)' /\ Open(b)' /\ op'[a].user = v /\ op'[b].user = v
          /\ Writes(op'[b].kind)
        BY DEF OpenOf, WritesOf
    <2>2. CASE b = o
        <3>1. v = u /\ Writes(kind) /\ Open(a) /\ op[a].user = u
            BY <1>5, <1>1, <1>2, <2>1, <2>2
        <3> QED BY <1>5, <1>2, <2>1, <2>2, <3>1
    <2>3. CASE a = o
        <3>1. v = u /\ Open(b) /\ op[b].user = v /\ op[b].kind = op'[b].kind
            BY <1>5, <1>1, <1>2, <2>1, <2>3
        <3>2. b \in WritesOf(u)
            BY <2>1, <3>1 DEF WritesOf, OpenOf
        <3> QED BY <1>1, <1>6, <2>3, <3>2
    <2>4. CASE a # o /\ b # o
        <3>1. /\ Open(a) /\ Open(b) /\ op[a].user = v /\ op[b].user = v
              /\ op[b].kind = op'[b].kind
            BY <1>2, <2>1, <2>4
        <3>2. a \in OpenOf(v) /\ b \in WritesOf(v)
            BY <2>1, <3>1 DEF WritesOf, OpenOf
        <3>3. op[a].mixed
            BY <1>5, <3>2 DEF PageInv, OverlapsNoted
        <3> QED BY <1>2, <2>1, <2>4, <3>1, <3>3
    <2> QED BY <2>2, <2>3, <2>4
<1> QED BY <1>3, <1>4, <1>5 DEF AllOrderly, OverlapsNoted

(* So does sending one keep away what was never created.                   *)
LEMMA SendKeepsUsed ==
    ASSUME PageInv, TypeOK', NEW o \in Ops, NEW u \in Users, op[o] = None,
           NEW kind \in Kinds, NEW I \in SUBSET Ids, NEW P \in Places, Send(o, u, kind, I, P),
           used \subseteq used', I \subseteq used',
           \A v \in Users, i \in Ids \ used' : shown'[v][i] = None
    PROVE  UsedBefore'
<1>0. TypeOK
    BY DEF PageInv
<1> SUFFICES ASSUME NEW i \in Ids \ used', NEW q \in Ops, Open(q)'
             PROVE  /\ i \notin op'[q].todo \cup op'[q].done
                    /\ op'[q].seen[i] = None /\ op'[q].before[i] = None
    <2>1. \A i \in Ids \ used' : rows'[i] = None
        BY DEF Send, PageInv, UsedBefore
    <2> QED BY <2>1 DEF UsedBefore
<1>1. i \in Ids \ used /\ shown[u][i] = None /\ Nowhere[i] = None
    BY DEF PageInv, UsedBefore, Nowhere
<1>2. CASE q = o
    <2>1. /\ Open(o)' /\ op'[o].kind = kind /\ op'[o].user = u /\ op'[o].phase = "sent"
          /\ op'[o].todo = I /\ op'[o].plan = P /\ op'[o].done = {}
          /\ op'[o].seen \in {shown[u], Nowhere}
          /\ op'[o].before = shown[u] /\ op'[o].beforeTemp = temp[u]
          /\ op'[o].config = sel'[u] /\ op'[o].version = version'[u]
        BY <1>0, SentRecord
    <2> QED BY <1>1, <1>2, <2>1
<1>3. CASE q # o
    <2>1. Open(q) /\ SameRequest(op[q], op'[q]) /\ SameProgress(op[q], op'[q])
        BY <1>0, <1>3, SentOthers
    <2> QED BY <1>1, <2>1 DEF PageInv, UsedBefore, SameRequest, SameProgress
<1> QED BY <1>2, <1>3

(* A step of the server keeps all this.                                    *)
LEMMA ServeKeepsOrder ==
    ASSUME PageInv, NEW o \in Ops, Serve(o)
    PROVE  UsedBefore' /\ AllOrderly' /\ OverlapsNoted'
<1> DEFINE r == op[o]
           s == op'[o]
<1>0. /\ TypeOK /\ Open(o) /\ Open(o)' /\ \A q \in Ops \ {o} : op'[q] = op[q]
      /\ SameRequest(r, s) /\ (s.mixed <=> r.mixed)
      /\ UNCHANGED <<used, sel, version, shown, temp>>
    BY ServeEffect DEF PageInv
<1>1. \/ Fails(r, s) \/ Looks(r, s) \/ Saves(r, s) \/ CreatesNext(r, s)
      \/ Advances(r, s) \/ Removes(r, s) \/ Lists(r, s)
    BY <1>0, ServeEffect
<1>2. Orderly(r) /\ r \in Operation
    BY <1>0, OpenType DEF PageInv, AllOrderly
<1>3. \A i \in Ids \ used : /\ rows[i] = None /\ i \notin r.todo \cup r.done
                            /\ r.seen[i] = None /\ r.before[i] = None
    BY <1>0 DEF PageInv, UsedBefore
<1> HIDE DEF r, s
<1>4. /\ s.kind # "bulk" => s.done = {} /\ \A i, j \in s.todo : i = j
      /\ s.kind = "bulk" => \A i \in s.todo \cup s.done : s.plan[i] # None
      /\ s.kind = "bulk" /\ s.phase = "sent" => s.done = {}
      /\ s.kind = "remove" => \A i \in s.todo : s.plan[i] = None
      /\ s.kind = "fetch" => s.todo = {}
      /\ s.kind \in {"move", "remove"} /\ s.todo = {} => s.phase \in {"sent", "failed"}
      /\ s.version <= version[s.user]
      /\ s.version = version[s.user] => s.config = sel[s.user]
    <2>1. /\ s.kind = r.kind /\ s.plan = r.plan /\ s.user = r.user /\ s.version = r.version
          /\ s.config = r.config
        BY <1>0 DEF SameRequest
    <2>2. s.todo \subseteq r.todo /\ s.todo \cup s.done \subseteq r.todo \cup r.done
        BY <1>1 DEF Fails, Looks, Saves, CreatesNext, Advances, Removes, Lists
    <2>3. r.kind # "bulk" => s.done = r.done /\ s.todo = r.todo
        BY <1>1 DEF Fails, Looks, Saves, CreatesNext, Advances, Removes, Lists
    <2>4. r.kind = "bulk" /\ s.phase = "sent" => FALSE
        BY <1>1 DEF Fails, Looks, Saves, CreatesNext, Advances, Removes, Lists
    <2>5. r.kind \in {"move", "remove"} /\ r.todo = {} => s.phase \in {"sent", "failed"}
        BY <1>1 DEF Fails, Looks, Saves, CreatesNext, Advances, Removes, Lists
    <2>6. /\ r.version <= version[r.user]
          /\ r.version = version[r.user] => r.config = sel[r.user]
        BY <1>2 DEF Orderly
    <2>7. s.kind # "bulk" => s.done = {} /\ \A i, j \in s.todo : i = j
        BY <1>2, <2>1, <2>3 DEF Orderly
    <2>8. s.kind = "bulk" => \A i \in s.todo \cup s.done : s.plan[i] # None
        BY <1>2, <2>1, <2>2 DEF Orderly
    <2>9. /\ s.kind = "remove" => \A i \in s.todo : s.plan[i] = None
          /\ s.kind = "fetch" => s.todo = {}
        BY <1>2, <2>1, <2>2, <2>3 DEF Orderly
    <2> QED BY <2>1, <2>3, <2>4, <2>5, <2>6, <2>7, <2>8, <2>9
<1>5. AllOrderly'
    <2>1. \A q \in Ops \ {o} : Open(q)' => Open(q) /\ Orderly(op[q])
        BY <1>0 DEF Open, PageInv, AllOrderly
    <2>2. Orderly(op[o])'
        BY <1>0, <1>4 DEF Orderly, s
    <2> QED BY <1>0, <2>1, <2>2 DEF AllOrderly, Orderly
<1>6. \A v \in Users : OpenOf(v)' = OpenOf(v) /\ WritesOf(v)' = WritesOf(v)
    <2>1. \A q \in Ops : /\ Open(q)' <=> Open(q)
                         /\ op'[q].user = op[q].user /\ op'[q].kind = op[q].kind
        BY <1>0 DEF Open, SameRequest, r, s
    <2> QED BY <2>1 DEF OpenOf, WritesOf
<1>7. \A q \in Ops : op'[q].mixed <=> op[q].mixed
    BY <1>0 DEF r, s
<1>8. OverlapsNoted'
    <2> SUFFICES ASSUME NEW v \in Users, NEW a \in OpenOf(v), NEW b \in WritesOf(v), a # b
                 PROVE  op'[a].mixed
        BY <1>6 DEF OverlapsNoted
    <2>1. op[a].mixed /\ a \in Ops
        BY DEF PageInv, OverlapsNoted, OpenOf
    <2> QED BY <1>7, <2>1
<1>9. \A i \in Ids \ used : /\ rows'[i] = None /\ i \notin s.todo \cup s.done
                            /\ s.seen[i] = None /\ s.before[i] = None
    <2> TAKE i \in Ids \ used
    <2>1. rows[i] = None /\ i \notin r.todo \cup r.done /\ r.seen[i] = None /\ r.before[i] = None
        BY <1>3
    <2>2. rows \in Places /\ r.seen \in Places
        BY <1>0, <1>2 DEF TypeOK, Operation
    <2>3. Put(rows, Nowhere, r.todo)[i] = None /\ OfConfig(rows, r.config)[i] = None
        BY <2>1 DEF Put, OfConfig
    <2>4. s.before = r.before
        BY <1>0 DEF SameRequest
    <2>5. i \notin s.todo \cup s.done
        BY <1>1, <2>1 DEF Fails, Looks, Saves, CreatesNext, Advances, Removes, Lists
    <2>6. rows'[i] = None
        BY <1>1, <2>1, <2>2, <2>3
           DEF Fails, Looks, Saves, CreatesNext, Advances, Removes, Lists, Places
    <2>7. s.seen[i] = None
        BY <1>1, <2>1, <2>2, <2>3
           DEF Fails, Looks, Saves, CreatesNext, Advances, Removes, Lists, Places
    <2> QED BY <2>1, <2>4, <2>5, <2>6, <2>7
<1>10. UsedBefore'
    <2>1. \A q \in Ops \ {o} : Open(q)' => Open(q)
        BY <1>0 DEF Open
    <2> QED BY <1>0, <1>9, <2>1 DEF UsedBefore, PageInv, s
<1> QED BY <1>5, <1>8, <1>10

(* So does an answer.                                                      *)
LEMMA ReceiveKeepsOrder ==
    ASSUME PageInv, NEW o \in Ops, Receive(o)
    PROVE  UsedBefore' /\ AllOrderly' /\ OverlapsNoted'
<1>0. /\ TypeOK /\ Open(o) /\ ~Open(o)' /\ op[o].user \in Users
      /\ \A q \in Ops \ {o} : op'[q] = op[q]
      /\ UNCHANGED <<rows, used, sel, version>>
      /\ \A v \in Users \ {op[o].user} : shown'[v] = shown[v]
    BY ReceiveEffect DEF PageInv
<1>1. \A q \in Ops : Open(q)' => Open(q) /\ op'[q] = op[q]
    BY <1>0 DEF Open
<1>2. AllOrderly'
    BY <1>0, <1>1 DEF AllOrderly, Orderly, PageInv
<1>3. OverlapsNoted'
    <2>1. \A v \in Users : OpenOf(v)' \subseteq OpenOf(v) /\ WritesOf(v)' \subseteq WritesOf(v)
        BY <1>1 DEF OpenOf, WritesOf
    <2> SUFFICES ASSUME NEW v \in Users, NEW a \in OpenOf(v)', NEW b \in WritesOf(v)', a # b
                 PROVE  op'[a].mixed
        BY DEF OverlapsNoted
    <2>2. a \in OpenOf(v) /\ b \in WritesOf(v) /\ a \in Ops /\ Open(a)'
        BY <2>1 DEF OpenOf
    <2>3. op[a].mixed /\ op'[a] = op[a]
        BY <1>1, <2>2 DEF PageInv, OverlapsNoted
    <2> QED BY <2>3
<1>4. ASSUME NEW i \in Ids \ used PROVE shown'[op[o].user][i] = None
    <2> DEFINE u == op[o].user
    <2>1. /\ shown[u][i] = None /\ i \notin op[o].todo \cup op[o].done
          /\ op[o].seen[i] = None /\ op[o].before[i] = None /\ Nowhere[i] = None
          /\ u \in Users /\ shown \in [Users -> Places]
        BY <1>0 DEF PageInv, UsedBefore, Nowhere, TypeOK
    <2> HIDE DEF u
    <2>2. \A I, P : Show(u, I, P) => shown'[u][i] = IF i \in I THEN P[i] ELSE None
        BY <2>1 DEF Show, Put
    <2>3. CASE Created(o)
        BY <2>1, <2>2, <2>3 DEF Created, u
    <2>4. CASE NotCreated(o)
        BY <2>1, <2>2, <2>4 DEF NotCreated, u
    <2>5. CASE CreatedMultiple(o)
        BY <2>1, <2>5 DEF CreatedMultiple, Put, u
    <2>6. CASE NotCreatedMultiple(o)
        BY <2>1, <2>2, <2>6 DEF NotCreatedMultiple, u
    <2>7. CASE Moved(o)
        BY <2>1, <2>2, <2>7 DEF Moved, u
    <2>8. CASE Removed(o)
        BY <2>1, <2>8 DEF Removed, u
    <2>9. CASE RolledBack(o)
        BY <2>1, <2>9 DEF RolledBack, u
    <2>10. CASE Fetched(o)
        BY <2>1, <2>10 DEF Fetched, u
    <2> QED BY <2>3, <2>4, <2>5, <2>6, <2>7, <2>8, <2>9, <2>10 DEF Receive, u
<1>5. UsedBefore'
    <2>1. \A v \in Users, i \in Ids \ used : shown'[v][i] = None
        BY <1>0, <1>4 DEF PageInv, UsedBefore
    <2> QED BY <1>0, <1>1, <2>1 DEF PageInv, UsedBefore
<1> QED BY <1>2, <1>3, <1>5
-----------------------------------------------------------------------------
(* A page that is not spoiled after its user's request was not before.     *)
LEMMA SureBeforeSend ==
    ASSUME TypeOK, TypeOK', NEW o \in Ops, NEW u \in Users, op[o] = None,
           NEW kind \in Kinds, NEW I \in SUBSET Ids, NEW P \in Places, Send(o, u, kind, I, P),
           UNCHANGED version, Sure(u)'
    PROVE  Sure(u)
<1>1. u \notin torn
    BY DEF Sure, Send
<1>2. ASSUME NEW q \in OpenOf(u)
      PROVE  /\ q \in OpenOf(u)' /\ op'[q].kind = op[q].kind /\ op'[q].version = op[q].version
             /\ Doomed(op[q]) => Doomed(op'[q])
    <2>1. q \in Ops \ {o} /\ Open(q) /\ op[q].user = u
        BY DEF OpenOf, Open
    <2>2. Open(q)' /\ SameRequest(op[q], op'[q]) /\ SameProgress(op[q], op'[q])
        BY <2>1, SentOthers
    <2>3. op[q].mixed => op'[q].mixed
        BY <2>1, SentOthers
    <2> QED BY <2>1, <2>2, <2>3 DEF OpenOf, SameRequest, SameProgress, Doomed
<1>3. ~Fetching(u)
    BY <1>2 DEF Sure, Fetching
<1>4. \A q \in OpenOf(u) : ~Doomed(op[q])
    BY <1>2 DEF Sure
<1> QED BY <1>1, <1>3, <1>4 DEF Sure

(* Moving or deleting an entry that waits for its creation spoils the page:*)
(* it fails, and takes the list back to what it was meanwhile.             *)
LEMMA NothingToSend ==
    ASSUME PageInv, TypeOK', NEW o \in Ops, NEW u \in Users, op[o] = None,
           NEW kind \in {"move", "remove"}, NEW P \in Places, Send(o, u, kind, {}, P),
           NEW i \in temp[u], UNCHANGED version
    PROVE  ~Sure(u)'
<1> SUFFICES ASSUME Sure(u)' PROVE FALSE
    OBVIOUS
<1>0. TypeOK /\ kind \in Kinds /\ i \in Ids /\ {} \in SUBSET Ids
    BY DEF PageInv, Kinds, TypeOK
<1>1. Right(u)
    BY <1>0, SureBeforeSend DEF PageInv
<1>2. WritesOf(u) # {}
    BY <1>0, <1>1 DEF Right, Settled
<1>3. /\ Open(o)' /\ op'[o].kind = kind /\ op'[o].user = u /\ op'[o].phase = "sent"
      /\ op'[o].todo = {} /\ op'[o].plan = P /\ op'[o].done = {}
      /\ op'[o].seen \in {shown[u], Nowhere}
      /\ op'[o].before = shown[u] /\ op'[o].beforeTemp = temp[u]
      /\ op'[o].config = sel'[u] /\ op'[o].version = version'[u]
    BY <1>0, SentRecord
<1>4. op'[o].mixed
    BY <1>2, SentMixed
<1>5. o \in OpenOf(u)' /\ Doomed(op'[o])
    BY <1>3, <1>4 DEF OpenOf, Doomed
<1> QED BY <1>5 DEF Sure

(* The page looks at its list, changes it and sends a request that writes  *)
(* the structures I.                                                       *)
PageSends(u, kind, I, P) ==
    /\ UNCHANGED <<sel, version>>
    /\ kind = "bulk" => \A i \in Ids : P[i] # None <=> i \in I
    /\ kind # "remove" => \A i \in I : P[i] # None
    /\ \A i \in Ids : shown'[u][i] = IF i \in I THEN P[i] ELSE shown[u][i]
    /\ temp'[u] = IF kind \in {"create", "bulk"} THEN temp[u] \cup I ELSE temp[u]
    /\ kind \in {"create", "bulk"} => \A i \in I : i \notin used /\ ConfigOf[i] = sel[u]
    /\ kind \in {"move", "remove"} => \A i \in I : shown[u][i] # None /\ i \notin temp[u]

(* A request that a user sends after a look at the page leaves the page    *)
(* right.                                                                  *)
LEMMA SendKeepsRight ==
    ASSUME PageInv, TypeOK', NEW o \in Ops, NEW u \in Users, op[o] = None,
           NEW kind \in Kinds, Writes(kind), NEW I \in SUBSET Ids, NEW P \in Places,
           Send(o, u, kind, I, P), PageSends(u, kind, I, P), Sure(u)'
    PROVE  Right(u)'
<1>0. TypeOK
    BY DEF PageInv
<1>00. rows' = rows
    BY DEF Send
<1>1. Right(u) /\ u \notin torn'
    BY <1>0, SureBeforeSend DEF PageInv, Sure, PageSends
<1>2. /\ Open(o)' /\ op'[o].kind = kind /\ op'[o].user = u /\ op'[o].phase = "sent"
      /\ op'[o].todo = I /\ op'[o].plan = P /\ op'[o].done = {}
      /\ op'[o].seen \in {shown[u], Nowhere}
      /\ op'[o].before = shown[u] /\ op'[o].beforeTemp = temp[u]
      /\ op'[o].config = sel'[u] /\ op'[o].version = version'[u]
    BY <1>0, SentRecord
<1>3. op'[o].mixed = (WritesOf(u) # {})
    BY SentMixed
<1>4. Concerns(op'[o]) = I
    BY <1>2 DEF Concerns, PageSends
<1>5. ASSUME NEW q \in WritesOf(u)
      PROVE  /\ q \in OpenOf(u)' /\ op'[q].mixed /\ q # o
             /\ SameRequest(op[q], op'[q]) /\ SameProgress(op[q], op'[q])
             /\ Concerns(op'[q]) = Concerns(op[q]) /\ Concerns(op[q]) \cap I = {}
    <2>1. q \in Ops \ {o} /\ Open(q) /\ op[q].user = u
        BY DEF WritesOf, OpenOf, Open
    <2>2. Open(q)' /\ SameRequest(op[q], op'[q]) /\ SameProgress(op[q], op'[q])
        BY <1>0, <2>1, SentOthers
    <2>3. op'[q].mixed
        BY <1>0, <2>1, SentOthers
    <2>4. q \in OpenOf(u)'
        BY <2>1, <2>2 DEF OpenOf, SameRequest
    <2>5. op[q].kind # "bulk"
        BY <2>2, <2>3, <2>4 DEF Sure, Doomed, SameRequest
    <2>6. Concerns(op'[q]) = Concerns(op[q]) /\ Concerns(op[q]) = op[q].todo
        BY <2>2, <2>5 DEF Concerns, SameRequest, SameProgress
    <2>7. op[q].todo \cap I = {}
        BY <1>1 DEF Send, WritesOf
    <2> QED BY <2>1, <2>2, <2>3, <2>4, <2>6, <2>7
<1>6. WritesOf(u)' = WritesOf(u) \cup {o}
    <2>1. \A q \in Ops \ {o} : q \in WritesOf(u)' => q \in WritesOf(u)
        <3> SUFFICES ASSUME NEW q \in Ops \ {o}, q \in WritesOf(u)' PROVE q \in WritesOf(u)
            OBVIOUS
        <3>1. Open(q)' /\ op'[q].user = u /\ Writes(op'[q].kind)
            BY DEF WritesOf, OpenOf
        <3>2. Open(q) /\ SameRequest(op[q], op'[q])
            BY <1>0, <3>1, SentOthers
        <3> QED BY <3>1, <3>2 DEF WritesOf, OpenOf, SameRequest
    <2>2. \A q \in WritesOf(u) : q \in WritesOf(u)'
        BY <1>5 DEF WritesOf, SameRequest
    <2>3. o \in WritesOf(u)'
        BY <1>2 DEF WritesOf, OpenOf
    <2> QED BY <2>1, <2>2, <2>3 DEF WritesOf, OpenOf
<1>7. \A i \in I, q \in WritesOf(u) : i \notin Concerns(op[q])
    BY <1>5
<1>8. ASSUME NEW i \in I PROVE ConfigOf[i] = sel[u]
    <2>1. CASE kind \in {"create", "bulk"}
        BY <2>1 DEF PageSends
    <2>2. CASE kind \in {"move", "remove"}
        <3>1. shown[u][i] = OfConfig(rows, sel[u])[i] /\ shown[u][i] # None
            BY <1>1, <1>7, <2>2 DEF Right, Settled, PageSends
        <3> QED BY <3>1 DEF OfConfig
    <2> QED BY <2>1, <2>2 DEF Kinds, Writes
<1>9. Settled(u)'
    <2> SUFFICES ASSUME NEW i \in Ids, \A q \in WritesOf(u)' : i \notin Concerns(op'[q])
                 PROVE  shown'[u][i] = OfConfig(rows, sel[u])[i] /\ i \notin temp'[u]
        BY <1>00 DEF Settled, PageSends
    <2>1. i \notin I /\ \A q \in WritesOf(u) : i \notin Concerns(op[q])
        BY <1>4, <1>5, <1>6
    <2> QED BY <1>1, <2>1 DEF Right, Settled, PageSends
<1>10. ASSUME NEW q \in WritesOf(u) PROVE Anticipated(u, q)'
    <2>1. /\ SameRequest(op[q], op'[q]) /\ SameProgress(op[q], op'[q])
          /\ Concerns(op'[q]) = Concerns(op[q]) /\ Concerns(op[q]) \cap I = {}
        BY <1>5
    <2>2. op'[q].mixed
        BY <1>5
    <2>3. Anticipated(u, q)
        BY <1>1 DEF Right
    <2>4. \A i : Stored(op[q], i) => Stored(op[q], i)'
        BY <1>00, <2>1 DEF Stored, SameRequest, SameProgress
    <2>5. Concerns(op[q]) \subseteq Ids
        <3>1. op[q] \in Operation
            BY <1>0, OpenType DEF WritesOf, OpenOf
        <3> QED BY <3>1 DEF Concerns, Operation
    <2>6. \A i \in Concerns(op[q]) : shown'[u][i] = shown[u][i] /\ (i \in temp'[u] <=> i \in temp[u])
        BY <2>1, <2>5 DEF PageSends
    <2> QED BY <2>1, <2>2, <2>3, <2>4, <2>6 DEF Anticipated, SameRequest, SameProgress, PageSends
<1>11. Anticipated(u, o)'
    <2>1. \A i \in I : Stored(op[o], i)'
        <3>1. kind \in {"create", "bulk"} => \A i \in I : rows[i] = None
            BY DEF PageInv, UsedBefore, PageSends
        <3> QED BY <1>00, <1>2, <3>1 DEF Stored
    <2>2. ~op'[o].mixed => op'[o].before = OfConfig(rows, sel[u]) /\ op'[o].beforeTemp = {}
        <3> SUFFICES ASSUME ~op'[o].mixed
                     PROVE  shown[u] = OfConfig(rows, sel[u]) /\ temp[u] = {}
            BY <1>2
        <3>1. WritesOf(u) = {}
            BY <1>3
        <3>2. \A i \in Ids : shown[u][i] = OfConfig(rows, sel[u])[i] /\ i \notin temp[u]
            BY <1>1, <3>1 DEF Right, Settled
        <3>3. shown[u] \in Places /\ OfConfig(rows, sel[u]) \in Places /\ temp[u] \subseteq Ids
            BY <1>0, ListTypes DEF TypeOK
        <3>4. shown[u] = OfConfig(rows, sel[u])
            BY <3>2, <3>3 DEF Places
        <3> QED BY <3>2, <3>3, <3>4
    <2>3. \A i \in I : i \in temp'[u] <=> kind \in {"create", "bulk"}
        BY DEF Kinds, Writes, PageSends
    <2>4. \A i \in I : shown'[u][i] = P[i]
        BY DEF PageSends
    <2>5. \A i \in Concerns(op'[o]) :
              /\ ConfigOf[i] = sel'[u] /\ shown'[u][i] = op'[o].plan[i]
              /\ i \in temp'[u] <=> op'[o].kind \in {"create", "bulk"}
              /\ op'[o].kind # "remove" => op'[o].plan[i] # None
        BY <1>2, <1>4, <1>8, <2>3, <2>4 DEF PageSends
    <2> QED BY <1>00, <1>2, <1>4, <2>1, <2>2, <2>5 DEF Anticipated, PageSends
<1>12. Apart(u)'
    <2> SUFFICES ASSUME NEW a \in WritesOf(u)', NEW b \in WritesOf(u)', b # a
                 PROVE  Concerns(op'[b]) \cap Concerns(op'[a]) = {}
        BY DEF Apart
    <2>1. CASE a = o \/ b = o
        BY <1>4, <1>5, <1>6, <2>1
    <2>2. CASE a # o /\ b # o
        BY <1>1, <1>5, <1>6, <2>2 DEF Right, Apart
    <2> QED BY <2>1, <2>2
<1> QED BY <1>6, <1>9, <1>10, <1>11, <1>12 DEF Right

(* A step of the server for a user's request leaves the user's page right. *)
LEMMA ServeKeepsRight ==
    ASSUME PageInv, NEW o \in Ops, Serve(o), NEW u \in Users, op[o].user = u, Sure(u)'
    PROVE  Right(u)'
<1> DEFINE r == op[o]
           s == op'[o]
<1>0. TypeOK
    BY DEF PageInv
<1>1. /\ Open(o) /\ Open(o)' /\ SameRequest(r, s) /\ (s.mixed <=> r.mixed)
      /\ UNCHANGED <<used, sel, version, shown, temp>> /\ torn \subseteq torn'
    BY <1>0, ServeEffect
<1>2. \A q \in Ops \ {o} : op'[q] = op[q]
    BY <1>0, ServeEffect
<1>3. \/ Fails(r, s) \/ Looks(r, s) \/ Saves(r, s) \/ CreatesNext(r, s)
      \/ Advances(r, s) \/ Removes(r, s) \/ Lists(r, s)
    BY <1>0, ServeEffect
<1>4. r \in Operation /\ Orderly(r) /\ o \in OpenOf(u)
    BY <1>0, <1>1, OpenType DEF PageInv, AllOrderly, OpenOf
<1>5. u \notin torn' /\ r.user = u
    BY DEF Sure
<1> HIDE DEF r, s
<1>6. s.kind = r.kind /\ s.plan = r.plan /\ s.user = u /\ s.version = r.version
    BY <1>1, <1>5 DEF SameRequest
<1>7. Concerns(s) = Concerns(r)
    <2>1. r.kind # "bulk" => s.todo = r.todo
        BY <1>3 DEF Fails, Looks, Saves, CreatesNext, Advances, Removes, Lists
    <2> QED BY <1>6, <2>1 DEF Concerns
<1>8. OpenOf(u)' = OpenOf(u) /\ WritesOf(u)' = WritesOf(u)
    <2>1. \A q \in Ops : /\ Open(q)' <=> Open(q)
                         /\ op'[q].user = op[q].user /\ op'[q].kind = op[q].kind
        BY <1>1, <1>2, <1>5, <1>6 DEF Open, r, s
    <2> QED BY <2>1 DEF OpenOf, WritesOf
<1>9. Sure(u)
    <2>1. Doomed(r) => Doomed(s)
        <3>1. r.kind \in {"move", "remove"} /\ r.todo = {} => s.todo = {}
            BY <1>3 DEF Fails, Looks, Saves, CreatesNext, Advances, Removes, Lists
        <3>2. r.kind \in {"move", "remove"} /\ r.phase = "failed" => s.phase = "failed"
            BY <1>3 DEF Fails, Looks, Saves, CreatesNext, Advances, Removes, Lists
        <3> QED BY <1>1, <1>6, <3>1, <3>2 DEF Doomed
    <2>2. ~Doomed(s)
        BY <1>4, <1>8 DEF Sure, s
    <2>3. \A q \in OpenOf(u) : ~Doomed(op[q])
        <3> TAKE q \in OpenOf(u)
        <3>1. CASE q = o
            BY <2>1, <2>2, <3>1 DEF r
        <3>2. CASE q # o
            <4>1. op'[q] = op[q] /\ q \in OpenOf(u)'
                BY <1>2, <1>8, <3>2 DEF OpenOf
            <4> QED BY <4>1 DEF Sure
        <3> QED BY <3>1, <3>2
    <2>4. \A q \in OpenOf(u) : op'[q].kind = op[q].kind /\ op'[q].version = op[q].version
        BY <1>2, <1>6 DEF OpenOf, r, s
    <2>5. ~Fetching(u)
        BY <1>1, <1>8, <2>4 DEF Sure, Fetching
    <2> QED BY <1>1, <1>5, <2>3, <2>5 DEF Sure
<1>10. Right(u)
    BY <1>9 DEF PageInv
<1>11. \A i \in Ids \ Concerns(r) : rows'[i] = rows[i]
    <2>1. \A i \in r.todo : i \in Concerns(r)
        BY <1>4 DEF Orderly, Concerns, Operation
    <2>2. rows \in Places
        BY <1>0 DEF TypeOK
    <2> QED BY <1>3, <2>1, <2>2
            DEF Fails, Looks, Saves, CreatesNext, Advances, Removes, Lists, Places, Put
<1>12. r.kind = "fetch" => rows' = rows /\ Concerns(r) = {}
    <2>1. r.kind = "fetch" => rows' = rows
        BY <1>3 DEF Fails, Looks, Saves, CreatesNext, Advances, Removes, Lists
    <2> QED BY <1>4, <2>1 DEF Orderly, Concerns
<1>13. o \in WritesOf(u) <=> r.kind # "fetch"
    BY <1>4 DEF WritesOf, Writes, r
<1>14. Settled(u)'
    <2> SUFFICES ASSUME NEW i \in Ids, \A q \in WritesOf(u) : i \notin Concerns(op'[q])
                 PROVE  shown'[u][i] = OfConfig(rows', sel'[u])[i] /\ i \notin temp'[u]
        BY <1>8 DEF Settled, OfConfig
    <2>1. \A q \in WritesOf(u) : i \notin Concerns(op[q])
        BY <1>2, <1>7 DEF WritesOf, OpenOf, r, s
    <2>2. shown[u][i] = OfConfig(rows, sel[u])[i] /\ i \notin temp[u]
        BY <1>10, <2>1 DEF Right, Settled
    <2>3. i \notin Concerns(r)
        BY <1>12, <1>13, <2>1 DEF r
    <2>4. rows'[i] = rows[i]
        BY <1>11, <2>3
    <2> QED BY <1>1, <2>2, <2>4 DEF OfConfig
<1>15. Apart(u)'
    <2> SUFFICES ASSUME NEW a \in WritesOf(u), NEW b \in WritesOf(u), b # a
                 PROVE  Concerns(op'[b]) \cap Concerns(op'[a]) = {}
        BY <1>8 DEF Apart
    <2>1. \A q \in WritesOf(u) : Concerns(op'[q]) = Concerns(op[q])
        BY <1>2, <1>7 DEF WritesOf, OpenOf, r, s
    <2> QED BY <1>10, <2>1 DEF Right, Apart
<1>16. ASSUME NEW q \in WritesOf(u), q # o PROVE Anticipated(u, q)'
    <2>1. op'[q] = op[q] /\ Anticipated(u, q) /\ op[q] \in Operation /\ q \in OpenOf(u)
        BY <1>0, <1>2, <1>10, <1>16, OpenType DEF Right, WritesOf, OpenOf
    <2>2. Concerns(op[q]) \subseteq Ids
        BY <2>1 DEF Concerns, Operation
    <2>3. Concerns(op[q]) \cap Concerns(r) = {}
        BY <1>10, <1>12, <1>13, <1>16 DEF Right, Apart, r
    <2>4. \A i \in Concerns(op[q]) : rows'[i] = rows[i]
        BY <1>11, <2>2, <2>3
    <2>5. \A i \in Concerns(op[q]) : Stored(op[q], i)'
        BY <2>1, <2>4 DEF Stored, Anticipated
    <2>6. ~op[q].mixed => rows' = rows
        <3>1. ~op[q].mixed => o \notin WritesOf(u)
            BY <1>16, <2>1 DEF PageInv, OverlapsNoted
        <3> QED BY <1>12, <1>13, <3>1
    <2>7. ~op[q].mixed => OfConfig(rows', sel[u]) = OfConfig(rows, sel[u])
        BY <2>6 DEF OfConfig
    <2>8. OfConfig(rows, sel[u])' = OfConfig(rows', sel[u])
        BY <1>1 DEF OfConfig
    <2> QED BY <1>1, <2>1, <2>5, <2>7, <2>8 DEF Anticipated
<1>17. ASSUME o \in WritesOf(u) PROVE Anticipated(u, o)'
    <2>1. Anticipated(u, o)
        BY <1>10, <1>17 DEF Right
    <2>2. Concerns(r) \subseteq Ids /\ rows \in Places
        BY <1>0, <1>4 DEF Concerns, Operation, TypeOK
    <2>3. /\ r.version = version[u]
          /\ \A i \in Concerns(r) :
                 /\ ConfigOf[i] = sel[u] /\ shown[u][i] = r.plan[i]
                 /\ i \in temp[u] <=> r.kind \in {"create", "bulk"}
                 /\ r.kind # "remove" => r.plan[i] # None
                 /\ Stored(r, i)
          /\ r.kind \in {"move", "remove"} /\ ~r.mixed /\ r.phase # "ok" =>
                 r.before = OfConfig(rows, sel[u]) /\ r.beforeTemp = {}
        BY <2>1 DEF Anticipated, r
    <2>4. r.phase = "ok" => ~Fails(r, s)
        BY <1>5 DEF Fails
    <2>5. ASSUME NEW i \in Concerns(r) PROVE Stored(op[o], i)'
        <3>1. Stored(r, i)
            BY <2>3
        <3>2. r.kind = "bulk" => rows'[i] = IF i \in s.done THEN s.plan[i] ELSE None
            BY <1>3, <1>6, <2>2, <3>1
               DEF Fails, Looks, Saves, CreatesNext, Advances, Removes, Lists, Places, Stored
        <3>3. r.kind = "create" => rows'[i] = IF s.phase = "ok" THEN s.plan[i] ELSE None
            <4>1. r.kind = "create" => i \in r.todo /\ \A j \in r.todo : j = i
                BY <1>4 DEF Orderly, Concerns
            <4> QED BY <1>3, <1>6, <2>2, <2>4, <3>1, <4>1
                    DEF Fails, Looks, Saves, CreatesNext, Advances, Removes, Lists, Places, Stored
        <3>4. r.kind = "move" => (s.phase = "ok" => rows'[i] = s.plan[i])
            <4>1. r.kind = "move" => i \in r.todo /\ \A j \in r.todo : j = i
                BY <1>4 DEF Orderly, Concerns
            <4> QED BY <1>3, <1>6, <2>2, <4>1
                    DEF Fails, Looks, Saves, CreatesNext, Advances, Removes, Lists, Places
        <3>5. r.kind = "remove" => (s.phase = "ok" => rows'[i] = s.plan[i])
            <4>1. r.kind = "remove" => i \in r.todo /\ r.plan[i] = None
                BY <1>4 DEF Orderly, Concerns
            <4> QED BY <1>3, <1>6, <2>2, <4>1
                    DEF Fails, Looks, Saves, CreatesNext, Advances, Removes, Lists, Put, Nowhere
        <3> QED BY <1>6, <3>2, <3>3, <3>4, <3>5 DEF Stored, s
    <2>6. r.kind \in {"move", "remove"} /\ s.phase # "ok" => r.phase # "ok" /\ rows' = rows
        BY <1>3, <2>4 DEF Fails, Looks, Saves, CreatesNext, Advances, Removes, Lists
    <2>7. s.before = r.before /\ s.beforeTemp = r.beforeTemp
        BY <1>1 DEF SameRequest
    <2>8. s.kind \in {"move", "remove"} /\ ~s.mixed /\ s.phase # "ok" =>
              s.before = OfConfig(rows', sel[u]) /\ s.beforeTemp = {}
        <3>1. rows' = rows => OfConfig(rows', sel[u]) = OfConfig(rows, sel[u])
            BY DEF OfConfig
        <3> QED BY <1>1, <1>6, <2>3, <2>6, <2>7, <3>1
    <2>9. OfConfig(rows, sel[u])' = OfConfig(rows', sel[u])
        BY <1>1 DEF OfConfig
    <2>10. \A i \in Concerns(s) :
              /\ ConfigOf[i] = sel[u] /\ shown[u][i] = s.plan[i]
              /\ i \in temp[u] <=> s.kind \in {"create", "bulk"}
              /\ s.kind # "remove" => s.plan[i] # None
        BY <1>6, <1>7, <2>3
    <2>11. \A i \in Concerns(s) : Stored(op[o], i)'
        BY <1>7, <2>5
    <2>12. s.version = version[u]
        BY <1>6, <2>3
    <2> QED BY <1>1, <2>8, <2>9, <2>10, <2>11, <2>12 DEF Anticipated, s
<1> QED BY <1>8, <1>14, <1>15, <1>16, <1>17 DEF Right

(* An answer that leaves the page right about what the operation was about *)
(* and as it was about the rest, leaves the page right.                    *)
LEMMA AnswerKeepsRight ==
    ASSUME PageInv, NEW o \in Ops, Receive(o), NEW u \in Users, op[o].user = u,
           Writes(op[o].kind), Right(u),
           \A i \in Ids : IF i \in Concerns(op[o])
                          THEN shown'[u][i] = OfConfig(rows, sel[u])[i] /\ i \notin temp'[u]
                          ELSE shown'[u][i] = shown[u][i] /\ (i \in temp'[u] <=> i \in temp[u])
    PROVE  Right(u)'
<1>0. TypeOK
    BY DEF PageInv
<1>1. Open(o) /\ ~Open(o)' /\ UNCHANGED <<used, sel, version>>
    BY <1>0, ReceiveEffect
<1>2. \A q \in Ops \ {o} : op'[q] = op[q]
    BY <1>0, ReceiveEffect
<1>3. rows' = rows
    BY <1>0, ReceiveEffect
<1>4. WritesOf(u)' = WritesOf(u) \ {o} /\ o \in WritesOf(u)
    BY <1>1, <1>2 DEF WritesOf, OpenOf, Open
<1>5. OfConfig(rows, sel[u])' = OfConfig(rows, sel[u])
    BY <1>1, <1>3 DEF OfConfig
<1>6. Settled(u)'
    <2> SUFFICES ASSUME NEW i \in Ids, \A q \in WritesOf(u)' : i \notin Concerns(op'[q])
                 PROVE  shown'[u][i] = OfConfig(rows, sel[u])[i] /\ i \notin temp'[u]
        BY <1>5 DEF Settled
    <2>1. CASE i \in Concerns(op[o])
        BY <2>1
    <2>2. CASE i \notin Concerns(op[o])
        <3>1. \A q \in WritesOf(u) : i \notin Concerns(op[q])
            BY <1>2, <1>4, <2>2 DEF WritesOf, OpenOf
        <3> QED BY <2>2, <3>1 DEF Right, Settled
    <2> QED BY <2>1, <2>2
<1>7. Apart(u)'
    <2> SUFFICES ASSUME NEW a \in WritesOf(u)', NEW b \in WritesOf(u)', b # a
                 PROVE  Concerns(op'[b]) \cap Concerns(op'[a]) = {}
        BY DEF Apart
    <2>1. \A q \in WritesOf(u)' : op'[q] = op[q] /\ q \in WritesOf(u)
        BY <1>2, <1>4 DEF WritesOf, OpenOf
    <2> QED BY <2>1 DEF Right, Apart
<1>8. ASSUME NEW q \in WritesOf(u)' PROVE Anticipated(u, q)'
    <2>1. q \in WritesOf(u) /\ q # o /\ op'[q] = op[q] /\ q \in Ops /\ Open(q)
        BY <1>2, <1>4, <1>8 DEF WritesOf, OpenOf
    <2>2. Concerns(op[q]) \subseteq Ids \ Concerns(op[o])
        <3>1. op[q] \in Operation
            BY <1>0, <2>1, OpenType
        <3>2. Concerns(op[q]) \cap Concerns(op[o]) = {}
            BY <1>4, <2>1 DEF Right, Apart
        <3> QED BY <3>1, <3>2 DEF Concerns, Operation
    <2>3. Anticipated(u, q)
        BY <2>1 DEF Right
    <2>4. \A i \in Concerns(op[q]) : shown'[u][i] = shown[u][i] /\ (i \in temp'[u] <=> i \in temp[u])
        BY <2>2
    <2>5. \A i \in Concerns(op[q]) : Stored(op[q], i)'
        BY <1>3, <2>1, <2>3 DEF Stored, Anticipated
    <2> QED BY <1>1, <1>5, <2>1, <2>3, <2>4, <2>5 DEF Anticipated
<1> QED BY <1>4, <1>6, <1>7, <1>8 DEF Right

(* Every answer but a list leaves the page right, or spoils it.            *)
LEMMA ReceiveKeepsRight ==
    ASSUME PageInv, NEW o \in Ops, Receive(o), ~Fetched(o), NEW u \in Users, op[o].user = u,
           Sure(u)'
    PROVE  Right(u)'
<1> DEFINE r == op[o]
<1>0. TypeOK
    BY DEF PageInv
<1>1. Open(o) /\ ~Open(o)' /\ UNCHANGED <<used, sel, version>>
    BY <1>0, ReceiveEffect
<1>2. \A q \in Ops \ {o} : op'[q] = op[q]
    BY <1>0, ReceiveEffect
<1>3. r \in Operation /\ Orderly(r) /\ o \in OpenOf(u)
    BY <1>0, <1>1, OpenType DEF PageInv, AllOrderly, OpenOf
<1>4. r.kind \in {"create", "bulk", "move", "remove"} /\ Writes(r.kind)
    BY DEF Receive, Created, NotCreated, CreatedMultiple, NotCreatedMultiple, Moved, Removed,
           RolledBack, Ends, Writes
<1>5. torn \subseteq torn' /\ u \notin torn'
    BY DEF Receive, Created, NotCreated, CreatedMultiple, NotCreatedMultiple, Moved, Removed,
           RolledBack, Close, Sure
<1>6. ~Doomed(r)
    <2>1. CASE r.kind = "create"
        BY <2>1 DEF Doomed
    <2>2. CASE r.kind = "bulk"
        <3>1. ~r.mixed
            BY <1>5, <2>2 DEF Receive, Created, NotCreated, CreatedMultiple, NotCreatedMultiple,
                              Moved, Removed, RolledBack, Ends, Close
        <3> QED BY <3>1 DEF Doomed
    <2>3. CASE r.kind \in {"move", "remove"}
        <3>1. CASE r.phase = "ok"
            BY <1>3, <2>3, <3>1 DEF Doomed, Orderly
        <3>2. CASE r.phase # "ok"
            <4>1. RolledBack(o)
                BY <2>3, <3>2 DEF Receive, Created, NotCreated, CreatedMultiple,
                                  NotCreatedMultiple, Moved, Removed, Ends
            <4>2. ~r.mixed
                BY <1>5, <4>1 DEF RolledBack, Close
            <4> QED BY <4>2 DEF Doomed
        <3> QED BY <3>1, <3>2
    <2> QED BY <1>4, <2>1, <2>2, <2>3
<1>7. OpenOf(u)' = OpenOf(u) \ {o}
    BY <1>1, <1>2 DEF OpenOf, Open
<1>8. Sure(u)
    <2>1. \A q \in OpenOf(u) \ {o} : op'[q] = op[q] /\ q \in OpenOf(u)'
        BY <1>2, <1>7 DEF OpenOf
    <2>2. r.kind # "fetch"
        BY <1>4
    <2>3. ~Fetching(u)
        BY <1>1, <2>1, <2>2 DEF Sure, Fetching
    <2>4. \A q \in OpenOf(u) : ~Doomed(op[q])
        BY <1>6, <2>1 DEF Sure
    <2> QED BY <1>5, <2>3, <2>4 DEF Sure
<1>9. Right(u)
    BY <1>8 DEF PageInv
<1>10. o \in WritesOf(u) /\ Anticipated(u, o)
    BY <1>3, <1>4, <1>9 DEF Right, WritesOf
<1>11. /\ r.version = version[u]
       /\ \A i \in Concerns(r) :
              /\ ConfigOf[i] = sel[u] /\ shown[u][i] = r.plan[i]
              /\ i \in temp[u] <=> r.kind \in {"create", "bulk"}
              /\ r.kind # "remove" => r.plan[i] # None
              /\ Stored(r, i)
       /\ r.kind \in {"move", "remove"} /\ ~r.mixed /\ r.phase # "ok" =>
              r.before = OfConfig(rows, sel[u]) /\ r.beforeTemp = {}
    BY <1>10 DEF Anticipated
<1>12. ~r.mixed => \A i \in Ids \ Concerns(r) :
                       shown[u][i] = OfConfig(rows, sel[u])[i] /\ i \notin temp[u]
    <2>1. ~r.mixed => \A q \in WritesOf(u) : q = o
        BY <1>3 DEF PageInv, OverlapsNoted
    <2> QED BY <1>9, <2>1 DEF Right, Settled
<1>13. \A i \in Concerns(r) : i \in Ids /\ OfConfig(rows, sel[u])[i] = rows[i]
    BY <1>3, <1>11 DEF OfConfig, Concerns, Operation
<1>14. shown \in [Users -> Places] /\ temp \in [Users -> SUBSET Ids]
    BY <1>0 DEF TypeOK
<1> HIDE DEF r
<1> SUFFICES \A i \in Ids : IF i \in Concerns(r)
                            THEN shown'[u][i] = OfConfig(rows, sel[u])[i] /\ i \notin temp'[u]
                            ELSE shown'[u][i] = shown[u][i] /\ (i \in temp'[u] <=> i \in temp[u])
    BY <1>4, <1>9, AnswerKeepsRight DEF r
<1> TAKE i \in Ids
<1>15. i \in Concerns(r) => /\ shown[u][i] = r.plan[i] /\ OfConfig(rows, sel[u])[i] = rows[i]
                            /\ i \in temp[u] <=> r.kind \in {"create", "bulk"}
                            /\ r.kind # "remove" => r.plan[i] # None
                            /\ Stored(r, i)
    BY <1>11, <1>13
<1>16. \A I, P : Show(u, I, P) => shown'[u][i] = IF i \in I THEN P[i] ELSE shown[u][i]
    BY <1>14 DEF Show, Put
<1>17. CASE Created(o)
    <2>1. /\ r.kind = "create" /\ r.phase = "ok" /\ temp'[u] = temp[u] \ r.todo
          /\ Show(u, temp[u] \cap r.todo, r.plan)
        BY <1>14, <1>17 DEF Created, Ends, r
    <2>2. Concerns(r) = r.todo
        BY <2>1 DEF Concerns
    <2> QED BY <1>15, <1>16, <2>1, <2>2 DEF Stored
<1>18. CASE NotCreated(o)
    <2>1. /\ r.kind = "create" /\ r.phase = "failed" /\ temp'[u] = temp[u] \ (temp[u] \cap r.todo)
          /\ Show(u, temp[u] \cap r.todo, Nowhere)
        BY <1>14, <1>18 DEF NotCreated, Ends, r
    <2>2. Concerns(r) = r.todo
        BY <2>1 DEF Concerns
    <2> QED BY <1>15, <1>16, <2>1, <2>2 DEF Stored, Nowhere
<1>19. CASE CreatedMultiple(o)
    <2>1. /\ r.kind = "bulk" /\ temp'[u] = {} /\ ~r.mixed
          /\ shown'[u] = Put(Put(shown[u], Nowhere, temp[u]), r.plan, r.done)
        BY <1>5, <1>14, <1>19 DEF CreatedMultiple, Ends, Close, r
    <2>2. r.done \subseteq Concerns(r)
        BY <1>3, <2>1 DEF Orderly, Concerns, r, Operation
    <2>3. shown'[u][i] = IF i \in r.done THEN r.plan[i]
                         ELSE IF i \in temp[u] THEN None ELSE shown[u][i]
        BY <2>1 DEF Put, Nowhere
    <2> QED BY <1>12, <1>15, <2>1, <2>2, <2>3 DEF Stored
<1>20. CASE NotCreatedMultiple(o)
    <2>1. /\ r.kind = "bulk" /\ temp'[u] = {} /\ ~r.mixed /\ r.done = {}
          /\ Show(u, temp[u], Nowhere)
        BY <1>5, <1>14, <1>20 DEF NotCreatedMultiple, Ends, Close, r
    <2> QED BY <1>12, <1>15, <1>16, <2>1 DEF Stored, Nowhere
<1>21. CASE Moved(o)
    <2>1. /\ r.kind = "move" /\ r.phase = "ok" /\ temp' = temp
          /\ Show(u, {j \in r.todo : shown[u][j] # None}, r.plan)
        BY <1>21 DEF Moved, Ends, r
    <2>2. Concerns(r) = r.todo
        BY <2>1 DEF Concerns
    <2>3. shown'[u][i] = IF i \in {j \in r.todo : shown[u][j] # None} THEN r.plan[i]
                         ELSE shown[u][i]
        BY <1>16, <2>1
    <2> QED BY <1>15, <2>1, <2>2, <2>3 DEF Stored
<1>22. CASE Removed(o)
    <2>1. r.kind = "remove" /\ r.phase = "ok" /\ temp' = temp /\ shown' = shown
        BY <1>22 DEF Removed, Ends, r
    <2> QED BY <1>15, <2>1 DEF Stored
<1>23. CASE RolledBack(o)
    <2>1. /\ r.kind \in {"move", "remove"} /\ r.phase = "failed" /\ ~r.mixed
          /\ shown'[u] = r.before /\ temp'[u] = r.beforeTemp
        BY <1>5, <1>14, <1>23 DEF RolledBack, Ends, Close, r
    <2>2. shown'[u] = OfConfig(rows, sel[u]) /\ temp'[u] = {}
        BY <1>11, <2>1
    <2> QED BY <1>12, <2>1, <2>2
<1> QED BY <1>17, <1>18, <1>19, <1>20, <1>21, <1>22, <1>23 DEF Receive

(* A list that comes in leaves the page right, spoils it or is too old.    *)
LEMMA FetchKeepsRight ==
    ASSUME PageInv, NEW o \in Ops, Fetched(o), NEW u \in Users, op[o].user = u, Sure(u)'
    PROVE  Right(u)'
<1> DEFINE r == op[o]
<1>0. TypeOK /\ Receive(o)
    BY DEF PageInv, Receive
<1>1. Open(o) /\ ~Open(o)' /\ UNCHANGED <<used, sel, version>>
    BY <1>0, ReceiveEffect
<1>2. \A q \in Ops \ {o} : op'[q] = op[q]
    BY <1>0, ReceiveEffect
<1>3. r.kind = "fetch" /\ r \in Operation /\ Orderly(r) /\ o \in OpenOf(u)
    BY <1>0, <1>1, OpenType DEF PageInv, AllOrderly, OpenOf, Fetched, Ends
<1>4. WritesOf(u)' = WritesOf(u) /\ OpenOf(u)' = OpenOf(u) \ {o}
    BY <1>1, <1>2, <1>3 DEF WritesOf, OpenOf, Open, Writes
<1>5. \A q \in OpenOf(u) \ {o} : op'[q] = op[q] /\ q \in OpenOf(u)'
    BY <1>2, <1>4 DEF OpenOf
<1>6. CASE version[u] # r.version
    <2>1. shown' = shown /\ temp' = temp /\ torn' = torn
        BY <1>6 DEF Fetched
    <2>2. ~Fetching(u)
        BY <1>1, <1>5, <1>6 DEF Sure, Fetching
    <2>3. \A q \in OpenOf(u) : ~Doomed(op[q])
        BY <1>3, <1>5 DEF Sure, Doomed
    <2>4. Right(u)
        BY <2>1, <2>2, <2>3 DEF Sure, PageInv
    <2>5. \A q \in WritesOf(u) : op'[q] = op[q]
        BY <1>3, <1>5 DEF WritesOf, Writes
    <2>6. rows' = rows
        BY <1>0, ReceiveEffect
    <2> QED BY <1>1, <1>4, <2>1, <2>4, <2>5, <2>6, PageStill
<1>7. CASE version[u] = r.version
    <2> DEFINE list == IF r.phase = "ok" THEN r.seen ELSE Nowhere
    <2>1. list = OfConfig(rows, r.config) /\ ~r.mixed
        BY <1>7 DEF Fetched, Sure
    <2>2. shown'[u] = list /\ temp'[u] = {}
        BY <1>0, <1>7 DEF Fetched, TypeOK
    <2> HIDE DEF list
    <2>3. r.config = sel[u]
        BY <1>3, <1>7 DEF Orderly
    <2>4. WritesOf(u) = {}
        <3>1. \A q \in WritesOf(u) : q # o
            BY <1>3 DEF WritesOf, Writes
        <3> QED BY <1>3, <2>1, <3>1 DEF PageInv, OverlapsNoted
    <2>5. rows' = rows
        BY <1>0, ReceiveEffect
    <2>6. shown'[u] = OfConfig(rows', sel'[u])
        BY <1>1, <2>1, <2>2, <2>3, <2>5 DEF OfConfig
    <2>7. Settled(u)'
        BY <2>2, <2>6 DEF Settled, OfConfig
    <2> QED BY <1>4, <2>4, <2>7 DEF Right, Apart
<1> QED BY <1>6, <1>7
-----------------------------------------------------------------------------
(* A request that its user's page survives keeps the invariant.            *)
LEMMA SendKeepsPage ==
    ASSUME PageInv, TypeOK', NEW o \in Ops, NEW u \in Users, op[o] = None,
           NEW kind \in Kinds, NEW I \in SUBSET Ids, NEW P \in Places, Send(o, u, kind, I, P),
           AllOrderly' /\ OverlapsNoted', UsedBefore', Sure(u)' => Right(u)',
           \A v \in Users \ {u} : /\ shown'[v] = shown[v] /\ temp'[v] = temp[v]
                                  /\ sel'[v] = sel[v] /\ version'[v] = version[v]
    PROVE  PageInv'
<1>0. TypeOK
    BY DEF PageInv
<1>1. ASSUME NEW v \in Users \ {u}, Sure(v)' PROVE Right(v)'
    <2>1. rows' = rows /\ (v \in torn => v \in torn')
        BY DEF Send
    <2>2. ASSUME NEW q \in Ops PROVE q \in OpenOf(v)' <=> q \in OpenOf(v)
        <3>1. CASE q = o
            <4>1. /\ Open(o)' /\ op'[o].kind = kind /\ op'[o].user = u /\ op'[o].phase = "sent"
                  /\ op'[o].todo = I /\ op'[o].plan = P /\ op'[o].done = {}
                  /\ op'[o].seen \in {shown[u], Nowhere}
                  /\ op'[o].before = shown[u] /\ op'[o].beforeTemp = temp[u]
                  /\ op'[o].config = sel'[u] /\ op'[o].version = version'[u]
                BY <1>0, SentRecord
            <4> QED BY <3>1, <4>1 DEF OpenOf, Open
        <3>2. CASE q # o
            <4>1. Open(q)' <=> Open(q)
                BY <1>0, <3>2, SentOthers
            <4>2. Open(q) => SameRequest(op[q], op'[q])
                BY <1>0, <3>2, SentOthers
            <4> QED BY <4>1, <4>2 DEF OpenOf, SameRequest
        <3> QED BY <3>1, <3>2
    <2>3. ASSUME NEW q \in OpenOf(v) PROVE op'[q] = op[q]
        <3>1. q \in Ops \ {o} /\ q \notin OpenOf(u)
            BY DEF OpenOf, Open
        <3> QED BY <1>0, <3>1, SentOthers
    <2> QED BY <1>1, <2>1, <2>2, <2>3, Bystander DEF PageInv
<1> QED BY <1>1 DEF PageInv

(* What a user does on the page keeps the invariant.                       *)
LEMMA ActKeepsPage ==
    ASSUME PageInv, NEW o \in Ops, NEW u \in Users, Act(o, u)
    PROVE  PageInv'
<1>0. TypeOK /\ op[o] = None
    BY DEF PageInv, Act
<1>1. TypeOK'
    BY <1>0, ActsType
<1>2. shown \in [Users -> Places] /\ temp \in [Users -> SUBSET Ids]
    BY <1>0 DEF TypeOK
<1>3. \A v \in Users, i \in Ids \ used : shown[v][i] = None
    BY DEF PageInv, UsedBefore
<1>4. \A k \in Nat : k >= k
    OBVIOUS
<1>5. \A v \in Users : version[v] >= version[v]
    BY <1>0, <1>4 DEF TypeOK
\* A request that writes, with the change of the page before it.
<1>6. ASSUME NEW kind \in Kinds, Writes(kind), NEW I \in SUBSET Ids, NEW P \in Places,
             Send(o, u, kind, I, P), PageSends(u, kind, I, P),
             used \subseteq used', I \subseteq used',
             \A i \in Ids : shown'[u][i] # None => i \in I \/ shown[u][i] # None,
             kind # "bulk" => \A i, j \in I : i = j,
             kind = "remove" => \A i \in I : P[i] = None,
             \A v \in Users \ {u} : shown'[v] = shown[v] /\ temp'[v] = temp[v]
      PROVE  PageInv'
    <2>1. kind # "fetch" /\ UNCHANGED <<sel, version>>
        BY <1>6 DEF Writes, PageSends
    <2>2. kind = "bulk" => \A i \in I : P[i] # None
        BY <1>6 DEF PageSends
    <2>3. AllOrderly' /\ OverlapsNoted'
        BY <1>0, <1>1, <1>5, <1>6, <2>1, <2>2, SendKeepsOrder
    <2>4. \A v \in Users, i \in Ids \ used' : shown'[v][i] = None
        BY <1>3, <1>6
    <2>5. UsedBefore'
        BY <1>0, <1>1, <1>6, <2>4, SendKeepsUsed
    <2>6. Sure(u)' => Right(u)'
        BY <1>0, <1>1, <1>6, SendKeepsRight
    <2> QED BY <1>0, <1>1, <1>6, <2>1, <2>3, <2>5, <2>6, SendKeepsPage
\* A request without a row to write, for an entry that waits for its creation.
<1>7. ASSUME NEW kind \in {"move", "remove"}, NEW P \in Places, NEW i \in temp[u],
             Send(o, u, kind, {}, P), UNCHANGED <<sel, version>>, used' = used, i \in Ids,
             \A j \in Ids : shown'[u][j] # None => shown[u][j] # None,
             \A v \in Users \ {u} : shown'[v] = shown[v] /\ temp'[v] = temp[v]
      PROVE  PageInv'
    <2>1. kind \in Kinds /\ {} \in SUBSET Ids
        BY DEF Kinds
    <2>2. AllOrderly' /\ OverlapsNoted'
        BY <1>0, <1>1, <1>5, <1>7, <2>1, SendKeepsOrder
    <2>3. \A v \in Users, j \in Ids \ used' : shown'[v][j] = None
        BY <1>3, <1>7
    <2>4. UsedBefore'
        BY <1>0, <1>1, <1>7, <2>1, <2>3, SendKeepsUsed
    <2>5. ~Sure(u)'
        BY <1>0, <1>1, <1>7, NothingToSend
    <2> QED BY <1>0, <1>1, <1>7, <2>1, <2>2, <2>4, <2>5, SendKeepsPage
\* What the page shows once it has changed its list.
<1>8. ASSUME NEW I \in SUBSET Ids, NEW P \in Places, Show(u, I, P)
      PROVE  /\ \A j \in Ids : shown'[u][j] = IF j \in I THEN P[j] ELSE shown[u][j]
             /\ \A v \in Users \ {u} : shown'[v] = shown[v]
    BY <1>2, <1>8 DEF Show, Put
<1>9. ASSUME NEW I, temp' = [temp EXCEPT ![u] = I]
      PROVE  temp'[u] = I /\ \A v \in Users \ {u} : temp'[v] = temp[v]
    BY <1>2, <1>9
<1>10. ASSUME NEW i \in Ids, NEW w \in Ranges, CreateStructure(o, u, i, w) PROVE PageInv'
    <2> DEFINE P == [Nowhere EXCEPT ![i] = w]
    <2>1. P \in Places /\ P[i] = w /\ w # None /\ "create" \in Kinds /\ {i} \in SUBSET Ids
        BY ListTypes, ConstantsAssumption DEF Kinds, Nowhere
    <2>2. /\ Send(o, u, "create", {i}, P) /\ Show(u, {i}, P)
          /\ temp' = [temp EXCEPT ![u] = temp[u] \cup {i}]
          /\ UNCHANGED <<sel, version>> /\ used' = used \cup {i}
          /\ i \notin used /\ ConfigOf[i] = sel[u]
        BY <1>10 DEF CreateStructure
    <2> HIDE DEF P
    <2>3. /\ \A j \in Ids : shown'[u][j] = IF j \in {i} THEN P[j] ELSE shown[u][j]
          /\ \A v \in Users \ {u} : shown'[v] = shown[v]
        BY <1>8, <2>1, <2>2
    <2>4. temp'[u] = temp[u] \cup {i} /\ \A v \in Users \ {u} : temp'[v] = temp[v]
        BY <1>9, <2>2
    <2>5. PageSends(u, "create", {i}, P)
        BY <2>1, <2>2, <2>3, <2>4 DEF PageSends
    <2>6. \A j \in Ids : shown'[u][j] # None => j \in {i} \/ shown[u][j] # None
        BY <2>3
    <2> QED BY <1>6, <2>1, <2>2, <2>3, <2>4, <2>5, <2>6 DEF Writes
<1>11. ASSUME NEW i \in Ids \ used, NEW j \in Ids \ used, NEW v \in Ranges, NEW w \in Ranges,
              CreateMultiple(o, u, i, j, v, w)
       PROVE  PageInv'
    <2> DEFINE P == [Nowhere EXCEPT ![i] = v, ![j] = w]
    <2>1. /\ P \in Places /\ v # None /\ w # None /\ "bulk" \in Kinds /\ {i, j} \in SUBSET Ids
          /\ \A k \in Ids : P[k] = IF k = j THEN w ELSE IF k = i THEN v ELSE None
        BY ListTypes, ConstantsAssumption DEF Kinds, Nowhere
    <2>2. /\ Send(o, u, "bulk", {i, j}, P) /\ Show(u, {i, j}, P)
          /\ temp' = [temp EXCEPT ![u] = temp[u] \cup {i, j}]
          /\ UNCHANGED <<sel, version>> /\ used' = used \cup {i, j}
          /\ ConfigOf[i] = sel[u] /\ ConfigOf[j] = sel[u]
        BY <1>11 DEF CreateMultiple
    <2> HIDE DEF P
    <2>3. /\ \A k \in Ids : shown'[u][k] = IF k \in {i, j} THEN P[k] ELSE shown[u][k]
          /\ \A x \in Users \ {u} : shown'[x] = shown[x]
        BY <1>8, <2>1, <2>2
    <2>4. temp'[u] = temp[u] \cup {i, j} /\ \A x \in Users \ {u} : temp'[x] = temp[x]
        BY <1>9, <2>2
    <2>5. PageSends(u, "bulk", {i, j}, P)
        BY <2>1, <2>2, <2>3, <2>4 DEF PageSends
    <2>6. \A k \in Ids : shown'[u][k] # None => k \in {i, j} \/ shown[u][k] # None
        BY <2>3
    <2> QED BY <1>6, <2>1, <2>2, <2>3, <2>4, <2>5, <2>6 DEF Writes
<1>12. ASSUME NEW i \in Ids, NEW w \in Ranges, MoveStructure(o, u, i, w) PROVE PageInv'
    <2> DEFINE P == [Nowhere EXCEPT ![i] = w]
    <2>1. P \in Places /\ P[i] = w /\ w # None /\ "move" \in Kinds /\ {i} \in SUBSET Ids
        BY ListTypes, ConstantsAssumption DEF Kinds, Nowhere
    <2>2. /\ Send(o, u, "move", {i} \ temp[u], P) /\ Show(u, {i}, P) /\ shown[u][i] # None
          /\ UNCHANGED <<sel, version>> /\ used' = used /\ temp' = temp
        BY <1>12 DEF MoveStructure
    <2> HIDE DEF P
    <2>3. /\ \A j \in Ids : shown'[u][j] = IF j \in {i} THEN P[j] ELSE shown[u][j]
          /\ \A v \in Users \ {u} : shown'[v] = shown[v]
        BY <1>8, <2>1, <2>2
    <2>4. i \in used /\ \A j \in Ids : shown'[u][j] # None => shown[u][j] # None
        BY <1>3, <2>2, <2>3
    <2>5. \A v \in Users \ {u} : temp'[v] = temp[v]
        BY <2>2
    <2>6. CASE i \in temp[u]
        <3>1. {i} \ temp[u] = {}
            BY <2>6
        <3> QED BY <1>7, <2>1, <2>2, <2>3, <2>4, <2>5, <2>6, <3>1
    <2>7. CASE i \notin temp[u]
        <3>1. {i} \ temp[u] = {i}
            BY <2>7
        <3>2. PageSends(u, "move", {i}, P)
            BY <2>1, <2>2, <2>3, <2>7 DEF PageSends
        <3> QED BY <1>6, <2>1, <2>2, <2>3, <2>4, <2>5, <3>1, <3>2 DEF Writes
    <2> QED BY <2>6, <2>7
<1>13. ASSUME NEW i \in Ids, DeleteStructure(o, u, i) PROVE PageInv'
    <2>1. Nowhere \in Places /\ Nowhere[i] = None /\ "remove" \in Kinds /\ {i} \in SUBSET Ids
        BY ListTypes DEF Kinds, Nowhere
    <2>2. /\ Send(o, u, "remove", {i} \ temp[u], Nowhere) /\ Show(u, {i}, Nowhere)
          /\ temp' = [temp EXCEPT ![u] = temp[u] \ {i}]
          /\ shown[u][i] # None /\ UNCHANGED <<sel, version>> /\ used' = used
        BY <1>13 DEF DeleteStructure
    <2>3. /\ \A j \in Ids : shown'[u][j] = IF j \in {i} THEN Nowhere[j] ELSE shown[u][j]
          /\ \A v \in Users \ {u} : shown'[v] = shown[v]
        BY <1>8, <2>1, <2>2
    <2>4. i \in used /\ \A j \in Ids : shown'[u][j] # None => shown[u][j] # None
        BY <1>3, <2>1, <2>2, <2>3
    <2>5. temp'[u] = temp[u] \ {i} /\ \A v \in Users \ {u} : temp'[v] = temp[v]
        BY <1>9, <2>2
    <2>6. CASE i \in temp[u]
        <3>1. {i} \ temp[u] = {}
            BY <2>6
        <3> QED BY <1>7, <2>1, <2>2, <2>3, <2>4, <2>5, <2>6, <3>1
    <2>7. CASE i \notin temp[u]
        <3>1. {i} \ temp[u] = {i} /\ temp[u] \ {i} = temp[u]
            BY <2>7
        <3>2. PageSends(u, "remove", {i}, Nowhere)
            BY <2>1, <2>2, <2>3, <2>5, <2>7, <3>1 DEF PageSends
        <3> QED BY <1>6, <2>1, <2>2, <2>3, <2>4, <2>5, <3>1, <3>2 DEF Writes
    <2> QED BY <2>6, <2>7
<1>14. ASSUME NEW k \in Configs, SelectSlotConfig(o, u, k) PROVE PageInv'
    <2>1. Nowhere \in Places /\ "fetch" \in Kinds /\ {} \in SUBSET Ids
        BY ListTypes DEF Kinds
    <2>2. /\ Send(o, u, "fetch", {}, Nowhere) /\ UNCHANGED <<used, shown, temp>>
          /\ sel' = [sel EXCEPT ![u] = k]
          /\ version' = [version EXCEPT ![u] = IF k = sel[u] THEN version[u] ELSE version[u] + 1]
        BY <1>14 DEF SelectSlotConfig
    <2>3. \A v \in Users \ {u} : sel'[v] = sel[v] /\ version'[v] = version[v]
        BY <1>0, <2>2 DEF TypeOK
    <2>4. version'[u] >= version[u] /\ (version'[u] = version[u] => sel'[u] = sel[u])
        <3>1. /\ sel'[u] = k /\ version[u] \in Nat
              /\ version'[u] = IF k = sel[u] THEN version[u] ELSE version[u] + 1
            BY <1>0, <2>2 DEF TypeOK
        <3> QED BY <3>1
    <2>5. \A v \in Users : /\ version'[v] >= version[v]
                           /\ version'[v] = version[v] => sel'[v] = sel[v]
        BY <1>5, <2>3, <2>4
    <2>6. AllOrderly' /\ OverlapsNoted'
        BY <1>0, <1>1, <2>1, <2>2, <2>5, SendKeepsOrder
    <2>7. \A v \in Users, i \in Ids \ used' : shown'[v][i] = None
        BY <1>3, <2>2
    <2>8. used \subseteq used' /\ {} \subseteq used'
        BY <2>2
    <2>9. UsedBefore'
        BY <1>0, <1>1, <2>1, <2>2, <2>7, <2>8, SendKeepsUsed
    <2>10. ~Sure(u)'
        <3>1. Send(o, u, "fetch", {}, Nowhere)
            BY <2>2
        <3>2. /\ Open(o)' /\ op'[o].kind = "fetch" /\ op'[o].user = u /\ op'[o].phase = "sent"
              /\ op'[o].todo = {} /\ op'[o].plan = Nowhere /\ op'[o].done = {}
              /\ op'[o].seen \in {shown[u], Nowhere}
              /\ op'[o].before = shown[u] /\ op'[o].beforeTemp = temp[u]
              /\ op'[o].config = sel'[u] /\ op'[o].version = version'[u]
            BY <1>0, <1>1, <2>1, <3>1, SentRecord
        <3> QED BY <3>2 DEF Sure, Fetching, OpenOf
    <2>11. \A v \in Users \ {u} : /\ shown'[v] = shown[v] /\ temp'[v] = temp[v]
                                  /\ sel'[v] = sel[v] /\ version'[v] = version[v]
        BY <2>2, <2>3
    <2> QED BY <1>0, <1>1, <2>1, <2>2, <2>6, <2>9, <2>10, <2>11, SendKeepsPage
<1> QED BY <1>10, <1>11, <1>12, <1>13, <1>14 DEF Act

(* So does a step of the server.                                           *)
LEMMA ServeKeepsPage ==
    ASSUME PageInv, NEW o \in Ops, Serve(o) PROVE PageInv'
<1>0. TypeOK
    BY DEF PageInv
<1>1. TypeOK'
    BY <1>0, ServesType
<1>2. UsedBefore' /\ AllOrderly' /\ OverlapsNoted'
    BY ServeKeepsOrder
<1>3. ASSUME NEW v \in Users, Sure(v)' PROVE Right(v)'
    <2>1. CASE v = op[o].user
        BY <1>3, <2>1, ServeKeepsRight
    <2>2. CASE v # op[o].user
        <3>1. /\ Open(o) /\ Open(o)' /\ op'[o].user = op[o].user
              /\ \A q \in Ops \ {o} : op'[q] = op[q]
            BY <1>0, ServeEffect DEF SameRequest
        <3>2. /\ torn \subseteq torn' /\ shown' = shown /\ temp' = temp
              /\ sel' = sel /\ version' = version
            BY <1>0, ServeEffect
        <3>3. v \notin torn'
            BY <1>3 DEF Sure
        <3>4. \A q \in Ops : q \in OpenOf(v)' <=> q \in OpenOf(v)
            BY <2>2, <3>1 DEF OpenOf, Open
        <3>5. \A q \in OpenOf(v) : op'[q] = op[q]
            BY <2>2, <3>1 DEF OpenOf
        <3>6. Sure(v) => Right(v)
            BY DEF PageInv
        <3>7. shown'[v] = shown[v] /\ temp'[v] = temp[v] /\ sel'[v] = sel[v]
              /\ version'[v] = version[v]
            BY <3>2
        <3>8. rows' = rows
            BY <1>0, <2>2, <3>3, ServeEffect
        <3>9. v \in torn => v \in torn'
            BY <3>2
        <3> QED BY <1>3, <3>4, <3>5, <3>6, <3>7, <3>8, <3>9, Bystander
    <2> QED BY <2>1, <2>2
<1> QED BY <1>1, <1>2, <1>3 DEF PageInv

(* So does an answer.                                                      *)
LEMMA ReceiveKeepsPage ==
    ASSUME PageInv, NEW o \in Ops, Receive(o) PROVE PageInv'
<1>0. TypeOK
    BY DEF PageInv
<1>1. TypeOK'
    BY <1>0, ReceivesType
<1>2. UsedBefore' /\ AllOrderly' /\ OverlapsNoted'
    BY ReceiveKeepsOrder
<1>3. ASSUME NEW v \in Users, Sure(v)' PROVE Right(v)'
    <2>1. CASE v = op[o].user
        BY <1>3, <2>1, FetchKeepsRight, ReceiveKeepsRight
    <2>2. CASE v # op[o].user
        <3>1. Open(o) /\ ~Open(o)' /\ sel' = sel /\ version' = version
              /\ \A q \in Ops \ {o} : op'[q] = op[q]
            BY <1>0, ReceiveEffect
        <3>2. shown'[v] = shown[v] /\ temp'[v] = temp[v] /\ (v \in torn => v \in torn')
            BY <1>0, <2>2, ReceiveEffect
        <3>3. \A q \in Ops : q \in OpenOf(v)' <=> q \in OpenOf(v)
            BY <2>2, <3>1 DEF OpenOf, Open
        <3>4. \A q \in OpenOf(v) : op'[q] = op[q]
            BY <2>2, <3>1 DEF OpenOf
        <3>5. Sure(v) => Right(v)
            BY DEF PageInv
        <3>6. sel'[v] = sel[v] /\ version'[v] = version[v]
            BY <3>1
        <3>7. rows' = rows
            BY <1>0, ReceiveEffect
        <3> QED BY <1>3, <3>2, <3>3, <3>4, <3>5, <3>6, <3>7, Bystander
    <2> QED BY <2>1, <2>2
<1> QED BY <1>1, <1>2, <1>3 DEF PageInv

(* A behaviour begins with pages that show what is stored.                 *)
LEMMA InitPage == Init => PageInv
<1> SUFFICES ASSUME Init PROVE PageInv
    OBVIOUS
<1>1. TypeOK
    BY InitType
<1>2. \A o \in Ops : ~Open(o)
    BY DEF Init, Open
<1>3. \A u \in Users : OpenOf(u) = {} /\ WritesOf(u) = {}
    BY <1>2 DEF OpenOf, WritesOf
<1>4. \A u \in Users : shown[u] = OfConfig(rows, sel[u]) /\ temp[u] = {}
    BY DEF Init
<1>5. UsedBefore
    <2>1. \A i \in Ids \ used : rows[i] = None
        BY DEF Init
    <2>2. \A i \in Ids \ used, u \in Users : shown[u][i] = None
        BY <1>4, <2>1 DEF OfConfig
    <2> QED BY <1>2, <2>1, <2>2 DEF UsedBefore
<1>6. \A u \in Users : Right(u)
    BY <1>3, <1>4 DEF Right, Settled, Apart
<1> QED BY <1>1, <1>2, <1>3, <1>5, <1>6 DEF PageInv, AllOrderly, OverlapsNoted

(* When a user's operations have all been answered, the page shows the     *)
(* rows of the selected configuration, unless another user wrote, an       *)
(* answer was lost, or a failed or a bulk operation overlapped another one *)
(* (NodeStructureManager, fetchVersion and the roll-backs).                *)
THEOREM PageShowsRows == Spec => []ShownIsStored
<1>1. PageInv /\ [Next]_vars => PageInv'
    <2> SUFFICES ASSUME PageInv, [Next]_vars PROVE PageInv'
        OBVIOUS
    <2>1. CASE UNCHANGED vars
        <3>1. TypeOK'
            BY <2>1, NextType DEF PageInv
        <3>2. \A u \in Users : OpenOf(u)' = OpenOf(u) /\ WritesOf(u)' = WritesOf(u)
            BY <2>1 DEF vars, OpenOf, WritesOf, Open
        <3>3. UsedBefore' /\ AllOrderly' /\ OverlapsNoted'
            BY <2>1, <3>2 DEF vars, PageInv, UsedBefore, AllOrderly, Orderly, OverlapsNoted, Open
        <3>4. \A u \in Users : Sure(u)' => Sure(u)
            BY <2>1, <3>2 DEF vars, Sure, Fetching
        <3>5. ASSUME NEW u \in Users, Sure(u)' PROVE Right(u)'
            <4>1. Right(u)
                BY <3>4, <3>5 DEF PageInv
            <4>2. /\ sel'[u] = sel[u] /\ version'[u] = version[u]
                  /\ shown'[u] = shown[u] /\ temp'[u] = temp[u]
                  /\ \A q \in WritesOf(u) : op'[q] = op[q]
                BY <2>1 DEF vars
            <4>3. rows' = rows
                BY <2>1 DEF vars
            <4> QED BY <3>2, <4>1, <4>2, <4>3, PageStill
        <3> QED BY <3>1, <3>3, <3>5 DEF PageInv
    <2>2. ASSUME NEW o \in Ops, NEW u \in Users, Act(o, u) PROVE PageInv'
        BY <2>2, ActKeepsPage
    <2>3. ASSUME NEW o \in Ops, Serve(o) PROVE PageInv'
        BY <2>3, ServeKeepsPage
    <2>4. ASSUME NEW o \in Ops, Receive(o) PROVE PageInv'
        BY <2>4, ReceiveKeepsPage
    <2> QED BY <2>1, <2>2, <2>3, <2>4 DEF Next
<1>2. PageInv => ShownIsStored
    <2> SUFFICES ASSUME PageInv, NEW u \in Users, u \notin torn, OpenOf(u) = {}
                 PROVE  shown[u] = OfConfig(rows, sel[u]) /\ temp[u] = {}
        BY DEF ShownIsStored
    <2>1. Right(u) /\ WritesOf(u) = {}
        BY DEF PageInv, Sure, Fetching, WritesOf
    <2>2. \A i \in Ids : shown[u][i] = OfConfig(rows, sel[u])[i] /\ i \notin temp[u]
        BY <2>1 DEF Right, Settled
    <2>3. shown[u] \in Places /\ OfConfig(rows, sel[u]) \in Places /\ temp[u] \subseteq Ids
        BY ListTypes DEF PageInv, TypeOK
    <2>4. shown[u] = OfConfig(rows, sel[u])
        BY <2>2, <2>3 DEF Places
    <2> QED BY <2>2, <2>3, <2>4
<1> QED BY <1>1, <1>2, InitPage, PTL DEF Spec
=============================================================================
