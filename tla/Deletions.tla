------------------------------ MODULE Deletions ------------------------------
(***************************************************************************)
(* Deleting a row.  The API deletes with Django's collector (external),    *)
(* which follows the on_delete rules of models.py: it reads the rows to    *)
(* delete, and only then opens the transaction that deletes them.  QGIS    *)
(* writes to the same database directly, where the rules are the ON DELETE *)
(* clauses the migrations left.  Triggers guard the nodes against both,    *)
(* and django-simple-history records what the API deletes.                 *)
(***************************************************************************)
EXTENDS Naturals

CONSTANTS
    Ids,          \* primary keys (UUIDs: none is used twice)
    Model,        \* the keys of every class: [to, rule, null]
    Database,     \* the columns of every table, in the same form
    History,      \* history table of a class: is a column constrained?
    Listened,     \* the classes with a receiver of post_delete
    Start,        \* the databases to begin with
    Requests,     \* DELETE requests
    Outside,      \* the key of a row that is not shown, and never deleted
    None,         \* NULL
    Unborn,       \* an id no row has had yet
    Gone,         \* an id whose row was deleted
    Refused,      \* the outcome of a deletion that is rolled back
    MaxWrites     \* bound on direct writes

Tables == DOMAIN Model
Tracked == DOMAIN History
Columns(t) == DOMAIN Model[t]

RowsOf(t) == [table : {t}, ref : [Columns(t) -> Ids \cup {Outside, None}]]
IsRow(x) == \E t \in Tables : x \in RowsOf(t)

(***************************************************************************)
(* What the two schemas have in common: the migrations made the columns of *)
(* the models, and gave a column no ON DELETE clause but its on_delete,    *)
(* and no CASCADE to a class with a history.                               *)
(***************************************************************************)
ASSUME SchemaAssumption ==
    /\ DOMAIN Database = Tables
    /\ \A t \in Tables :
        /\ DOMAIN Database[t] = Columns(t)
        /\ \A f \in Columns(t) :
            /\ Database[t][f].to = Model[t][f].to
            /\ Database[t][f].null = Model[t][f].null
            /\ Database[t][f].rule \in {"NO_ACTION", Model[t][f].rule}
            /\ Model[t][f].rule = "SET_NULL" => Model[t][f].null
            /\ Model[t][f].rule # "NO_ACTION"
            /\ Model[t][f].rule = "PROTECT" =>
                /\ Columns(Model[t][f].to) = {}
                /\ \A g \in Columns(t) : Database[t][g].rule # "CASCADE"
    /\ Tracked \subseteq Tables \cap Listened
    /\ \A t \in Tracked : /\ DOMAIN History[t] = Columns(t) \cup {"history_user"}
                          /\ "history_user" \notin Columns(t)
    /\ \A t \in Tracked : \A f \in Columns(t) : Database[t][f].rule # "CASCADE"

ASSUME ConstantsAssumption ==
    /\ MaxWrites \in Nat
    /\ {Outside, None} \cap Ids = {} /\ Outside # None
    /\ ~IsRow(Unborn) /\ ~IsRow(Gone) /\ Unborn # Gone
    /\ Refused \notin [Ids -> {Unborn, Gone} \cup UNION {RowsOf(t) : t \in Tables}]

\* The columns that the triggers read.
ASSUME TriggerAssumption ==
    /\ "Node" \in Tables => {"parent_node", "node_type"} \subseteq Columns("Node")
    /\ "Cable" \in Tables =>
            {"uuid_node_start", "uuid_node_end"} \subseteq Columns("Cable")

Live(D) == {i \in Ids : D[i] \notin {Unborn, Gone}}

\* A database as Django and PostgreSQL leave it: rows, and keys to rows.
Sound(D) ==
    /\ DOMAIN D = Ids
    /\ \A i \in Ids : D[i] \in {Unborn, Gone} \/ IsRow(D[i])
    /\ \A i \in Live(D) : \A f \in Columns(D[i].table) :
        D[i].ref[f] \in Ids =>
            /\ D[i].ref[f] \in Live(D)
            /\ D[D[i].ref[f]].table = Model[D[i].table][f].to

\* The NOT NULL constraints.
NullsAllowed(D) ==
    \A i \in Live(D) : \A f \in Columns(D[i].table) :
        D[i].ref[f] = None => Database[D[i].table][f].null

ASSUME StartAssumption == \A D \in Start : Sound(D) /\ NullsAllowed(D)

VARIABLES
    db,           \* the row of every id
    job,          \* what a request has collected: a copy of the rows
    by,           \* the user a request is made by
    log,          \* the history records of type '-'
    writes        \* direct writes so far

vars == <<db, job, by, log, writes>>
-----------------------------------------------------------------------------
\* The pairs of a row and what it refers to under this rule of the schema S.
Refers(S, D, rule) ==
    UNION {{<<i, D[i].ref[f]>> : f \in {g \in Columns(D[i].table) :
                S[D[i].table][g].rule = rule}} : i \in Live(D)}

Children(S, D, P, rule) == {e[1] : e \in {x \in Refers(S, D, rule) : x[2] \in P}}

\* The rows R and those that go with them: the least set closed under CASCADE.
Reach(S, D, R) ==
    LET edges == Refers(S, D, "CASCADE")
        closed == {X \in SUBSET Ids :
                    R \subseteq X /\ \A e \in edges : e[2] \in X => e[1] \in X}
    IN {i \in Ids : \A X \in closed : i \in X}

\* The SET_NULL keys to rows of G.
Nulled(S, D, G) ==
    UNION {{<<i, f>> : f \in {g \in Columns(D[i].table) :
                D[i].ref[g] \in G /\ S[D[i].table][g].rule = "SET_NULL"}} : i \in Live(D)}

\* Without, but a key to a deleted row keeps a trace of it.
Without_Tombstone(D, G, N) ==
    LET live == Live(D) IN
    [i \in Ids |->
        IF i \notin live THEN D[i]
        ELSE IF i \in G THEN Gone
        ELSE [table |-> D[i].table,
              ref |-> [f \in Columns(D[i].table) |->
                        IF <<i, f>> \in N THEN Gone ELSE D[i].ref[f]]]]

\* The database without the rows G and with the keys N nulled.
Without(D, G, N) ==
    LET live == Live(D) IN
    [i \in Ids |->
        IF i \notin live THEN D[i]
        ELSE IF i \in G THEN Gone
        ELSE [table |-> D[i].table,
              ref |-> [f \in Columns(D[i].table) |->
                        IF <<i, f>> \in N THEN None ELSE D[i].ref[f]]]]

\* What a column of a history record refers to.
Mention(h, f) == IF f = "history_user" THEN h.by ELSE h.row.ref[f]

\* The constraints PostgreSQL checks.  The foreign keys are deferred to the
\* COMMIT, but for the two that 0041 made anew: no statement modelled leaves
\* one of those broken for a later statement to mend.
Consistent(D, H) ==
    LET live == Live(D) IN
    /\ \A i \in live : \A f \in Columns(D[i].table) :
        D[i].ref[f] \in Ids => D[i].ref[f] \in live
    /\ NullsAllowed(D)
    /\ \A h \in H : \A f \in DOMAIN History[h.row.table] :
        History[h.row.table][f] /\ Mention(h, f) \in Ids => Mention(h, f) \in live

Nodes(D) == {i \in Live(D) : D[i].table = "Node"}

ChildNodes(D, n) == {k \in Nodes(D) : D[k].ref["parent_node"] = n}

Cabled(D, n) ==
    \E c \in Live(D) : /\ D[c].table = "Cable"
                       /\ n \in {D[c].ref["uuid_node_start"], D[c].ref["uuid_node_end"]}

\* The four triggers of migration 0047.
TriggersAllow(D, E) ==
    \A n \in Nodes(D) :
        IF n \in Live(E)
        THEN /\ D[n].ref["parent_node"] # E[n].ref["parent_node"] => ~Cabled(D, n)
             /\ D[n].ref["node_type"] # E[n].ref["node_type"] =>
                    ~(Cabled(D, n) /\ ChildNodes(D, n) # {})
        ELSE ~Cabled(D, n) /\ \A k \in ChildNodes(D, n) : ~Cabled(D, k)

Commits(D, E, H) == TriggersAllow(D, E) /\ Consistent(E, H)
-----------------------------------------------------------------------------
\* Fast, but receivers of post_delete are forgotten.
Fast_Unheard ==
    {t \in Tables : \A s \in Tables : \A f \in Columns(s) :
        Model[s][f].to = t => Model[s][f].rule = "DO_NOTHING"}

\* Rows of these tables the collector deletes by a query, without reading them.
Fast ==
    {t \in Tables :
        /\ t \notin Listened
        /\ \A s \in Tables : \A f \in Columns(s) :
            Model[s][f].to = t => Model[s][f].rule = "DO_NOTHING"}

Collected(D, r) == {i \in Reach(Model, D, {r}) : i = r \/ D[i].table \notin Fast}

\* Protected, but an optional reference protects as well.
Protected_Optional(D, r) ==
    LET all == Reach(Model, D, {r}) IN
    \/ Children(Model, D, all, "PROTECT") # {}
    \/ ~(Children(Model, D, all, "RESTRICT") \subseteq all)
    \/ Children(Model, D, all, "SET_NULL") # {}

\* ProtectedError and RestrictedError.
Protected(D, r) ==
    LET all == Reach(Model, D, {r}) IN
    \/ Children(Model, D, all, "PROTECT") # {}
    \/ ~(Children(Model, D, all, "RESTRICT") \subseteq all)

\* What the transaction of the collector leaves: the rows J it has read, those
\* its queries find now, and what the database itself then takes along.
Queried(D, J) == {i \in Children(Model, D, J, "CASCADE") : D[i].table \in Fast}

ByDatabase(D, G) ==
    LET all == Reach(Database, D, G) IN Without(D, all, Nulled(Database, D, all))

ByCollector(D, J) ==
    LET G == J \cup Queried(D, J)
        all == Reach(Database, D, G)
    IN Without(D, all, Nulled(Model, D, G) \cup Nulled(Database, D, all))

\* Django's class of a history table has SET_NULL on history_user: the
\* collector leaves the records of the users G without a name.
Anonymous(H, G) ==
    {[id |-> h.id, row |-> h.row, by |-> IF h.by \in G THEN None ELSE h.by] : h \in H}

\* A deletion from start to end, through the API and in the database (the
\* API's own records aside: they bear the name of a user who is there).
ApiOutcome(D, H, r) ==
    LET J == Collected(D, r)
        after == ByCollector(D, J)
    IN IF ~Protected(D, r) /\ Commits(D, after, Anonymous(H, J)) THEN after ELSE Refused

SqlOutcome(D, H, r) ==
    LET after == ByDatabase(D, {r}) IN
    IF Commits(D, after, H) THEN after ELSE Refused
-----------------------------------------------------------------------------
NoRows == [i \in {} |-> Gone]

Users(D) == {i \in Live(D) : D[i].table = "User"}

Init ==
    /\ db \in Start
    /\ job = [q \in Requests |-> NoRows]
    /\ by = [q \in Requests |-> Outside]
    /\ log = {}
    /\ writes = 0

\* DELETE on a row by the user u: Model.delete() collects before it opens a
\* transaction.
Collect(q, r, u) ==
    /\ job[q] = NoRows
    /\ r \in Live(db)
    /\ ~Protected(db, r)
    /\ job' = [job EXCEPT ![q] = [i \in Collected(db, r) |-> db[i]]]
    /\ by' = [by EXCEPT ![q] = u]
    /\ UNCHANGED <<db, log, writes>>

\* The receiver of post_delete writes a record for every row collected, with
\* the values it was read with and the user of the request, in the same
\* transaction.
Records(q) ==
    {[id |-> i, row |-> job[q][i], by |-> by[q]] :
        i \in {j \in DOMAIN job[q] : job[q][j].table \in Tracked}}

\* The records the transaction of the collector leaves.
Recorded(q) == Anonymous(log, DOMAIN job[q]) \cup Records(q)

\* The request is answered.
Answer(q) ==
    /\ job[q] # NoRows
    /\ job' = [job EXCEPT ![q] = NoRows]
    /\ by' = [by EXCEPT ![q] = Outside]

\* Execute, but the records are written outside the transaction.
Execute_LogKept(q) ==
    LET after == ByCollector(db, DOMAIN job[q]) IN
    /\ Answer(q)
    /\ db' = IF Commits(db, after, Recorded(q)) THEN after ELSE db
    /\ log' = Recorded(q)
    /\ UNCHANGED writes

Execute(q) ==
    LET after == ByCollector(db, DOMAIN job[q]) IN
    /\ Answer(q)
    /\ IF Commits(db, after, Recorded(q))
       THEN db' = after /\ log' = Recorded(q)
       ELSE UNCHANGED <<db, log>>
    /\ UNCHANGED writes

\* The worker dies before the transaction commits.
Die(q) ==
    /\ Answer(q)
    /\ UNCHANGED <<db, log, writes>>

\* Another client changes the database and the change is allowed.
Write(E) ==
    /\ writes < MaxWrites
    /\ Commits(db, E, log)
    /\ db' = E
    /\ writes' = writes + 1
    /\ UNCHANGED <<job, by, log>>

SqlDelete(r) == r \in Live(db) /\ Write(ByDatabase(db, {r}))

\* A new row that refers to one row shown.
Blank(t) ==
    [f \in Columns(t) |-> IF Database[t][f].null THEN None ELSE Outside]

SqlInsert(i, t, f, p) ==
    /\ db[p].table = Database[t][f].to
    /\ Write([db EXCEPT ![i] = [table |-> t, ref |-> [Blank(t) EXCEPT ![f] = p]]])

\* A key is changed, from or to a row that is shown.
SqlUpdate(i, f, p) ==
    /\ {db[i].ref[f], p} \cap Ids # {}
    /\ \/ p \in Live(db) /\ db[p].table = Database[db[i].table][f].to
       \/ p = Outside
       \/ p = None /\ Database[db[i].table][f].null
    /\ p # db[i].ref[f]
    /\ Write([db EXCEPT ![i].ref = [db[i].ref EXCEPT ![f] = p]])

Next ==
    \/ \E q \in Requests :
        \/ Execute(q) \/ Die(q)
        \/ \E r \in Ids, u \in Users(db) \cup {Outside} : Collect(q, r, u)
    \/ \E r \in Ids : SqlDelete(r)
    \/ \E i \in {j \in Ids : db[j] = Unborn}, p \in Live(db), t \in Tables :
        \E f \in Columns(t) : SqlInsert(i, t, f, p)
    \/ \E i \in Live(db), p \in Ids \cup {Outside, None} :
        \E f \in Columns(db[i].table) : SqlUpdate(i, f, p)

Spec == Init /\ [][Next]_vars
-----------------------------------------------------------------------------
\* Every id is unborn, gone or a row of a class; a collected copy and a
\* history record is a row.
TypeOK ==
    /\ \A i \in Ids : db[i] \in {Unborn, Gone} \/ IsRow(db[i])
    /\ DOMAIN job = Requests
    /\ \A q \in Requests : /\ DOMAIN job[q] \subseteq Ids
                           /\ \A i \in DOMAIN job[q] : IsRow(job[q][i])
    /\ by \in [Requests -> Ids \cup {Outside}]
    /\ \A h \in log : h.id \in Ids /\ IsRow(h.row) /\ h.by \in Ids \cup {Outside, None}
    /\ writes \in 0..MaxWrites

(***************************************************************************)
(* What migrations 0041, 0062, 0063 and 0064 are for: a row deleted in the *)
(* database directly leaves the same rows as one deleted through the API,  *)
(* or is not deleted at all.                                               *)
(***************************************************************************)
PathsAgree ==
    \A r \in Live(db) : SqlOutcome(db, log, r) \in {Refused, ApiOutcome(db, log, r)}

(***************************************************************************)
(* A history record of a deletion is of a row that is deleted, whatever    *)
(* the row went through between the collection and the transaction.        *)
(***************************************************************************)
RecordedRowsAreGone == \A h \in log : db[h.id] = Gone

\* No row refers to the row r.
Unreferenced(D, r) == \A i \in Live(D) : \A f \in Columns(D[i].table) : D[i].ref[f] # r

(***************************************************************************)
(* A row that no row refers to can always be deleted through the API: no   *)
(* trigger and no history record stands in the way.  Directly it can be    *)
(* deleted unless it is a user who deleted something: what a record copied *)
(* holds nothing back, but its history_user is constrained, and only       *)
(* Django empties it.                                                      *)
(***************************************************************************)
UnreferencedGoes ==
    \A r \in {i \in Live(db) : Unreferenced(db, i)} :
        /\ ApiOutcome(db, log, r) # Refused
        /\ SqlOutcome(db, log, r) = Refused <=> \E h \in log : h.by = r

(***************************************************************************)
(* Every row of a class with a history that the API's transaction removes  *)
(* gets a record, also a row that appeared after the collection or that    *)
(* the database removed.                                                   *)
(***************************************************************************)
DeletionsAreRecorded ==
    [][ (\E q \in Requests : Execute(q)) =>
        \A i \in Live(db) : db'[i] = Gone /\ db[i].table \in Tracked =>
            \E h \in log' : h.id = i ]_vars
=============================================================================
