----------------------------- MODULE CableLinks -----------------------------
(***************************************************************************)
(* Cables in micropipes: which microducts a cable runs through, the length *)
(* the server keeps for it, and the linking by address.                    *)
(*                                                                         *)
(* A cable's length is derived (models.py, calculate_length_from_          *)
(* connections): the route through the trenches that its microducts' con-  *)
(* duits are laid in between its two end nodes, or their summed length     *)
(* when there is no route.  It is stored, and recomputed when a link is    *)
(* created or deleted; a PATCH of the cable may write it as well, and may  *)
(* move an end, and recomputes nothing.  Every write is one database       *)
(* transaction under READ COMMITTED: a first step reads the committed      *)
(* rows, Commit(r) writes, and requests overlap.                           *)
(***************************************************************************)
EXTENDS Naturals, FiniteSets

CONSTANTS
    Cables, Ducts, Conduits, Trenches, Nodes, Addresses,
    Requests,       \* requests that may be in progress at the same time
    Patches,        \* the columns a client may send in a PATCH of a cable
    ConduitOf,      \* the conduit a microduct is part of
    TrenchLength,   \* the length of a trench, in metres
    MaxLength,      \* the longest trench
    AddressOf,      \* the address of a node, or None
    EndsAtFirst,    \* the nodes at a cable's ends when a behaviour begins
    Routed,         \* the routed length between two nodes through a set of trenches, or 0
    LaidAtFirst,    \* the conduits laid in trenches when a behaviour begins
    LinkedAtFirst,  \* links a behaviour may begin with
    None,           \* no length, no node, no address; a column that is not sent
    MaxRequests,    \* bound on the requests of a behaviour
    MaxChanges      \* bound on the changes of the surroundings

Ends == {"start", "end"}
Pairs == Ducts \X Cables

\* The nodes at the two ends of a cable.
EndNodes == [Ends -> Nodes \cup {None}]

\* What a PATCH sends: the sum of the reserves, the length, its total, the ends.
Patch == [reserve : Nat \cup {None}, length : Nat \cup {None}, total : Nat \cup {None},
          ends : EndNodes]

ASSUME ConstantsAssumption ==
    /\ IsFiniteSet(Trenches)
    /\ Patches \subseteq Patch
    /\ ConduitOf \in [Ducts -> Conduits]
    /\ MaxLength \in Nat /\ TrenchLength \in [Trenches -> 0 .. MaxLength]
    /\ AddressOf \in [Nodes -> Addresses \cup {None}]
    /\ EndsAtFirst \in [Cables -> EndNodes]
    /\ Routed \in [EndNodes -> [SUBSET Trenches -> Nat]]
    /\ \A x \in EndNodes : Routed[x][{}] = 0
    /\ \A x \in EndNodes, S \in SUBSET Trenches : None \in {x[e] : e \in Ends} => Routed[x][S] = 0
    /\ LaidAtFirst \subseteq Trenches \X Conduits /\ LinkedAtFirst \subseteq Pairs
    /\ None \notin Nat \cup Addresses \cup Nodes
    /\ Ducts \cap Ends = {}
    /\ MaxRequests \in Nat /\ MaxChanges \in Nat

VARIABLES
    cables, ducts,  \* the rows that exist
    links,          \* microduct_cable_connection: pairs of a duct and a cable
    laid,           \* trench_conduit_connection: pairs of a trench and a conduit
    home,           \* the address of an intact duct's node; None: not a candidate
    row,            \* a cable's length, length_total, reserve and end node columns
    req,            \* the requests in progress
    outdated,       \* history: cables whose length no longer is that of their links
    mixed,          \* history: cables with a total of other reserves than theirs
    asked, changed  \* the bounds' counters

vars == <<cables, ducts, links, laid, home, row, req, outdated, mixed, asked, changed>>

Row == [length : Nat \cup {None}, total : Nat \cup {None}, reserve : Nat, ends : EndNodes]

\* raced and patched are history: the cables whose links, trenches or ends,
\* and whose reserves, another request has changed since the transaction began.
Tx == [kind : {"recalculate", "patch", "delete"}, add : SUBSET Pairs, drop : SUBSET Pairs,
       dropDucts : SUBSET Ducts, dropCables : SUBSET Cables,
       touch : SUBSET Cables, rows : [Cables -> Row],
       raced : SUBSET Cables, patched : SUBSET Cables]

NoTx == [kind |-> "none"]
Idle == [state |-> "idle"]

Request == [state : {"open"}, auto : BOOLEAN, cable : Cables, ends : EndNodes,
            todo : SUBSET (Ducts \cup Ends), disturbed : BOOLEAN, tx : Tx \cup {NoTx}]
-----------------------------------------------------------------------------
TrenchesOf(c, L, W) ==
    {t \in Trenches : \E d \in Ducts : <<d, c>> \in L /\ <<t, ConduitOf[d]>> \in W}

\* The metres of the trenches S, <<t, n>> being the n-th metre of t: their
\* number is the sum of the trenches' lengths.
Metres(S) == {m \in Trenches \X (1 .. MaxLength) : m[1] \in S /\ m[2] <= TrenchLength[m[1]]}

\* Cable.calculate_length_from_connections, for a cable between the nodes x,
\* links L and laid conduits W.
CalcLength(c, x, L, W) ==
    LET S == TrenchesOf(c, L, W)
    IN  IF Routed[x][S] > 0 THEN Routed[x][S] ELSE Cardinality(Metres(S))

\* A mutant: the length is computed before the link's row is written.
Recomputed_BeforeInsert(c, L) ==
    LET n == CalcLength(c, row[c].ends, links, laid)
    IN  [row[c] EXCEPT !.length = n, !.total = n + row[c].reserve]

\* Cable.update_length_from_connections: the columns it saves.
Recomputed(c, L) ==
    LET n == CalcLength(c, row[c].ends, L, laid)
    IN  [row[c] EXCEPT !.length = n, !.total = n + row[c].reserve]

Sent(x, read) == IF x = None THEN read ELSE x

\* PATCH of a cable: the columns sent, all others as read, and the
\* length_total of the pre_save handler when there is a length.
Patched(c, p) ==
    LET n == Sent(p.length, row[c].length)
        k == Sent(p.reserve, row[c].reserve)
    IN  [length |-> n, reserve |-> k,
         total |-> IF n = None THEN Sent(p.total, row[c].total) ELSE n + k,
         ends |-> [e \in Ends |-> Sent(p.ends[e], row[c].ends[e])]]

\* get_micropipe_candidates_for_node: intact ducts at the address of a node.
Candidates(n) ==
    {d \in ducts : n # None /\ AddressOf[n] # None /\ home[d] = AddressOf[n]}

Linked(c) == {d \in Ducts : <<d, c>> \in links}
Open(r) == req[r].state = "open"
InTx(r) == Open(r) /\ req[r].tx # NoTx
Running(r) == Open(r) /\ req[r].tx = NoTx

\* A transaction that recomputes the cables T.
Recalculation(T, add, drop, gone) ==
    [kind |-> "recalculate", add |-> add, drop |-> drop, dropDucts |-> gone, dropCables |-> {},
     touch |-> T, raced |-> {}, patched |-> {},
     rows |-> [c \in Cables |-> IF c \in T THEN Recomputed(c, (links \cup add) \ drop)
                                           ELSE row[c]]]

Start(r, c, todo, auto, tx) ==
    /\ req[r] = Idle
    /\ asked < MaxRequests
    /\ asked' = asked + 1
    /\ req' = [req EXCEPT ![r] = [state |-> "open", auto |-> auto, cable |-> c, ends |-> row[c].ends,
                                  todo |-> todo, disturbed |-> FALSE, tx |-> tx]]
    /\ UNCHANGED <<cables, ducts, links, laid, home, row, outdated, mixed, changed>>
-----------------------------------------------------------------------------
\* POST micropipe-connections: the ducts of one number and colour in the
\* conduits named, linked one by one.
PostLinks(r, c, D) ==
    /\ c \in cables /\ D \subseteq ducts /\ D # {}
    /\ Start(r, c, D, FALSE, NoTx)

\* POST auto-link-micropipe with a chosen duct: refused unless the duct is
\* intact and at one of the cable's ends.
ChooseLink(r, c, d) ==
    /\ c \in cables
    /\ \E e \in Ends : d \in Candidates(row[c].ends[e])
    /\ Start(r, c, {d}, FALSE, NoTx)

\* POST auto-link-micropipe, and each cable of the bulk action of the admin:
\* the end nodes are those read when the cables are selected.
AutoLink(r, c) ==
    /\ c \in cables
    /\ Start(r, c, Ends, TRUE, NoTx)

\* A mutant: any link of the cable counts as this end's link.
LinkEnd_AnyLink(r, e) ==
    LET c == req[r].cable
        found == Candidates(req[r].ends[e])
    IN  /\ Running(r)
        /\ e \in req[r].todo /\ req[r].todo \subseteq Ends
        /\ e = "end" => "start" \notin req[r].todo
        /\ req' = [req EXCEPT ![r].todo = (req[r].todo \ {e}) \cup
               (IF Cardinality(found) = 1 /\ Linked(c) = {} THEN found ELSE {})]
        /\ UNCHANGED <<cables, ducts, links, laid, home, row, outdated, mixed, asked, changed>>

\* auto_link_cable_micropipes, one end of the cable: a duct to link only
\* when it is the one candidate and the end has no link yet.
LinkEnd(r, e) ==
    LET c == req[r].cable
        found == Candidates(req[r].ends[e])
    IN  /\ Running(r)
        /\ e \in req[r].todo /\ req[r].todo \subseteq Ends
        /\ e = "end" => "start" \notin req[r].todo
        /\ req' = [req EXCEPT ![r].todo = (req[r].todo \ {e}) \cup
               (IF Cardinality(found) = 1 /\ found \cap Linked(c) = {} THEN found ELSE {})]
        /\ UNCHANGED <<cables, ducts, links, laid, home, row, outdated, mixed, asked, changed>>

\* get_or_create of one link: nothing when it is there, an error that ends
\* the request when the cable is gone, or a transaction that inserts the row
\* and, in the post_save handler, recomputes the cable.
LinkDuct(r, d) ==
    LET c == req[r].cable
    IN  /\ Running(r)
        /\ d \in req[r].todo \cap Ducts
        /\ req' = [req EXCEPT ![r] =
               IF c \notin cables THEN [req[r] EXCEPT !.todo = {}]
               ELSE [req[r] EXCEPT
                   !.todo = req[r].todo \ {d},
                   !.tx = IF <<d, c>> \in links THEN NoTx
                          ELSE Recalculation({c}, {<<d, c>>}, {}, {})]]
        /\ UNCHANGED <<cables, ducts, links, laid, home, row, outdated, mixed, asked, changed>>

\* DELETE micropipe-connections: the rows found go, and the post_delete
\* handler recomputes the cable.
DeleteLinks(r, c, D) ==
    LET drop == {p \in links : p[1] \in D /\ p[2] = c}
    IN  /\ c \in cables /\ drop # {}
        /\ Start(r, c, {}, FALSE, Recalculation({c}, {}, drop, {}))

\* POST recalculate-length, and the action of the admin for one cable.
Recalculate(r, c) ==
    /\ c \in cables
    /\ Start(r, c, {}, FALSE, Recalculation({c}, {}, {}, {}))

\* PATCH of a cable: reads the row, and saves every column.  Nothing is
\* recomputed, whatever was sent.
PatchCable(r, c, p) ==
    /\ c \in cables
    /\ Start(r, c, {}, FALSE,
           [kind |-> "patch", add |-> {}, drop |-> {}, dropDucts |-> {}, dropCables |-> {},
            touch |-> {c}, raced |-> {}, patched |-> {},
            rows |-> [row EXCEPT ![c] = Patched(c, p)]])

\* DELETE of microducts, alone or with their conduit: the links go with
\* them, and the post_delete handler recomputes every cable that had one.
DeleteDucts(r, D) ==
    LET drop == {p \in links : p[1] \in D}
    IN  /\ D \subseteq ducts /\ D # {}
        /\ \E c \in Cables :
               Start(r, c, {}, FALSE, Recalculation({p[2] : p \in drop}, {}, drop, D))

\* DELETE of a cable, its links with it.
DeleteCable(r, c) ==
    /\ c \in cables
    /\ Start(r, c, {}, FALSE,
           [kind |-> "delete", add |-> {}, drop |-> {p \in links : p[2] = c},
            dropDucts |-> {}, dropCables |-> {c}, touch |-> {c}, raced |-> {}, patched |-> {},
            rows |-> row])
-----------------------------------------------------------------------------
\* A mutant: no foreign keys.
Accepted_NoForeignKeys(tx) ==
    /\ \A p \in tx.add : p \notin links
    /\ tx.kind # "patch" => tx.touch \subseteq cables

\* What the database accepts: rows that are still there and, after a delete,
\* no row left that refers to a deleted one.  (The save of a PATCH inserts
\* the cable again when it is gone.)
Accepted(tx) ==
    /\ \A p \in tx.add : p[1] \in ducts /\ p[2] \in cables /\ p \notin links
    /\ tx.kind # "patch" => tx.touch \subseteq cables
    /\ \A p \in (links \cup tx.add) \ tx.drop :
           p[1] \notin tx.dropDucts /\ p[2] \notin tx.dropCables

\* The row of cable c once tx has saved it: two columns of a recomputed
\* length, every column of a PATCH.
Saved(tx, c) ==
    CASE c \in tx.touch /\ tx.kind = "patch" -> tx.rows[c]
      [] c \in tx.touch /\ tx.kind = "recalculate" ->
             [row[c] EXCEPT !.length = tx.rows[c].length, !.total = tx.rows[c].total]
      [] OTHER -> row[c]

\* The cables whose length, if it is being computed, tx makes another one.
Moved(tx) ==
    {c \in Cables : (\E p \in tx.add \cup tx.drop : p[2] = c) \/ Saved(tx, c).ends # row[c].ends}

\* The cables whose reserves tx changes.
Resized(tx) == {c \in Cables : Saved(tx, c).reserve # row[c].reserve}

\* The transactions and the automatic linkings that a commit, or a change of
\* the surroundings, overlaps: M the cables it moves, P those it resizes.
RacedTx(tx, M, P) ==
    IF tx = NoTx THEN NoTx
    ELSE [tx EXCEPT !.raced = tx.raced \cup M, !.patched = tx.patched \cup P]

Raced(q, M, P) ==
    IF ~Open(q) THEN req[q]
    ELSE [req[q] EXCEPT !.disturbed = TRUE, !.tx = RacedTx(req[q].tx, M, P)]

\* What a commit makes of the histories.  A recomputed length is right but
\* for a race, and its total but for other reserves; a PATCH saves a length
\* and a total that belong together, and outdates a length it changes or
\* moves an end of.
Outdated(tx) ==
    CASE tx.kind = "recalculate" -> (outdated \ tx.touch) \cup (tx.touch \cap tx.raced)
      [] tx.kind = "patch" ->
             outdated \cup {c \in tx.touch : \/ tx.rows[c].length # row[c].length
                                             \/ tx.rows[c].ends # row[c].ends}
      [] OTHER -> outdated \cup tx.dropCables

Mixed(tx) ==
    CASE tx.kind = "recalculate" -> (mixed \ tx.touch) \cup (tx.touch \cap tx.patched)
      [] tx.kind = "patch" -> mixed \ tx.touch
      [] OTHER -> mixed

Commit(r) ==
    LET tx == req[r].tx
    IN  /\ InTx(r)
        /\ Accepted(tx)
        /\ links' = (links \cup tx.add) \ tx.drop
        /\ ducts' = ducts \ tx.dropDucts
        /\ cables' = (cables \cup tx.touch) \ tx.dropCables
        /\ row' = [c \in Cables |-> Saved(tx, c)]
        /\ outdated' = Outdated(tx) /\ mixed' = Mixed(tx)
        /\ req' = [q \in Requests |-> IF q = r THEN [req[r] EXCEPT !.tx = NoTx]
                                               ELSE Raced(q, Moved(tx), Resized(tx))]
        /\ UNCHANGED <<laid, home, asked, changed>>

\* The database refuses.  get_or_create takes the row another request
\* created in the meantime; any other refusal is an error for the client.
Refuse(r) ==
    LET tx == req[r].tx
    IN  /\ InTx(r)
        /\ ~Accepted(tx)
        /\ req' = [req EXCEPT ![r] = [req[r] EXCEPT
               !.tx = NoTx,
               !.todo = IF tx.add # {} /\ tx.add \subseteq links THEN req[r].todo ELSE {}]]
        /\ UNCHANGED <<cables, ducts, links, laid, home, row, outdated, mixed, asked, changed>>

Answer(r) ==
    /\ Running(r)
    /\ req[r].todo = {}
    /\ req' = [req EXCEPT ![r] = Idle]
    /\ UNCHANGED <<cables, ducts, links, laid, home, row, outdated, mixed, asked, changed>>

\* A microduct is assigned to another node, gets a status or loses it.
Reassign(d, a) ==
    /\ d \in ducts /\ changed < MaxChanges /\ a # home[d]
    /\ changed' = changed + 1
    /\ home' = [home EXCEPT ![d] = a]
    /\ req' = [q \in Requests |-> Raced(q, {}, {})]
    /\ UNCHANGED <<cables, ducts, links, laid, row, outdated, mixed, asked>>

\* A conduit is laid in a trench or taken out of it.  No length is
\* recomputed for it.
Rewire(t, k) ==
    LET W == (laid \cup {<<t, k>>}) \ (laid \cap {<<t, k>>})
    IN  /\ changed < MaxChanges
        /\ changed' = changed + 1
        /\ laid' = W
        /\ outdated' = outdated \cup {c \in Cables : \E d \in Linked(c) : ConduitOf[d] = k}
        /\ req' = [q \in Requests |-> Raced(q, Cables, {})]
        /\ UNCHANGED <<cables, ducts, links, home, row, mixed, asked>>

Init ==
    /\ cables = Cables /\ ducts = Ducts
    /\ links \in {{}, LinkedAtFirst}
    /\ laid = LaidAtFirst
    /\ home \in [Ducts -> Addresses \cup {None}]
    /\ row = [c \in Cables |->
           LET n == IF Linked(c) = {} THEN None
                    ELSE CalcLength(c, EndsAtFirst[c], links, laid)
           IN  [length |-> n, total |-> n, reserve |-> 0, ends |-> EndsAtFirst[c]]]
    /\ req = [r \in Requests |-> Idle]
    /\ outdated = {} /\ mixed = {} /\ asked = 0 /\ changed = 0

Step(r) ==
    \/ \E c \in Cables, D \in SUBSET Ducts : PostLinks(r, c, D) \/ DeleteLinks(r, c, D)
    \/ \E c \in Cables, d \in Ducts : ChooseLink(r, c, d)
    \/ \E c \in Cables : AutoLink(r, c) \/ Recalculate(r, c) \/ DeleteCable(r, c)
    \/ \E c \in Cables, p \in Patches : PatchCable(r, c, p)
    \/ \E D \in SUBSET Ducts : DeleteDucts(r, D)
    \/ \E e \in Ends : LinkEnd(r, e)
    \/ \E d \in Ducts : LinkDuct(r, d)
    \/ Commit(r) \/ Refuse(r) \/ Answer(r)

Change ==
    \/ \E d \in Ducts, a \in Addresses \cup {None} : Reassign(d, a)
    \/ \E t \in Trenches, k \in Conduits : Rewire(t, k)

Next == (\E r \in Requests : Step(r)) \/ Change

Spec == Init /\ [][Next]_vars
-----------------------------------------------------------------------------
TypeOK ==
    /\ cables \subseteq Cables /\ ducts \subseteq Ducts
    /\ links \subseteq ducts \X cables
    /\ laid \subseteq Trenches \X Conduits
    /\ home \in [Ducts -> Addresses \cup {None}]
    /\ row \in [Cables -> Row]
    /\ req \in [Requests -> Request \cup {Idle}]
    /\ outdated \subseteq Cables /\ mixed \subseteq Cables
    /\ asked \in Nat /\ changed \in Nat

\* A row holds length n, which no link has made it compute before the first
\* one.
Holds(w, n) == (IF w.length = None THEN 0 ELSE w.length) = n

\* A row's total is its length and its reserves.
Totalled(w) == w.length # None => w.total = w.length + w.reserve

\* A cable's total is its length and its reserves, whoever wrote which of
\* them last, but for a recomputation that a change of the reserves
\* overlapped.  And its length is that of its present links between its
\* present ends, unless, since it was last recomputed, a PATCH changed it or
\* moved an end, a trench was changed under it, or that recomputation was
\* overlapped by a change of its links or ends (models.py, update_length_
\* from_connections, the two link handlers and the pre_save handler).
LengthRight ==
    \A c \in cables :
        /\ c \notin mixed => Totalled(row[c])
        /\ c \notin outdated => Holds(row[c], CalcLength(c, row[c].ends, links, laid))

\* What one end of a cable looks like when nothing is left to link there.
EndSettled(c, e) ==
    LET found == Candidates(row[c].ends[e])
    IN  found \cap Linked(c) = {} => Cardinality(found) # 1

\* An automatic linking that nothing interfered with leaves nothing to link
\* at either end, also where both ends have one address (services.py,
\* auto_link_cable_micropipes).
AutoLinkSettles ==
    \A r \in Requests :
        Running(r) /\ req[r].auto /\ req[r].todo = {} /\ ~req[r].disturbed =>
            \A e \in Ends : EndSettled(req[r].cable, e)
=============================================================================
