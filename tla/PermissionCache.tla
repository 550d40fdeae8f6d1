-------------------------- MODULE PermissionCache --------------------------
(***************************************************************************)
(* The access levels of users and the cache in front of them.              *)
(*                                                                         *)
(* A user's level on a model is the highest one of the user's groups.      *)
(* RoleBasedPermission keeps it in Django's default cache, which lives in  *)
(* the memory of one gunicorn worker, for five minutes; a change clears    *)
(* the entries of the worker that makes it and of no other.  A worker      *)
(* serves one request at a time and is killed when a request takes too     *)
(* long; its cache dies with it.  One model stands for all of them.        *)
(***************************************************************************)
EXTENDS Naturals

CONSTANTS
    Users, Groups, Workers,
    Top,            \* the highest of the levels: none is 0, full is Top
    Timeout,        \* ticks an entry lives (timeout=300)
    MaxRequest,     \* ticks a request may take (gunicorn --timeout 60)
    MaxChanges,     \* bound on the changes of a behaviour
    None            \* no entry; no request

Levels == 0 .. Top
Horizon == Timeout + MaxRequest
Ages == 0 .. Horizon + 1

ASSUME ConstantsAssumption ==
    /\ Top \in Nat /\ MaxRequest \in Nat /\ MaxChanges \in Nat
    /\ Timeout \in Nat /\ Timeout > 0

VARIABLES
    level,      \* model_permission: the level of each group
    member,     \* auth_user_groups: the groups of each user
    cache,      \* a worker's entries: the level of a user and its age
    job,        \* the request a worker is serving
    was,        \* history: how long ago a level last was the user's, capped
    synced,     \* history: the users whose latest change this worker made
    changes     \* the bound's counter

vars == <<level, member, cache, job, was, synced, changes>>

Entry == [level : Levels, age : 0 .. Timeout - 1, mixed : BOOLEAN]
Request == [step : {"groups", "levels", "store"}, user : Users,
            groups : SUBSET Groups, got : Levels, mixed : BOOLEAN, age : 0 .. MaxRequest]

\* The highest level of the groups G; "none" without a group.
Highest(L, G) == CHOOSE l \in Levels : /\ \A g \in G : L[g] <= l
                                       /\ l = 0 \/ \E g \in G : L[g] = l
Effective(u) == Highest(level, member[u])

Idle(w) == job[w] = None
At(w, step) == ~Idle(w) /\ job[w].step = step
-----------------------------------------------------------------------------
\* has_permission: an entry of the user decides and nothing changes; without
\* one the permissions are loaded.
Begin(w, u) ==
    /\ Idle(w) /\ cache[w][u] = None
    /\ job' = [job EXCEPT ![w] = [step |-> "groups", user |-> u, groups |-> {}, got |-> 0,
                                  mixed |-> FALSE, age |-> 0]]
    /\ UNCHANGED <<level, member, cache, was, synced, changes>>

\* _load_permissions, first query: the user's groups.
ReadGroups(w) ==
    /\ At(w, "groups")
    /\ job' = [job EXCEPT ![w] = [job[w] EXCEPT !.groups = member[job[w].user],
                                                !.step = "levels"]]
    /\ UNCHANGED <<level, member, cache, was, synced, changes>>

\* The second query, and the highest level of those groups.
ReadLevels(w) ==
    /\ At(w, "levels")
    /\ job' = [job EXCEPT ![w] = [job[w] EXCEPT !.got = Highest(level, job[w].groups),
                                                !.step = "store"]]
    /\ UNCHANGED <<level, member, cache, was, synced, changes>>

\* cache.set, whatever has changed since the queries; the level decides.
Store(w) ==
    LET entry == [level |-> job[w].got, age |-> 0, mixed |-> job[w].mixed]
    IN  /\ At(w, "store")
        /\ cache' = [cache EXCEPT ![w] = [cache[w] EXCEPT ![job[w].user] = entry]]
        /\ job' = [job EXCEPT ![w] = None]
        /\ UNCHANGED <<level, member, was, synced, changes>>

\* The worker dies, of a crash or a request that takes too long; a new one
\* starts with an empty cache.
Kill(w) ==
    /\ job' = [job EXCEPT ![w] = None]
    /\ cache' = [cache EXCEPT ![w] = [u \in Users |-> None]]
    /\ UNCHANGED <<level, member, was, synced, changes>>
-----------------------------------------------------------------------------
\* A mutant: no handler for the groups of one user.
Invalidated_Everyone(C, U) == [u \in Users |-> IF U = Users THEN None ELSE C[u]]

\* The signal handlers: the entries of the users U go.
Invalidated(C, U) == [u \in Users |-> IF u \in U THEN None ELSE C[u]]

\* A change commits that leaves the levels L and memberships M.  A load that
\* is between its queries mixes the two when its user's groups change.
Committed(L, M) ==
    /\ changes < MaxChanges /\ changes' = changes + 1
    /\ level' = L /\ member' = M
    /\ was' = [u \in Users |-> [was[u] EXCEPT ![Highest(L, M[u])] = 0]]
    /\ job' = [w \in Workers |->
           IF At(w, "levels") /\ M[job[w].user] # member[job[w].user]
           THEN [job[w] EXCEPT !.mixed = TRUE] ELSE job[w]]

\* Worker w makes a change about the users U.  The handlers run before the
\* transaction of the admin page commits, but w serves nobody in between.
MadeBy(w, U) ==
    /\ Idle(w)
    /\ cache' = [cache EXCEPT ![w] = Invalidated(cache[w], U)]
    /\ synced' = [v \in Workers |-> IF v = w THEN synced[v] \cup U ELSE synced[v] \ U]

\* A ModelPermission is saved or deleted in the admin pages.
ChangeLevel(w, g, l) == Committed([level EXCEPT ![g] = l], member) /\ MadeBy(w, Users)

\* A user's groups are set in the admin pages.
ChangeGroups(w, u, G) == Committed(level, [member EXCEPT ![u] = G]) /\ MadeBy(w, {u})

\* A RoutePermission is saved or deleted: all entries go, no level changes.
ChangeRoute(w) == Committed(level, member) /\ MadeBy(w, Users)

\* A change from another process, such as a seed migration, or one from the
\* group's side of the membership: no worker clears an entry.
ChangeElsewhere ==
    /\ \/ \E g \in Groups, l \in Levels : Committed([level EXCEPT ![g] = l], member)
       \/ \E u \in Users, G \in SUBSET Groups : Committed(level, [member EXCEPT ![u] = G])
    /\ synced' = [v \in Workers |-> {}]
    /\ UNCHANGED cache

Older(a) == IF a < Horizon + 1 THEN a + 1 ELSE a

\* Two mutants: an entry set without a timeout, and one that lives a tick
\* too long.
Aged_Never(e) == e
Aged_OneMore(e) == IF e = None \/ e.age >= Timeout THEN None ELSE [e EXCEPT !.age = e.age + 1]

\* An entry a tick later.
Aged(e) == IF e = None \/ e.age + 1 >= Timeout THEN None ELSE [e EXCEPT !.age = e.age + 1]

\* Time passes; entries expire.  No request is older than gunicorn allows.
Tick ==
    /\ \A w \in Workers : ~Idle(w) => job[w].age < MaxRequest
    /\ cache' = [w \in Workers |-> [u \in Users |-> Aged(cache[w][u])]]
    /\ job' = [w \in Workers |->
           IF Idle(w) THEN None ELSE [job[w] EXCEPT !.age = job[w].age + 1]]
    /\ was' = [u \in Users |-> [l \in Levels |->
           IF l = Effective(u) THEN 0 ELSE Older(was[u][l])]]
    /\ UNCHANGED <<level, member, synced, changes>>

Init ==
    /\ level \in [Groups -> Levels]
    /\ member \in [Users -> SUBSET Groups]
    /\ cache = [w \in Workers |-> [u \in Users |-> None]]
    /\ job = [w \in Workers |-> None]
    /\ was = [u \in Users |-> [l \in Levels |-> IF l = Effective(u) THEN 0 ELSE Horizon + 1]]
    /\ synced = [w \in Workers |-> {}]
    /\ changes = 0

Serve(w) ==
    \/ \E u \in Users : Begin(w, u)
    \/ ReadGroups(w) \/ ReadLevels(w) \/ Store(w) \/ Kill(w)

Administer(w) ==
    \/ \E g \in Groups, l \in Levels : ChangeLevel(w, g, l)
    \/ \E u \in Users, G \in SUBSET Groups : ChangeGroups(w, u, G)
    \/ ChangeRoute(w)

Next ==
    \/ \E w \in Workers : Serve(w) \/ Administer(w)
    \/ ChangeElsewhere
    \/ Tick

Spec == Init /\ [][Next]_vars
-----------------------------------------------------------------------------
TypeOK ==
    /\ level \in [Groups -> Levels]
    /\ member \in [Users -> SUBSET Groups]
    /\ cache \in [Workers -> [Users -> Entry \cup {None}]]
    /\ job \in [Workers -> Request \cup {None}]
    /\ was \in [Users -> [Levels -> Ages]]
    /\ synced \in [Workers -> SUBSET Users]
    /\ changes \in Nat

\* The level a worker decides by was the user's no longer ago than an entry
\* lives and its load took, whoever made the change, unless the load mixed
\* the groups before a change with the levels after it (permissions.py,
\* _get_access_level and _load_permissions).
DecisionsAreRecent ==
    \A w \in Workers, u \in Users :
        cache[w][u] # None /\ ~cache[w][u].mixed => was[u][cache[w][u].level] <= Horizon

\* A worker that made the latest change about a user answers by it: what it
\* has cached for the user is the user's level (signals.py).
WriterIsInSync ==
    \A w \in Workers : \A u \in synced[w] :
        cache[w][u] # None => cache[w][u].level = Effective(u)
=============================================================================
