# Formal models of Qonnectra

Qonnectra plans and documents fibre networks: a Django backend over
PostgreSQL/PostGIS, a SvelteKit client that draws the network on a map and as a
schema, and map servers beside them. This directory holds TLA+ models of the
parts of it whose correctness depends on sequences and interleavings of steps,
TLC instances that check them, and TLAPS proofs of the results that matter most.

Paths below are relative to `src/`; `views.py`, `models.py`, `services.py`,
`storage.py` and `admin.py` are those of `backend/apps/api/`.

## 1. The system

### 1.1 Components

| component | state | operations | what makes it correct | model |
|---|---|---|---|---|
| Fiber splices (`views.py` `FiberSpliceViewSet`, `models.py` `FiberSplice`, the client's `FiberSpliceManager`, `PortTable`) | one row per (node structure, port) and on either side a fiber, a unit, a merge group, the group's shared fiber | upsert, bulk_upsert, clear_port, merge_ports, unmerge_ports, upsert_merged, DELETE, cascades | a group is on one side of one structure and shares one fiber; the sides do not influence each other; no fiber is lost or left behind; no reference dangles | `FiberSplices` |
| Canvas coordinate sync (`views.py` `NodeCanvasCoordinatesView`, `models.py` `CanvasSyncStatus`) | `canvas_sync_status` row per key, canvas coordinates of nodes, requests in the workers | GET, POST, `_perform_sync`, stale cleanup; PATCH, POST and DELETE of nodes | one sync at a time; a dead one is noticed; every node gets coordinates; positions set by users stay | `CanvasSync` |
| Attachments and feature folders (`models.py` `FeatureFiles` and rename handlers, `services.py`, `storage.py`, `views.py`, `admin.py`) | `feature_files` rows, folders and files in the media root | upload, delete, rename, move, rename of the feature, orphan cleanup | a row leads to its file; the folder is named like the feature; bytes are never lost | `FeatureFolders` |
| Node slots, structures and containers (`views.py` `NodeStructureViewSet`, the client's `NodeStructureManager`) | structures on slot ranges, the page's list with temporary entries; clips, dividers, container tree | create, bulk create, move, delete, fetch; nest, reorder | no two structures on a slot; the list ends up equal to the rows; the containers are a forest | `NodeStructures` (structures and the page) |
| Cable length and micropipe links (`models.py` `Cable`, `MicroductCableConnection` and its receivers, `services.py` `auto_link_cable_micropipes`) | links, reserves, end nodes, `length`, `length_total` | link, unlink, link by address, recalculate, PATCH, deletions | the total belongs to the length; the length is that of the links when nothing outdated it; linking by address is complete | `CableLinks` |
| Permissions and their cache (`permissions.py`, `signals.py`) | groups and their levels, a cache per worker | load, set, invalidate, expire | a revoked permission stops to apply | `PermissionCache` |
| Fiber trace, signal analysis, fault simulation (`services.py`) | none of their own; they read the splice table | trace a fiber, cable, node, address or unit; overlay signal states; simulate damage | all that is connected is traced, once; what is dark or affected is what lies behind the break | `FiberTrace`, `SignalFlow`, `TraceRequests` |
| Schema and deletions (`models.py`, `migrations/`) | every row, its foreign keys, history records, triggers | DELETE through the API, DELETE by QGIS in the database | both leave the same rows; history tells the truth | `Models`, `Migrations`, `Deletions` |
| Client state with optimistic updates | lists in the browser, snapshots | update, request, rollback, refetch | the list ends up equal to the server's | the list of structures in `NodeStructures`; that of splices planned |
| Generated microducts and fibers | rows made at creation | signals, admin fill | as many as the type says, once | not modelled |
| Trench profile, trench selections | canvas positions, selections per node | bulk save, replace | the set saved last is stored | not modelled |
| Sessions and token refresh | cookies, timers | refresh, heartbeat | | not modelled |
| Routing | none | shortest path | | not modelled |
| Import, export, reports, QGIS conversion | none | one request each | | not modelled |
| WMS/WFS proxies | capabilities cache | forwarding | | not modelled |
| Pipeline inquiries and valuation | records | CRUD | | not modelled |
| Logging, search, validators, admin pages | log rows | | | not modelled |
| Deployment (`deployment/docker-compose.yml`) | | | | constants of `CanvasSync` |

### 1.2 How the parts interact

The client calls the backend through SvelteKit form actions, one HTTP request
per operation; it changes its own lists first and restores a snapshot when the
request fails. The backend runs under `gunicorn --workers 4 --timeout 60`:
several synchronous processes share nothing but the database and the media
root. There is no `ATOMIC_REQUESTS`, so outside an explicit `transaction.atomic`
each statement commits on its own, and a request killed by its timeout leaves
what it has committed. Django signals are the callbacks: saving a feature
renames a folder, saving or deleting a link recalculates a cable, deleting a
row cascades.

* Fiber splices meet the rest through foreign keys: deleting a cable, a fiber,
  a structure or a residential unit removes rows or empties columns.
* The sync shares the nodes' coordinate columns with every PATCH of a node,
  which saves all columns of the row it has read.
* Attachments are rows, which are transactional, about files, which are not.
* A trace reads the splice table with one query per fiber while others edit it.
* A cable's length is stored, and derived from links, conduits and trenches that
  others change; receivers of the links' signals recompute it.
* Every worker has a cache of its own for permissions (`settings.py` has no
  `CACHES`, so it is in memory); the receivers in `signals.py` clear the one of
  the worker that makes a change.
* QGIS writes to the same database beside the backend: there Django's on_delete
  rules and receivers do not exist, only the constraints and triggers of the
  migrations.

### 1.3 What is hard here

Interleavings of requests at their statements, state read before and written
after another request's commit, requests killed between statements, effects on
the file system that no rollback undoes, handlers whose compensation runs the
handlers again, long legal sequences of merges and partial unmerges, lists in a
browser that were true a moment ago, derived columns and caches, two sets of
deletion rules for one schema, and walks over graphs with loops and branches.
`PROJECT.json` lists these as hazards with the line where each bites and the
properties about it.

## 2. The models

### 2.1 FiberSplices

The variables are the columns of the table, indexed by side and slot, and the
sets of structures, cables and units that exist. `None` is SQL NULL; the columns
of a row that is not `present` are `None` (`AbsentIsBlank`, which is proved). A fiber's cable
is `CableOf`, for the client always sends the cable with its fiber; so the
`cable_*` columns need no variable of their own.

| action | code |
|---|---|
| `UpsertFiber` (`UpsertOwn`, `UpsertShared`), `UpsertUnit` | `upsert`; the row is made by `get_or_create` before the fiber is looked up |
| `BulkUpsertFiber`, `BulkUpsertUnit` | one item of `bulk_upsert`: items commit one by one |
| `ClearPort` (`ClearShared`, `ClearOwn`) | `clear_port` with its test whether the row is empty |
| `MergePorts` | `merge_ports`; the client chooses the order of the ports, hence which fiber is met first |
| `UnmergePorts` | `unmerge_ports` with the search for the group's side, the heir of the shared fiber and the dissolution of a group of one |
| `UpsertMerged` (`DropShared`, `DropSequential`) | `upsert_merged` on the merged side, and on the other side |
| `DestroySplice` | `DELETE` of a row |
| `DeleteCable`, `DeleteStructure`, `DeleteUnit` | the `on_delete` rules of the foreign keys |

Each request is one step. That is what the code promises to a single user, and
it is where the properties about long sequences live; two requests at once on
one row are the next module of the plan. `PortTable = TRUE` restricts merges,
bulk upserts, sequential drops and DELETE to what the client's port table
offers (unmerged, at least two, unoccupied ports); `FALSE` lets any API client
in.

### 2.2 CanvasSync

The row's `status`, `beat` (the age of `last_heartbeat`) and `processed`; for
each worker its step `pc`, the age of its request, the heartbeat in its copy of
the row (`own`, which full-row saves write back), the nodes it found without
coordinates and those left to write; `pos`, for each node whether it has
coordinates and whether the sync or a user gave them; and PATCH requests that
have read their node. A step is one database statement or one short
transaction: `TakeOver` is the `select_for_update` block, `FindNoRow` and
`Insert` are its path without a row, where there is nothing to lock.
`ReadNodes`, `SaveCentre`, `WriteBatch`, `Heartbeat`, `Complete` are
`_perform_sync`; `Fail` is its except clause and `FailAgain` that of `post`.
`Kill` is gunicorn's timeout or a restart. Time is `Tick`: it ages heartbeats up
to `StaleAfter + 1`, above which the code sees no difference, and requests up to
`WorkerTimeout`, after which a request must be over.

`FailAgain` gets the row and saves it in one step, and so does `cleanup_stale_syncs`
in `Get`, which updates with one statement.

`SyncLease` is what the row promises, without workers' steps, heartbeats or
time: a lease with `holders` and a flag `shown`. It is acquired when nobody
holds it, released by its holder, and reclaimed only when its holder has died.
`CanvasSync!Lease` instantiates it with the workers that are inside
`_perform_sync` and with `status = "IN_PROGRESS"`; `ImplementsLease` is its
specification under that mapping. A POST or a page cannot see the workers, so
the content of the refinement is that the heartbeat stands for them.

### 2.3 FeatureFolders

One feature type of one project: names of features, rows (owner and path),
folders, and for each path whose bytes are there. A folder's name and a
feature's identifier are both members of `Names`; `Sanitize` maps one to the
other. A request is a `job` that takes one database or file system operation
per step, with the step it is at:

* `RenameFeature` commits the name, then `NoFolder`, `MoveFolder` and
  `UpdatePaths`, or `MoveFails`, `RestoreName` and perhaps `GiveUp`. The
  handler's compensation is a `save()`, hence `RestoreName` starts a rename in
  the other direction; `GiveUp` is the `RecursionError` when neither direction
  succeeds. `UpdatePaths` is one step because its loop is inside one
  transaction.
* `Upload` and `InsertRow`; `Unlink` and `DeleteRow` (the API's delete and the
  admin's orphan cleanup alike); `RenameFile` or `MoveFile` (both `Copy`),
  `RemoveOld` and `Repoint`; `MoveMissingFile` and `Repoint`.
* `Kill` ends a job anywhere. `calm` remembers that no feature was deleted and
  no request killed.

`Deletes`, `Kills` and `Restores` (nodes, cables, conduits and trenches restore
the name; addresses only raise again) are switches. One job at a time is
checked; `Jobs` is a set so that more can be.

### 2.4 FiberTrace, SignalFlow, TraceRequests

`FiberTrace` is pure. A table gives every splice row two sides, each with the
fiber of its port, the fiber shared by its merge group and a unit. `Levels` is
the recursive query of `trace_fiber`: its rows of depth d, each as the path that
led to it (the query keeps it as `visited`). `Across` is the query's CASE with
its order. `TreeNodes` is what `build_children` makes of the rows: it gives
every parent of one depth all the rows of the next, so a node of the tree is a
sequence of rows that need not be a path of the query. `Statistics`,
`SummaryEnds` and `StartOfNode`, `StartOfUnit`, `StartOfAddress` follow the
functions of the same purpose.

`SignalFlow` adds the states of a node of the tree (`_propagate_signal_state`,
with a set of broken fibers: those with a status, or those of a damaged
trench's cables), the summary that counts nodes of the tree, the choice of the
source, and what `simulate_fault` reports.

`TraceRequests` makes requests of them: `Ask` collects the fibers, `Skip` and
`TraceNext` run the loop with `seen_fibers`, and another user clears a row
between two queries. A trace keeps the table it saw, so the properties compare
it with that table by a definition that has nothing to do with paths
(`Connected`: the least set closed under the joins of the rows).

The network around the table (which cable a fiber is in, where cables end, the
addresses of nodes and units) is constant; `ConstantsAssumption` types it and
says that fibers and rows are finitely many and that `None`, the empty column,
is none of them. `SummaryNamesTheEnds` speaks of cables in a line, each end at a
node and spliced where they meet. A ring, or a cable whose end is unknown, has
no two ends that a summary could name, and the code promises nothing for it.

### 2.5 CableLinks

The link rows, where conduits are laid, the address of every intact duct's node
(`home`), and of each cable `length`, `length_total`, the sum of its reserves
and the nodes at its ends. What the route between two nodes through a set of
trenches is long is a constant (`Routed`, 0 when there is none or a node is
missing), for the search is numeric; the fallback is the summed length of the
trenches, as in `calculate_length_from_connections`.

Every write is a transaction in two steps: the request's step reads the
committed rows and says what will be written (`tx`), and `Commit` writes it, or
`Refuse` does not, by the foreign keys and the unique constraint. So two
requests overlap as under READ COMMITTED. `PostLinks` and `ChooseLink` link
ducts one by one with `get_or_create`; `AutoLink` handles one end after the
other (`LinkEnd`), with the end nodes it read when it began. A recomputation
saves two columns of the row, `PatchCable` all of them (`Saved`): those the
client sent, the others as read, which inserts the cable again when it was
deleted. The serializer lets a client send the length and its total as well as
the reserves, and either end node; the `pre_save` handler replaces the total
whenever there is a length, and nothing recomputes the length (`Patched`). So a
single PATCH may store any length, or leave one of other ends, as the page's
`updateCableConnection` does when a cable is dragged to another node. `Reassign`
and `Rewire` are the changes around it, which recompute nothing either.

`outdated`, `mixed` and `disturbed` are history, as are the fields `raced` and
`patched` of a transaction, and no action reads them. `outdated` holds the
cables with a length that a PATCH changed or moved an end under, whose trenches
changed, or whose last recomputation a change of its links or ends overlapped;
only a recomputation that nothing overlapped takes a cable out. `mixed` holds
those whose reserves a PATCH changed while a recomputation was adding them up.

### 2.6 NodeStructures

The rows are slot ranges. A user's page has a selected configuration with its
`fetchVersion`, the list it shows and the entries of it that wait for their
creation. An operation is a request with what the page and the server saw:
`CreateStructure`, `CreateMultiple`, `MoveStructure`, `DeleteStructure` check
the list (`Unoccupied`), change it and send; `CheckMove` and `SaveMove`,
`ReadOccupied` and `CreateNext` are the reads and writes of the server; `Create`
checks nothing but the unique constraint. `Lose` loses the request or its
answer. `Created` ... `Fetched` are what the page does with the answer, with
`RolledBack` putting back the whole list of before.

Two histories keep the properties honest. `blind` holds the structures whose
last writer had not seen where all others were. `torn` holds the users whose
list others' writes, lost answers or overlapping failures may have spoiled; a
fetch that reads a quiet table clears it.

### 2.7 PermissionCache

Groups have a level on one model, users have groups; a worker has entries with
an age and at most one request. A miss runs `ReadGroups` and `ReadLevels`, two
queries, and `Store`. `ChangeLevel`, `ChangeGroups` and `ChangeRoute` are the
admin's changes with the receivers' invalidation in that worker;
`ChangeElsewhere` is a change by another process, or from the group's side of
the membership, where the receiver ignores an instance that is no `User`.
`Tick` ages everything; `Kill` empties a worker. `was` is, for each user and
level, how long ago the user had the level; `synced` the users whose latest
change the worker made; `mixed` marks a load that saw a user's groups before a
change and levels after it.

### 2.8 Models, Migrations, Deletions

`Models` lists the foreign keys of every class with on_delete and null;
`Migrations` builds the same tables the way the migrations do, ending with the
ON DELETE clauses of 0041, 0062, 0063 and 0064 and with the history tables of
0053, 0067 and 0070. A column of these is constrained or not: what is copied
from a class has `db_constraint=False`, while `history_user` is a foreign key to
the user table with a constraint and without an ON DELETE clause
(`0053_...py:72`). `Deletions` is a database over any such schema:

* `Collect` is Django's collector (external): the closure under CASCADE,
  `ProtectedError` and `RestrictedError`, the tables it deletes by a query
  (`Fast`), a copy of the rest. `by` is the user of the request, as the history
  middleware knows it (`settings.py:78`). `Execute` is the transaction: the rows
  collected go, nullable keys are emptied (among them the `history_user` of the
  records of a deleted user, `Anonymous`), the database takes along what its own
  clauses say, the receivers of `post_delete` write a record per row from the
  copy, with the user, and `Commits` checks the triggers of 0047 and the
  constraints.
* `SqlDelete`, `SqlInsert` and `SqlUpdate` are writes by QGIS or another request
  in between, and touch a row that is shown: a key between two rows that are not
  tells no property apart; `Die` is a worker lost before the commit.

`ApiOutcome` and `SqlOutcome` are a whole deletion on each path. What the two
schemas must have in common for them to agree is `SchemaAssumption`, which TLC
evaluates on the schema itself and the proofs assume.

## 3. The runs

| run | asks | bounds |
|---|---|---|
| `splices_groups` | do ports of a group share one fiber, and does unmerging lose no fiber and leave no group of one | 3 ports, 2 fibers, 1 group identifier: a group can lose a port and keep two, and lose two at once |
| `splices_sides` | does a request leave the side it was not sent for alone, is nothing left behind or dangling | 2 ports, 2 groups (one per side), 2 cables with a fiber each, 1 unit; drops of 1 fiber (on the merged side, the only one the port table offers, just the first counts) |
| `splices_structures` | does any API request keep to one structure | 2 structures, 1 group identifier that both want, `PortTable = FALSE` |
| `sync_lock` | is there one sync at a time, is it shown, and is the row a lease (`ImplementsLease`) | 2 workers, 2 nodes, batches of 1 (so two batches), 1 PATCH, 2 killed requests, `StaleAfter = WorkerTimeout`: the tightest ratio allowed |
| `sync_progress` | are dead syncs reclaimed, do all nodes get coordinates | as above, with failures, no row at first, 1 mishap |
| `folders_attachments` | do rows lead to files, folders follow names, bytes survive | 2 features, 3 names, 2 files, 2 base names, everything may happen |
| `trace_answers` | does a trace reach exactly what is connected, are totals right, is the dark part what lies behind the break, does a fault report all it cuts off | 4 fibers in 3 cables, 120 tables of 3 rows (loops, splitters, shared and masked fibers, units), at most 1 broken fiber, one row cleared at any moment, depth cap 4 |
| `trace_source` | does a lit fiber receive the signal from the chosen source: it does not, see section 5 | the same, without edits |
| `cable_links` | do length, total, links and ends belong together, does linking by address complete | 1 cable with both ends at one address, a second node to move an end to, 2 ducts in 2 conduits, 2 trenches, PATCHes of each column, 2 requests at once, 3 in all, 1 change around them |
| `node_structures` | do overlaps need an unseen write, does the page show the rows | 4 structures, 2 configurations of 3 slots, 2 users, 2 operations at once, 3 in all |
| `permission_cache` | how old is a level that decides, does the writer know its change | 2 users, 2 groups, 2 workers, 2 levels, 2 changes, timeouts of one tick each |
| `deletions` | do API and database agree, is history true, what stands in the way of a row nobody refers to | every foreign key of the schema: each database of two rows joined by it, and each of three that adds one row by a further key; each table with a history beside a user, and a row that refers to the user; 1 request, 1 write in between |

Why these bounds are enough to be of use: the splice code distinguishes the
first row of a group, the named ones and a single remaining one, which takes
three ports; a second structure or side is told apart only by its difference
from the first. The sync's hazards are between an old owner, a new one and a
page that reads; batches only need to be more than one. A folder collision
needs two features and a third name to escape to. A trace can go wrong at a
loop, a branch, a shared fiber, a masked one and a row without a far side, and
four fibers in three rows have all of them, two at a time. Lengths and slots
are spoiled by two overlapping requests; the third lets one of them meet the
result. A cache needs two workers to disagree and two changes to tell an old
value from a new one. Deletions are local: a rule concerns a row, the row that
refers to it, and one more that shares a key with either.

Deadlock is checked for the sync and the permissions, where time never stops,
and for traces, where a request can always be asked. It is off where the system
may really stop: a splice table without structures offers no request, features
that are all deleted while every row identifier is used leave nothing to do,
and so do deleted rows in `Deletions`; in `CableLinks` and `NodeStructures` the
bound on requests ends every behaviour.

Symmetry is used in the safety runs without quantities that break it: workers,
users, groups, operations and requests permute; fibers permute together with
their cables. It is not used for liveness nor for the fixed networks of
`trace_answers` and `deletions`.

The counters `MaxRequests`, `MaxChanges`, `MaxOps`, `MaxEdits`, `MaxWrites`
bound the length of a behaviour and nothing else; the proofs hold for all their
values.

### Fairness

`CanvasSync!FairSpec` assumes that time passes (`Tick`), that a worker with a
request carries on (`Work(w)`), and that the schema page is opened again and
again: its load asks GET, and POSTs while nodes are missing. Nothing is assumed
of failures, kills, edits or of which worker answers. A page that nobody opens
places no node, so the third assumption is needed; the code has no background
job. Weak fairness of `Get` is what reclaims a dead sync: `cleanup_stale_syncs`
is called nowhere else.

## 4. The proofs

`FiberSplices_proofs` proves, for any structures, ports, cables, fibers, units
and groups:

* `TypeCorrect`;
* `SharedFiberNeedsGroup`, `GroupsStayLocal` and, when `PortTable`,
  `GroupsShareOneFiber`, from one inductive invariant `MergeInv`. They need each
  other: a whole-group UPDATE keeps groups uniform only because the group is
  found on the side it lives on, and it is found there because groups are local;
  a merge starts from unmerged ports without a shared fiber because leaving a
  group clears it;
* `ReferencesStayLive` and `AbsentRowsStayBlank`, from `RowInv`: a shared fiber
  can dangle only in a row that exists, and the cascade deletes the row.

Its second part proves what one step may never do. `SidesStayIndependent`: a
request leaves the side it was not sent for as it was, of every port, with its
fiber, group, shared fiber and unit; a row that `clear_port` deletes had nothing
there, and one that a request creates has nothing yet (`AbsentIsBlank`, from
`RowInv`). `unmerge_ports` names no side, so it takes `GroupsAreLocal` to know
that the side it finds is the only one. `RequestsStayInStructure` is by a lemma
(`Footprint`) that says which rows each request may change; then
`NoGroupOfOneLeft`, for every set of ports a client may name, and, when
`PortTable`, `UnmergingLosesNoFiber`. Both rest on `LeavingIsUnmerging`: a row
that stays can leave its group by `UnmergePorts` only. No fiber is lost because
the group shares one: its first row speaks for all, and either some port stays
in the group or the heir, or the last port, gets the shared fiber as its own.

`CanvasSync_proofs` proves `SyncTypeCorrect`, and `AtMostOneSync`,
`RunningSyncIsShown` and `SyncIsALease` when `RowFirst` and not `MayFail`. `OneSync` is not
inductive: that nobody else runs says nothing about whether a POST may take the
row over. The invariant `LockInv` adds what the code relies on without saying
it, `RowIsHeld`: while a worker runs, the status is IN_PROGRESS, and neither
the heartbeat in the row nor the copy the worker will write back is older than
the worker's request. With gunicorn's timeout no request is older than
`WorkerTimeout`, and `WorkerTimeout <= StaleAfter` is an assumption on the
constants (60 s and 10 min in the deployment). Hence nothing running ever looks
stale, so nothing running is ever taken over. `NoStranger` adds that no request
is in an except clause or about to insert. Without the two hypotheses the
theorem is false: section 5 for `MayFail`, and the loser of two first INSERTs
for `RowFirst`. `SyncIsALease` is the refinement: `LockInv` makes a POST that
takes the row over an `Acquire`, a GET that cleans it up a `Reclaim`, and every
other step a `Release`, a `Die` or a stutter.

`FeatureFolders_proofs` proves `FoldersTypeCorrect` for any number of requests
at once, and `NoBytesLost` when `OneJob` (at most one request at a time). Its
invariant `BytesInv` has the two facts that the order of the code's operations
rests on: files lie in folders that exist, so a rename, which asks whether the
target folder exists, never moves a folder over files (`FilesInFolders`); and
between the copy and the removal of the old file the copy is there
(`CopyIsThere`).

`RowsLeadToFiles` (`FilesReachable`) and `FoldersFollowNames`
(`FolderFollowsName`) need the invariant `HomeInv`. A rename is in three places
one after the other: the name, the folder on disk, the paths in the rows.
`RowFolder` and `DiskFolder` say, for the step a request is at, in which folder
a feature's rows and bytes are expected meanwhile, and `HomeInv` is that they
are there, that no two features share a name, and that every folder is where
some feature's bytes are expected (a folder nobody owns would stop the rename of
whoever takes its name). A request that changes a file, not a name, is described by
`FileUnderWay`: what it has copied and not yet written to its row. The
hypotheses are `OneJob`; `PlainNames`, that `Sanitize` leaves every name alone
(an upload goes by the name as it is, a rename by its sanitized form, so that
with any other name the rename misses the folder the upload made); and `Restores`, the handlers that put the old
name back when the folder could not be moved. Addresses do not, and there both
statements fail.

`CableLinks_proofs` proves `TypeCorrect`, which includes that no link outlives
its duct or its cable, and `LengthsAreRight`, for any network, number of
requests, route lengths and PATCHes. `LengthRight` says two things of every
cable: but for one that is `mixed`, its total is its length and its reserves,
whichever of the overlapping requests wrote them; and but for one that is
`outdated`, its length is that of its present links between its present ends.
The invariant `LengthsInv` adds what each open transaction carries (`TxRightIn`):
a PATCH has a total that belongs to its row, a recomputation the length of the
links it will leave, unless the cable was moved since it read, and the total of
the present reserves, unless they were changed. It also counts deleted cables as
outdated, since a PATCH may insert one again. `OwnLinksOnly` is why a commit for
one cable disturbs no other.

`LinkingSettles` (`AutoLinkSettles`) follows a linking by address that nothing
has overlapped (`Undisturbed`). `LinkingInv` says of it that its cable and the
ducts it has still to link are there, that an open transaction of its own
inserts exactly one new link (`LinksOne`), and that each end it has dealt with
either has no single candidate or is linked, or will be by a duct the request
still waits for (`Awaited`, `EndPrepared`). When nothing is awaited, that is the
property. What other requests do is covered by the history: a commit that could
matter sets `disturbed`, so the invariant has to survive only those that do not.

`NodeStructures_proofs` proves `TypeCorrect` and `OverlapsAreBlind`. A
structure that is not blind was placed where it saw all others, each where it
still is or has left by a later write, which was either seen or blind itself;
`WriteKeeps` is this argument for one write, and the invariant says of an
operation between check and write that its place is free among what it saw.

`PageShowsRows` (`ShownIsStored`) is about every mixture of one user's open
operations. `PageInv` distinguishes when the page can be relied on (`Sure`: the
list is not torn, no fetch of the present version is under way, no operation is
bound to fail after overlapping another) and says that it is then `Right`: what
no open operation is about is shown as stored (`Settled`), what one is about is
shown as that operation will leave it (`Anticipated`), and no two writing
operations are about the same structure (`Apart`: a second one on an entry
spoils the list and is noted in `torn`; one on an entry that waits for its
creation names no row, so it is bound to fail). `Anticipated` also keeps what a roll
back needs: the list of before is still the stored one when the operation was
alone. Three smaller facts carry it: `UsedBefore` (an identifier not yet used is
nowhere, so a creation meets nothing), `Orderly` (how far an operation of each
kind can have come, and that its version is not newer than the page's) and
`OverlapsNoted` (an operation that overlapped a write of its user is marked
`mixed`). `NoneAssumption` keeps an empty place apart from every slot range.

`PermissionCache_proofs` proves `TypeCorrect`, `LevelsAreRecent` and
`WriterKnowsItsChange`. For the first the invariant follows a level from the
query to the entry: at each step, the user had it no longer ago than the
request and the entry are old, and those are bounded by `MaxRequest` and
`Timeout`. For the second, a worker that made the latest change has no entry
older than the change, and what it has loaded since is still the present state.

`Deletions_proofs` proves `TypeCorrect`, `PathsAlwaysAgree`, `RecordsAreTrue`
and `DeletionsAlwaysRecorded` for every schema with `SchemaAssumption`. The
invariant is that the database is `Sound` (keys lead to rows of the right
table) and that what was collected was a row. `DirectIsCollected` is the core:
when the database allows a direct deletion, no constraint is left broken, so
every row that on_delete would cascade to is already among those the
clauses take; the two closures are equal, protection cannot strike, and the
same keys are emptied.

`UnreferencedAlwaysGoes` (`UnreferencedGoes`) is the other direction: what
stands in the way of a row that nobody refers to. Through the API nothing does;
directly, exactly the records of deletions that name the row as their user. No
closure finds more than the row itself (`NothingFollows`, `OnlyItGoes`), so the
constraints between rows hold as before, and the triggers of 0047 read only the
columns that `TriggerAssumption` names, none of which led to the row. A record
is held to its `history_user` and to nothing else: that is the hypothesis
`OnlyUsersConstrained`, which the migrations satisfy; with a constraint on a
copied column, the mutant, the theorem is false. The users the records name are
there in every reachable database (`AlwaysSigned`), because every transaction
that left them passed the constraint, and Django empties the `history_user` of a
user it deletes. That no key is empty which may not be (`NullsAllowed`) is
assumed of the databases a behaviour starts with and is itself an invariant.

`TraceRequests_proofs` proves every invariant of the component:

* `TypeCorrect` and `TracesReachConnected`, by way of what the recursive query
  computes. `Levels` is a recursive function of the depth, and the library's
  induction theorem has an operator for a parameter; `LeastNumber` (a non-empty
  set of naturals has a least member) does instead, applied to the set of depths
  at which a claim fails. So `LevelsAreSimplePaths`: the rows of depth d are
  exactly the paths of d + 1 different fibers, each one `Across` from the one
  before. That such a path stays among the connected fibers is closure; that
  every connected fiber is on some path is a count (`TracedIsAllConnected`). The
  fibers found without the depth cap are closed under the joins, hence all; a
  path has no fiber twice, so it is no longer than the connected fibers are
  many, and the cap cuts nothing off if they are at most `MaxDepth + 1`. This is
  the hypothesis `ShortChains`, about the tables at the start (clearing a row
  connects nothing). The code's cap is 100 levels; beyond it a trace is
  incomplete, and the statement false.
* `EverythingIsTraced` and `TotalsAreExact`, from `TraceInv` and `TotalInv`: a
  fiber of the request is still to do, or shown by a trace; a trace is genuine
  for the table it saw; and while nothing is edited the traces are separate,
  because two connected sets that meet are equal and `seen_fibers` skips what is
  in one. The sum is then a count of disjoint sets (`SetInduction` on finite
  sets, since the sum is a fold).
* `FaultIsExact`: the units and addresses `simulate_fault` reports are those
  around what is connected with a damaged fiber. The rows of the tree are the
  rows of the paths (`TreeShowsRows`), the rows of the paths are those between
  connected fibers (`TracedSplicesAre`), and with the root broken every node of
  the tree is hit (`AllNodesHit`).
* `DarknessIsExact`, for every table and without hypotheses: a path behind a
  break is a node of the tree (`PathNodes`), so nothing is missed; where nothing
  branches each depth has one row, so the nodes are the paths (`NodeIsOfPath`)
  and the dark ones are those behind the break.
* `SummaryIsExact`, also for every table: k cables have 2k ends; k - 1 nodes
  take two each, which leaves two ends for the two other nodes, one each
  (`TwoEndsPerCable`). The attempt to prove this for the property as it first
  stood, without the count of the nodes, found rings and cables with an unknown
  end; its precondition now excludes them.

Only model-checked: the liveness properties of `sync_progress`, for fairness is
out of the prover's reach, and the run of section 5, which shows a violation.
Every invariant and every action property of the passing runs is a theorem, under the
hypotheses named above; where there are some, the run shows the property on an
instance that satisfies them.

tlapm reads `UNION A \cup B` as the union of `A \cup B`, SANY as that of `A`
with `B`; the modules it reads have parentheses there.

## 5. Where the code and its own words differ

`trace_source` shows that the state "lit" does not mean that a fiber receives
signal from the source, as `services.py:3886` says. `_propagate_signal_state`
gets the source and never looks at it: the walk starts lit at the fiber the
trace began with. With the break between the two, the answer is the wrong way
round.

The following were seen while modelling; each is a short sequence, and no run
is kept for it:

* `build_children` (`services.py:2865`) ignores which row a row came from. A
  trace that branches has, in its tree, all rows of a depth under every row of
  the one before, so a break on one branch shows the others dark as well, and
  counts of nodes are too high. `DarkLiesBehindTheBreak` states what is left:
  nothing behind a break is missed, and without branches all is exact.
* Clearing a merged port leaves its residential unit in the database
  (`views.py:5168`); the client says it handles merged ports and shows the unit
  gone until the next fetch (`FiberSpliceManager.svelte.ts:1465`).
* A failing sync marks the row FAILED twice, the second time whoever owns it by
  then (`views.py:2974`); a third POST runs beside the second. `models.py:2242`
  says only one sync runs per key. Hence the hypotheses of `AtMostOneSync`.
* A node placed by a user after the sync has read it is moved by the sync's
  later batch (`views.py:3065`; the docstring at 2991 says such nodes are
  preserved), and `nodes_processed` is set after each batch and not saved
  (`models.py:2299`).
* "Rollback: restore old name" (`models.py:3443`) may leave the new name, when
  the folder of the new name exists already.
* The cleanup of an orphaned row (`admin.py:2013`) removes the file of a live
  feature that has the deleted one's name.
* Migration 0061 drops the trigger that recomputed lengths when a trench
  changes, because this "is now handled in Python via Django signals"; the
  receivers listen to links only, so moving a conduit to another trench, or
  redrawing a trench, leaves every cable's length as it was.
* A PATCH of a cable or a move of a structure that races with a DELETE inserts
  the row again; a PATCH of a cable writes back the length it read.
* `length` and `length_total` of a cable are derived, and writable by every
  client (`serializers.py:1386`); a PATCH of an end node, which the page sends
  when a cable is connected elsewhere (`+page.server.ts:2106`), recomputes no
  length, although the route runs between the end nodes.
* The receivers of `signals.py` keep the cache "in sync" in one worker of four;
  the others follow when their entries expire. A change of memberships from
  the group's side clears nothing.
* A trigger's exception, an IntegrityError or a ProtectedError during a DELETE
  is caught nowhere and answered with 500. Deleting an attribute row takes the
  trenches that use it along (CASCADE), while conduits, nodes, cables,
  addresses and areas refuse (DO_NOTHING). Emptied keys (SET_NULL) leave no
  history record, and a row that was moved away between collection and
  transaction is deleted all the same.
* A user whose name is in the history cannot be deleted in the database
  directly: `history_user` is constrained and has no ON DELETE clause. Django
  deletes the user and empties the column, so who made a change is then unknown.

Described, and not judged by a property: `bulk_upsert` ignores merge groups, so
a fiber may be stored under a shared one and appear when the port is unmerged;
cascades may leave a group of one; `merge_ports` by the API on merged ports can
leave rows of a group with different shared fibers (which is why
`GroupsShareOneFiber` has the hypothesis `PortTable`).

## 6. What is left out

Of the modelled parts: two splice requests interleaved at their statements;
the generic create and PATCH of splices, which no client uses; deletion of a
single fiber; other keys of the sync over the same nodes; the geometry of the
coordinates; two file requests at once; residential units' folders (nested
below their address), areas (renamed without a handler), names that sanitizing
changes, and the substring replacement of paths; the geometry of traces and the
names and colours in their answers; the search for a cable's route; cables
created while others are linked, by POST or in the admin form, with any length
the form gives; nodes that move or change their address, and trenches redrawn,
all of which outdate a length as `Rewire` does; containers,
dividers, clip numbers and changes of `total_slots`; values of rows that are no
keys in `Deletions`, and history records of creations and updates, which hold a
user back just as those of deletions do.

Of the others: routing is a shortest path over trench geometry, whose difficulty
is numeric and in spatial SQL; imports, exports, reports and proxies are input
and output; tokens are a library's; microducts and fibers are generated in one
loop at creation; pipeline records and valuations are CRUD and a sum, with one
generated number (`views.py:8019`) that two requests may both get.

## 7. Plan

Done: `FiberSplices`, `CanvasSync` with `SyncLease`, `FeatureFolders`,
`FiberTrace` with `SignalFlow` and `TraceRequests`, `CableLinks`,
`NodeStructures`, `PermissionCache`, `Deletions` over `Models` and `Migrations`.

Next, in this order:

1. Abstract specifications beside `SyncLease`, and the refinements proved: a
   permission cache as a bounded-age register, a page as a replica of its rows.
2. `FiberSpliceRaces`: two requests of `FiberSplices` split at their statements,
   with full-row saves of stale copies.
3. The container tree with two moves at once, beside `NodeStructures`.
4. `OptimisticSplices`: the client's list of splices, where one snapshot serves
   several requests.
5. `FeatureFolders` with two jobs and with structured paths.

## 8. Running it

    tlc -workers 2 -config FiberSplices_groups.cfg MCFiberSplices
    tlapm FiberSplices_proofs.tla

`PROJECT.json` names the module and configuration of every run, maps every
definition to the lines it models, and names for every property a mutation of
the code's model that breaks it.
