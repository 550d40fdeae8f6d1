---------------------------- MODULE FiberSplices ----------------------------
(***************************************************************************)
(* The fiber_splice table and the requests that change it, each request    *)
(* one step.  A splice row exists per (node structure, port number).  For  *)
(* each side of the port, "a" (in) and "b" (out), it holds an individual   *)
(* fiber, a residential unit, the merge group the port belongs to and the  *)
(* fiber that group shares.  The columns are the variables; a column of an *)
(* absent row is None.                                                     *)
(***************************************************************************)
EXTENDS Naturals, FiniteSets, Sequences

CONSTANTS
    Structures,     \* node structures (component placements)
    Ports,          \* port numbers
    Cables, Fibers, \* cables and their fibers
    CableOf,        \* the cable a fiber belongs to
    Units,          \* residential units
    Groups,         \* merge group identifiers (fresh UUIDs)
    None,           \* SQL NULL
    PortTable,      \* TRUE: requests are those the port table of the UI offers
    MaxDrop         \* length of the longest fiber list dropped on a group

ASSUME PortsAssumption == Ports \subseteq Nat
ASSUME NoneAssumption == None \notin Fibers \cup Units \cup Groups
ASSUME CableOfAssumption == CableOf \in [Fibers -> Cables]
ASSUME PortTableAssumption == PortTable \in BOOLEAN
ASSUME MaxDropAssumption == MaxDrop \in Nat

VARIABLES
    present,        \* the slots that have a row
    fiber,          \* fiber_a, fiber_b (cable_a, cable_b go with them)
    mergeGroup,     \* merge_group_a, merge_group_b
    sharedFiber,    \* shared_fiber_a, shared_fiber_b (with their cables)
    unit,           \* residential_unit_a, residential_unit_b
    structures, cables, units   \* the objects that still exist

vars == <<present, fiber, mergeGroup, sharedFiber, unit,
          structures, cables, units>>

Sides == {"a", "b"}
Slots == Structures \X Ports
Column(values) == [Sides -> [Slots -> values \cup {None}]]

Live(f) == CableOf[f] \in cables

(* The rows of merge group g on side s. *)
Members(s, g) == {k \in Slots : mergeGroup[s][k] = g}

(* An in-use group is found on side a first, then on side b. *)
GroupSide(g) == IF Members("a", g) # {} THEN "a" ELSE "b"

(* Rows of one structure are ordered by port number. *)
First(K) == CHOOSE k \in K : \A l \in K : k[2] <= l[2]
Rank(k, K) == Cardinality({l \in K : l[2] <= k[2]})

(* column with value v on side s in all the slots of K *)
Put(column, s, K, v) ==
    [column EXCEPT ![s] = [k \in Slots |-> IF k \in K THEN v ELSE @[k]]]

(* column without the rows of K: both sides are gone *)
Erase(column, K) ==
    [s \in Sides |-> [k \in Slots |-> IF k \in K THEN None ELSE column[s][k]]]

(* The fiber the serializer presents for a side of a port. *)
Shown(s, k) ==
    IF mergeGroup[s][k] # None /\ sharedFiber[s][k] # None
    THEN sharedFiber[s][k]
    ELSE fiber[s][k]

TypeOK ==
    /\ present \subseteq Slots
    /\ fiber \in Column(Fibers)
    /\ mergeGroup \in Column(Groups)
    /\ sharedFiber \in Column(Fibers)
    /\ unit \in Column(Units)
    /\ structures \subseteq Structures
    /\ cables \subseteq Cables
    /\ units \subseteq Units

NoColumn == [s \in Sides |-> [k \in Slots |-> None]]

Init ==
    /\ present = {}
    /\ fiber = NoColumn /\ mergeGroup = NoColumn
    /\ sharedFiber = NoColumn /\ unit = NoColumn
    /\ structures = Structures /\ cables = Cables /\ units = Units

-----------------------------------------------------------------------------
(* upsert: the get_or_create comes before the fiber is known to exist, so a *)
(* fiber deleted meanwhile leaves an empty row behind.                      *)
UpsertOwn(s, k, f) ==
    /\ mergeGroup[s][k] = None
    /\ fiber' = IF Live(f) THEN [fiber EXCEPT ![s][k] = f] ELSE fiber
    /\ UNCHANGED sharedFiber

UpsertShared_OneRow(s, k, f) ==
    /\ mergeGroup[s][k] # None
    /\ sharedFiber' = IF Live(f) THEN Put(sharedFiber, s, {k}, f) ELSE sharedFiber
    /\ UNCHANGED fiber

UpsertShared(s, k, f) ==
    /\ mergeGroup[s][k] # None
    /\ sharedFiber' = IF Live(f)
                      THEN Put(sharedFiber, s, Members(s, mergeGroup[s][k]), f)
                      ELSE sharedFiber
    /\ UNCHANGED fiber

UpsertFiber(s, k, f) ==
    /\ k[1] \in structures
    /\ present' = present \cup {k}
    /\ UpsertOwn(s, k, f) \/ UpsertShared(s, k, f)
    /\ UNCHANGED <<mergeGroup, unit, structures, cables, units>>

UpsertUnit_WrongColumn(s, k, u) ==
    /\ k[1] \in structures
    /\ u \in units
    /\ present' = present \cup {k}
    /\ fiber' = [fiber EXCEPT ![s][k] = u]
    /\ UNCHANGED <<mergeGroup, sharedFiber, unit, structures, cables, units>>

UpsertUnit(s, k, u) ==
    /\ k[1] \in structures
    /\ u \in units
    /\ present' = present \cup {k}
    /\ unit' = [unit EXCEPT ![s][k] = u]
    /\ UNCHANGED <<fiber, mergeGroup, sharedFiber, structures, cables, units>>

(* One item of a bulk_upsert.  The items of a request are not in one        *)
(* transaction, so a request is as many steps as it has items.  Unlike      *)
(* upsert it never looks at the merge group.                                *)
BulkUpsertFiber(s, k, f) ==
    /\ k[1] \in structures
    /\ PortTable => Shown(s, k) = None
    /\ present' = present \cup {k}
    /\ fiber' = IF Live(f) THEN [fiber EXCEPT ![s][k] = f] ELSE fiber
    /\ UNCHANGED <<mergeGroup, sharedFiber, unit, structures, cables, units>>

BulkUpsertUnit(s, k, u) ==
    /\ k[1] \in structures
    /\ present' = present \cup {k}
    /\ unit' = IF u \in units THEN [unit EXCEPT ![s][k] = u] ELSE unit
    /\ UNCHANGED <<fiber, mergeGroup, sharedFiber, structures, cables, units>>

-----------------------------------------------------------------------------
ClearShared(s, k) ==
    /\ mergeGroup[s][k] # None
    /\ sharedFiber' = Put(sharedFiber, s, Members(s, mergeGroup[s][k]), None)
    /\ UNCHANGED <<present, fiber, unit>>

(* EmptyAfterClear, but what the other side holds of its own is forgotten. *)
EmptyAfterClear_ThisSide(s, k) ==
    \A t \in Sides : sharedFiber[t][k] = None /\ mergeGroup[t][k] = None

(* Nothing is left on either side once side s is cleared. *)
EmptyAfterClear(s, k) ==
    /\ \A t \in Sides \ {s} : fiber[t][k] = None /\ unit[t][k] = None
    /\ \A t \in Sides : sharedFiber[t][k] = None /\ mergeGroup[t][k] = None

ClearOwn(s, k) ==
    /\ mergeGroup[s][k] = None
    /\ fiber' = [fiber EXCEPT ![s][k] = None]
    /\ unit' = [unit EXCEPT ![s][k] = None]
    /\ present' = IF EmptyAfterClear(s, k) THEN present \ {k} ELSE present
    /\ UNCHANGED sharedFiber

ClearPort(s, k) ==
    /\ k \in present
    /\ ClearShared(s, k) \/ ClearOwn(s, k)
    /\ UNCHANGED <<mergeGroup, structures, cables, units>>

-----------------------------------------------------------------------------
(* The individual fibers merge_ports meets; the first in the order of the   *)
(* request, which the client chooses, is kept as the shared one.            *)
FibersOn(s, K) == {fiber[s][k] : k \in K} \ {None}

(* The port table offers only ports that are not merged on the side, and    *)
(* asks for two; the API counts list entries, so [1, 1] passes as two.      *)
Mergeable(s, K) ==
    PortTable => /\ \A k \in K : mergeGroup[s][k] = None
                 /\ \E k, l \in K : k # l

(* uuid4: no row of either side carries the new group yet. *)
FreshGroup_OneSide(s, g) == Members(s, g) = {}
FreshGroup_Reused(s, g) == TRUE
FreshGroup(s, g) == \A t \in Sides : Members(t, g) = {}

MergePorts(s, K, g) ==
    /\ K # {}
    /\ \E t \in structures : K \subseteq {t} \X Ports
    /\ Mergeable(s, K)
    /\ FreshGroup(s, g)
    /\ present' = present \cup K
    /\ mergeGroup' = Put(mergeGroup, s, K, g)
    /\ IF FibersOn(s, K) = {}
       THEN UNCHANGED sharedFiber
       ELSE \E f \in FibersOn(s, K) : sharedFiber' = Put(sharedFiber, s, K, f)
    /\ fiber' = Put(fiber, s, K, None)
    /\ UNCHANGED <<unit, structures, cables, units>>

(* unmerge_ports takes the named rows out of a group G; a single row that   *)
(* would remain follows them.                                               *)
LastPort_Stays(G, named) == {}
LastPort(G, named) ==
    IF \E k \in G : G \ named = {k} THEN G \ named ELSE {}

(* The row that inherits the shared fiber of the group's first row as its   *)
(* individual fiber: the first one taken out.                               *)
Heir_Forgotten(named, shared) == {}
Heir(named, shared) ==
    IF named = {} \/ shared = None THEN {} ELSE {First(named)}

UnmergePorts(g, P) ==
    LET s == GroupSide(g)
        G == Members(s, g)
        named == {k \in G : k[2] \in P}
        last == LastPort(G, named)
        shared == sharedFiber[s][First(G)]
        heir == Heir(named, shared)
    IN  /\ G # {}
        /\ fiber' = [fiber EXCEPT ![s] = [k \in Slots |->
                        IF k \in heir THEN shared
                        ELSE IF k \in last /\ sharedFiber[s][k] # None
                             THEN sharedFiber[s][k] ELSE @[k]]]
        /\ mergeGroup' = Put(mergeGroup, s, named \cup last, None)
        /\ sharedFiber' = Put(sharedFiber, s, named \cup last, None)
        /\ UNCHANGED <<present, unit, structures, cables, units>>

(* Drop on the merged side: the first fiber becomes the shared one. *)
DropShared_SideA(g, drop) ==
    /\ Live(drop[1])
    /\ sharedFiber' = Put(sharedFiber, "a", Members(GroupSide(g), g), drop[1])
    /\ UNCHANGED fiber

DropShared(g, drop) ==
    /\ Live(drop[1])
    /\ sharedFiber' = Put(sharedFiber, GroupSide(g),
                          Members(GroupSide(g), g), drop[1])
    /\ UNCHANGED fiber

(* Drop on the other side: the rows take the fibers in port order.  Each    *)
(* row is saved on its own, up to the first fiber that no longer exists.    *)
DropSequential(s, g, drop) ==
    LET G == Members(GroupSide(g), g)
        Reached(k) == /\ Rank(k, G) \in DOMAIN drop
                      /\ \A i \in 1..Rank(k, G) : Live(drop[i])
    IN  /\ ~PortTable
        /\ fiber' = [fiber EXCEPT ![s] = [k \in Slots |->
                        IF k \in G /\ Reached(k) THEN drop[Rank(k, G)] ELSE @[k]]]
        /\ UNCHANGED sharedFiber

UpsertMerged(s, g, drop) ==
    /\ Members(GroupSide(g), g) # {}
    /\ \/ s = GroupSide(g) /\ DropShared(g, drop)
       \/ s # GroupSide(g) /\ DropSequential(s, g, drop)
    /\ UNCHANGED <<present, mergeGroup, unit, structures, cables, units>>

-----------------------------------------------------------------------------
(* Rows K leave the table. *)
DropRows(K) ==
    /\ present' = present \ K
    /\ fiber' = Erase(fiber, K)
    /\ mergeGroup' = Erase(mergeGroup, K)
    /\ sharedFiber' = Erase(sharedFiber, K)
    /\ unit' = Erase(unit, K)

(* DELETE of one row.  The UI asks it for the rows a cable is spliced in.   *)
DestroySplice(k) ==
    /\ k \in present
    /\ PortTable => \E s \in Sides : fiber[s][k] # None
    /\ DropRows({k})
    /\ UNCHANGED <<structures, cables, units>>

(* The rows that refer to a fiber of cable c, individually or shared. *)
RowsOf_Individual(c) ==
    {k \in Slots : \E s \in Sides :
        fiber[s][k] # None /\ CableOf[fiber[s][k]] = c}

RowsOf(c) ==
    {k \in Slots : \E s \in Sides :
        \E f \in {fiber[s][k], sharedFiber[s][k]} \ {None} : CableOf[f] = c}

DeleteCable(c) ==
    /\ c \in cables
    /\ cables' = cables \ {c}
    /\ DropRows(RowsOf(c))
    /\ UNCHANGED <<structures, units>>

DeleteStructure(t) ==
    /\ t \in structures
    /\ structures' = structures \ {t}
    /\ DropRows({t} \X Ports)
    /\ UNCHANGED <<cables, units>>

(* ResidentialUnit: on_delete=SET_NULL on both sides. *)
DeleteUnit(u) ==
    /\ u \in units
    /\ units' = units \ {u}
    /\ unit' = [s \in Sides |-> [k \in Slots |->
                   IF unit[s][k] = u THEN None ELSE unit[s][k]]]
    /\ UNCHANGED <<present, fiber, mergeGroup, sharedFiber, structures, cables>>

Drops == UNION {[1..n -> Fibers] : n \in 1..MaxDrop}

Next ==
    \/ \E s \in Sides, k \in Slots, f \in Fibers :
           UpsertFiber(s, k, f) \/ BulkUpsertFiber(s, k, f)
    \/ \E s \in Sides, k \in Slots, u \in Units :
           UpsertUnit(s, k, u) \/ BulkUpsertUnit(s, k, u)
    \/ \E s \in Sides, k \in Slots : ClearPort(s, k)
    \/ \E s \in Sides, K \in SUBSET Slots, g \in Groups : MergePorts(s, K, g)
    \/ \E g \in Groups, P \in SUBSET Ports : UnmergePorts(g, P)
    \/ \E s \in Sides, g \in Groups, drop \in Drops : UpsertMerged(s, g, drop)
    \/ \E k \in Slots : DestroySplice(k)
    \/ \E c \in Cables : DeleteCable(c)
    \/ \E t \in Structures : DeleteStructure(t)
    \/ \E u \in Units : DeleteUnit(u)

Spec == Init /\ [][Next]_vars

-----------------------------------------------------------------------------
(* A row keeps a shared fiber only while it is in a merge group on that     *)
(* side: every path out of a group (unmerge_ports, its last-port rule)      *)
(* clears shared_fiber_x, and a new group may inherit it but never leave    *)
(* it behind.  A leftover would be resurrected by the next merge.           *)
SharedOnlyWhenMerged ==
    \A s \in Sides, k \in Slots :
        sharedFiber[s][k] # None => mergeGroup[s][k] # None

(* A merge group lives on one side of one structure.  unmerge_ports and     *)
(* upsert_merged look a group up on side a and, only if absent, on side b,  *)
(* and every UPDATE filters on the group alone, never on the structure.     *)
GroupsAreLocal ==
    \A s, t \in Sides, k, l \in Slots :
        (mergeGroup[s][k] # None /\ mergeGroup[s][k] = mergeGroup[t][l])
            => s = t /\ k[1] = l[1]

(* All ports of a merge group share one fiber (help text of shared_fiber_a: *)
(* "one fiber for all ports in group").  unmerge_ports relies on it: it     *)
(* takes the fiber to keep from the first row of the group only.            *)
UniformGroups ==
    \A s \in Sides, k, l \in Slots :
        (mergeGroup[s][k] # None /\ mergeGroup[s][k] = mergeGroup[s][l])
            => sharedFiber[s][k] = sharedFiber[s][l]

(* No row refers to a deleted cable's fiber or a deleted unit, and no row   *)
(* of a deleted structure is left: the denormalised cable columns carry     *)
(* the cascade for the shared fiber as well as for the individual one.      *)
NoDanglingReference ==
    /\ \A s \in Sides, k \in Slots :
          /\ fiber[s][k] # None => Live(fiber[s][k])
          /\ sharedFiber[s][k] # None => Live(sharedFiber[s][k])
          /\ unit[s][k] # None => unit[s][k] \in units
    /\ \A k \in present : k[1] \in structures

(* An absent row carries nothing. *)
AbsentIsBlank ==
    \A s \in Sides, k \in Slots \ present :
        /\ fiber[s][k] = None /\ mergeGroup[s][k] = None
        /\ sharedFiber[s][k] = None /\ unit[s][k] = None

-----------------------------------------------------------------------------
(* The requests sent for side s.  unmerge_ports names a group, and is for    *)
(* the side or sides that have it.                                          *)
SentFor(s) ==
    \/ \E k \in Slots, f \in Fibers :
           UpsertFiber(s, k, f) \/ BulkUpsertFiber(s, k, f)
    \/ \E k \in Slots, u \in Units : UpsertUnit(s, k, u) \/ BulkUpsertUnit(s, k, u)
    \/ \E k \in Slots : ClearPort(s, k)
    \/ \E K \in SUBSET Slots, g \in Groups : MergePorts(s, K, g)
    \/ \E g \in Groups, P \in SUBSET Ports :
           Members(s, g) # {} /\ UnmergePorts(g, P)
    \/ \E g \in Groups, drop \in Drops : UpsertMerged(s, g, drop)

(* What the table says of one side of a port; without a row, nothing. *)
Blank == <<None, None, None, None>>
Says(s, k) ==
    IF k \in present
    THEN <<fiber[s][k], mergeGroup[s][k], sharedFiber[s][k], unit[s][k]>>
    ELSE Blank

Changes(t) == \E k \in Slots : Says(t, k)' # Says(t, k)

(* "Each side has its own independent merge group": no request changes      *)
(* anything on the side it was not sent for, of any port: neither the       *)
(* fiber, the group and its shared fiber, nor the unit, also when the port  *)
(* is merged on both sides, when the request creates the row, and when it   *)
(* deletes the row because nothing seems left.                              *)
SidesIndependent ==
    [][\A s, t \in Sides : s # t /\ Changes(t) => ~SentFor(s)]_vars

(* What a row says of the fibers of one side. *)
SideOf(s, k) == <<fiber[s][k], mergeGroup[s][k], sharedFiber[s][k]>>

(* A request changes rows of one structure only, although every UPDATE of a *)
(* merge group filters on the group's id and not on the structure.  Only    *)
(* the deletion of a cable or of a unit reaches several structures.         *)
StaysInStructure ==
    [][(cables' = cables /\ units' = units) =>
          \A k, l \in Slots :
              (/\ \E s \in Sides : SideOf(s, k)' # SideOf(s, k)
               /\ \E s \in Sides : SideOf(s, l)' # SideOf(s, l))
                  => k[1] = l[1]]_vars

(* Taking ports out of a group loses no fiber: when a row leaves its group, *)
(* what the group's rows showed on that side before is still shown by one   *)
(* of them.                                                                 *)
LeftGroup(s, k) ==
    k \in present' /\ mergeGroup[s][k] # None /\ mergeGroup'[s][k] = None

UnmergeKeepsFiber ==
    [][\A s \in Sides, k \in Slots : LeftGroup(s, k) =>
          \A l \in Members(s, mergeGroup[s][k]) :
              Shown(s, l) # None =>
                  \E m \in Members(s, mergeGroup[s][k]) :
                      Shown(s, m)' = Shown(s, l)]_vars

(* unmerge_ports never leaves a group of one behind: when a row leaves a    *)
(* group but keeps existing, the group is empty or has two ports.           *)
UnmergeLeavesNoLoneMember ==
    [][\A s \in Sides, k, l \in Slots : LeftGroup(s, k) =>
          {m \in Slots : mergeGroup'[s][m] = mergeGroup[s][k]} # {l}]_vars
=============================================================================
