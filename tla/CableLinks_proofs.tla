------------------------- MODULE CableLinks_proofs -------------------------
(***************************************************************************)
(* Proofs about CableLinks, for any number of cables, ducts and requests:  *)
(* its type, what can make a cable's stored length or its total wrong, and *)
(* that an undisturbed automatic linking settles both ends of its cable.   *)
(***************************************************************************)
EXTENDS CableLinks, FiniteSetTheorems, TLAPS

(* The summed length of a set of trenches is a number. *)
LEMMA MetresCounted ==
    ASSUME NEW S PROVE Cardinality(Metres(S)) \in Nat
<1>1. IsFiniteSet(1 .. MaxLength)
    BY ConstantsAssumption, FS_Interval
<1>2. IsFiniteSet(Trenches \X (1 .. MaxLength))
    BY <1>1, ConstantsAssumption, FS_Product
<1>3. IsFiniteSet(Metres(S))
    BY <1>2, FS_Subset DEF Metres
<1> QED BY <1>3, FS_CardinalityType

(* A computed length is a number. *)
LEMMA CalcLengthType ==
    ASSUME NEW c \in Cables, NEW x \in EndNodes, NEW L, NEW W
    PROVE  CalcLength(c, x, L, W) \in Nat
<1>1. TrenchesOf(c, L, W) \in SUBSET Trenches
    BY DEF TrenchesOf
<1>2. Routed[x][TrenchesOf(c, L, W)] \in Nat
    BY <1>1, ConstantsAssumption
<1> QED BY <1>2, MetresCounted DEF CalcLength

(* The length of a cable depends on its own links only. *)
LEMMA OwnLinksOnly ==
    ASSUME NEW c \in Cables, NEW x, NEW L, NEW K, NEW W,
           \A d \in Ducts : <<d, c>> \in L <=> <<d, c>> \in K
    PROVE  CalcLength(c, x, L, W) = CalcLength(c, x, K, W)
<1>1. TrenchesOf(c, L, W) = TrenchesOf(c, K, W)
    BY DEF TrenchesOf
<1> QED BY <1>1 DEF CalcLength

(* A cable without links has length 0. *)
LEMMA NoLinksNoLength ==
    ASSUME NEW c \in Cables, NEW x \in EndNodes, NEW L, NEW W, \A d \in Ducts : <<d, c>> \notin L
    PROVE  CalcLength(c, x, L, W) = 0
<1>1. TrenchesOf(c, L, W) = {}
    BY DEF TrenchesOf
<1>2. Routed[x][{}] = 0
    BY ConstantsAssumption
<1>3. Metres({}) = {}
    BY DEF Metres
<1>4. Cardinality(Metres({})) = 0
    BY <1>3, FS_EmptySet
<1> QED BY <1>1, <1>2, <1>4 DEF CalcLength

(* Recomputing writes the length, and the total with the reserves read. *)
LEMMA RecomputedRight ==
    ASSUME TypeOK, NEW c \in Cables, NEW L
    PROVE  /\ Recomputed(c, L) \in Row
           /\ Recomputed(c, L).length = CalcLength(c, row[c].ends, L, laid)
           /\ Recomputed(c, L).total = Recomputed(c, L).length + row[c].reserve
           /\ Recomputed(c, L).length \in Nat
<1> DEFINE n == CalcLength(c, row[c].ends, L, laid)
<1>1. row[c] \in Row
    BY DEF TypeOK
<1>2. n \in Nat
    BY <1>1, CalcLengthType DEF Row
<1>3. Recomputed(c, L) = [row[c] EXCEPT !.length = n, !.total = n + row[c].reserve]
    BY DEF Recomputed
<1> HIDE DEF n
<1>4. /\ Recomputed(c, L).length = n /\ Recomputed(c, L).total = n + row[c].reserve
      /\ Recomputed(c, L).reserve = row[c].reserve /\ Recomputed(c, L).ends = row[c].ends
    BY <1>1, <1>3 DEF Row
<1>5. row[c].reserve \in Nat /\ n + row[c].reserve \in Nat
    BY <1>1, <1>2 DEF Row
<1>6. Recomputed(c, L) \in Row
    BY <1>1, <1>2, <1>3, <1>5 DEF Row
<1> QED BY <1>2, <1>4, <1>6 DEF n

(* A PATCH, whatever it sends, saves a total that belongs to its row. *)
LEMMA PatchedRight ==
    ASSUME TypeOK, NEW c \in Cables, NEW p \in Patches
    PROVE  Patched(c, p) \in Row /\ Totalled(Patched(c, p))
<1> DEFINE n == Sent(p.length, row[c].length)
           k == Sent(p.reserve, row[c].reserve)
           t == IF n = None THEN Sent(p.total, row[c].total) ELSE n + k
           x == [e \in Ends |-> Sent(p.ends[e], row[c].ends[e])]
<1>1. row[c] \in Row /\ p \in Patch
    BY ConstantsAssumption DEF TypeOK
<1>2. n \in Nat \cup {None} /\ k \in Nat
    BY <1>1 DEF Sent, Row, Patch
<1>3. t \in Nat \cup {None}
    <2>1. Sent(p.total, row[c].total) \in Nat \cup {None}
        BY <1>1 DEF Sent, Row, Patch
    <2> HIDE DEF n, k
    <2> QED BY <1>2, <2>1
<1>4. x \in EndNodes
    <2>1. row[c].ends \in EndNodes /\ p.ends \in EndNodes
        BY <1>1 DEF Row, Patch
    <2> QED BY <2>1 DEF Sent, EndNodes
<1>5. n # None => t = n + k
    OBVIOUS
<1>6. Patched(c, p) = [length |-> n, reserve |-> k, total |-> t, ends |-> x]
    BY DEF Patched
<1> HIDE DEF n, k, t, x
<1> QED BY <1>2, <1>3, <1>4, <1>5, <1>6 DEF Row, Totalled

(* A saved row is a row. *)
LEMMA SavedType ==
    ASSUME TypeOK, NEW tx \in Tx, NEW c \in Cables
    PROVE  Saved(tx, c) \in Row
<1>1. row[c] \in Row /\ tx.rows[c] \in Row
    BY DEF TypeOK, Tx
<1> QED BY <1>1 DEF Saved, Row
-----------------------------------------------------------------------------
(* The transactions that the requests begin are transactions. *)
LEMMA RecalculationType ==
    ASSUME TypeOK, NEW T \in SUBSET Cables, NEW add \in SUBSET Pairs,
           NEW drop \in SUBSET Pairs, NEW gone \in SUBSET Ducts
    PROVE  Recalculation(T, add, drop, gone) \in Tx
<1>1. \A c \in Cables : Recomputed(c, (links \cup add) \ drop) \in Row /\ row[c] \in Row
    BY RecomputedRight DEF TypeOK
<1> QED BY <1>1 DEF Recalculation, Tx

(* A request that starts is a record, and changes nothing else. *)
LEMMA StartType ==
    ASSUME TypeOK, NEW r \in Requests, NEW c \in Cables, NEW todo \in SUBSET (Ducts \cup Ends),
           NEW auto \in BOOLEAN, NEW tx \in Tx \cup {NoTx}, Start(r, c, todo, auto, tx)
    PROVE  TypeOK'
<1>1. row[c].ends \in EndNodes
    BY DEF TypeOK, Row
<1>3. [state |-> "open", auto |-> auto, cable |-> c, ends |-> row[c].ends, todo |-> todo,
       disturbed |-> FALSE, tx |-> tx] \in Request
    BY <1>1 DEF Request
<1>2. req' \in [Requests -> Request \cup {Idle}] /\ asked' \in Nat
    BY <1>3 DEF Start, TypeOK
<1> QED BY <1>2 DEF Start, TypeOK

(* An open request is a record with a transaction or none. *)
LEMMA OpenType ==
    ASSUME TypeOK, NEW r \in Requests, Open(r)
    PROVE  req[r] \in Request /\ (InTx(r) => req[r].tx \in Tx)
BY DEF TypeOK, Open, InTx, Idle, Request

(* What a commit does to the other requests leaves them records. *)
LEMMA RacedType ==
    ASSUME TypeOK, NEW q \in Requests, NEW M \in SUBSET Cables, NEW P \in SUBSET Cables
    PROVE  Raced(q, M, P) \in Request \cup {Idle}
<1>1. CASE ~Open(q)
    BY <1>1 DEF Raced, TypeOK
<1>2. CASE Open(q)
    <2>1. req[q] \in Request /\ (req[q].tx # NoTx => req[q].tx \in Tx)
        BY <1>2, OpenType DEF InTx
    <2> DEFINE x == RacedTx(req[q].tx, M, P)
    <2>2. ASSUME req[q].tx # NoTx PROVE x \in Tx
        BY <2>1, <2>2 DEF RacedTx, Tx
    <2>3. x \in Tx \cup {NoTx}
        BY <2>2 DEF RacedTx
    <2>4. Raced(q, M, P) = [req[q] EXCEPT !.disturbed = TRUE, !.tx = x]
        BY <1>2 DEF Raced
    <2> HIDE DEF x
    <2> QED BY <2>1, <2>3, <2>4 DEF Request
<1> QED BY <1>1, <1>2
-----------------------------------------------------------------------------
(* Every step keeps the types. *)
LEMMA TypeStep == TypeOK /\ [Next]_vars => TypeOK'
<1> SUFFICES ASSUME TypeOK, [Next]_vars PROVE TypeOK'
    OBVIOUS
<1>0. links \subseteq Pairs /\ cables \subseteq Cables /\ ducts \subseteq Ducts
    BY DEF TypeOK, Pairs
<1>1. ASSUME NEW r \in Requests, NEW c \in Cables, NEW D \in SUBSET Ducts, PostLinks(r, c, D)
      PROVE  TypeOK'
    BY <1>1, StartType DEF PostLinks
<1>2. ASSUME NEW r \in Requests, NEW c \in Cables, NEW D \in SUBSET Ducts, DeleteLinks(r, c, D)
      PROVE  TypeOK'
    <2> DEFINE drop == {p \in links : p[1] \in D /\ p[2] = c}
    <2>1. Recalculation({c}, {}, drop, {}) \in Tx
        BY <1>0, RecalculationType
    <2> QED BY <1>2, <2>1, StartType DEF DeleteLinks
<1>3. ASSUME NEW r \in Requests, NEW c \in Cables, NEW d \in Ducts, ChooseLink(r, c, d)
      PROVE  TypeOK'
    BY <1>3, StartType DEF ChooseLink
<1>4. ASSUME NEW r \in Requests, NEW c \in Cables, AutoLink(r, c) PROVE TypeOK'
    BY <1>4, StartType DEF AutoLink
<1>5. ASSUME NEW r \in Requests, NEW c \in Cables, Recalculate(r, c) PROVE TypeOK'
    <2>1. Recalculation({c}, {}, {}, {}) \in Tx
        BY RecalculationType
    <2> QED BY <1>5, <2>1, StartType DEF Recalculate
<1>6. ASSUME NEW r \in Requests, NEW c \in Cables, DeleteCable(r, c) PROVE TypeOK'
    <2> DEFINE tx == [kind |-> "delete", add |-> {}, drop |-> {p \in links : p[2] = c},
                      dropDucts |-> {}, dropCables |-> {c}, touch |-> {c}, raced |-> {},
                      patched |-> {}, rows |-> row]
    <2>1. tx \in Tx
        BY <1>0 DEF Tx, TypeOK
    <2>2. Start(r, c, {}, FALSE, tx)
        BY <1>6 DEF DeleteCable
    <2> HIDE DEF tx
    <2> QED BY <2>1, <2>2, StartType
<1>7. ASSUME NEW r \in Requests, NEW c \in Cables, NEW p \in Patches, PatchCable(r, c, p)
      PROVE  TypeOK'
    <2> DEFINE tx == [kind |-> "patch", add |-> {}, drop |-> {}, dropDucts |-> {},
                      dropCables |-> {}, touch |-> {c}, raced |-> {},
                      patched |-> {}, rows |-> [row EXCEPT ![c] = Patched(c, p)]]
    <2>1. tx \in Tx
        BY PatchedRight DEF Tx, TypeOK
    <2>2. Start(r, c, {}, FALSE, tx)
        BY <1>7 DEF PatchCable
    <2> HIDE DEF tx
    <2> QED BY <2>1, <2>2, StartType
<1>8. ASSUME NEW r \in Requests, NEW D \in SUBSET Ducts, DeleteDucts(r, D) PROVE TypeOK'
    <2> DEFINE drop == {p \in links : p[1] \in D}
               T == {p[2] : p \in drop}
    <2>1. T \in SUBSET Cables /\ drop \in SUBSET Pairs
        BY <1>0 DEF Pairs
    <2>2. Recalculation(T, {}, drop, D) \in Tx
        BY <2>1, RecalculationType
    <2>3. \E c \in Cables : Start(r, c, {}, FALSE, Recalculation(T, {}, drop, D))
        BY <1>8 DEF DeleteDucts
    <2> QED BY <2>2, <2>3, StartType
<1>9. ASSUME NEW r \in Requests, NEW e \in Ends, LinkEnd(r, e) PROVE TypeOK'
    <2>1. req[r] \in Request
        BY <1>9, OpenType DEF LinkEnd, Running
    <2>2. Candidates(req[r].ends[e]) \subseteq Ducts
        BY <1>0 DEF Candidates
    <2>3. req'[r] \in Request
        BY <1>9, <2>1, <2>2 DEF LinkEnd, Request, TypeOK
    <2> QED BY <1>9, <2>3 DEF LinkEnd, TypeOK
<1>10. ASSUME NEW r \in Requests, NEW d \in Ducts, LinkDuct(r, d) PROVE TypeOK'
    <2>1. req[r] \in Request
        BY <1>10, OpenType DEF LinkDuct, Running
    <2> DEFINE c == req[r].cable
    <2>2. Recalculation({c}, {<<d, c>>}, {}, {}) \in Tx
        BY <2>1, RecalculationType DEF Request, Pairs
    <2>3. req'[r] \in Request
        <3> HIDE DEF c
        <3> QED BY <1>10, <2>1, <2>2 DEF LinkDuct, Request, TypeOK, c
    <2> QED BY <1>10, <2>3 DEF LinkDuct, TypeOK
<1>11. ASSUME NEW r \in Requests, Commit(r) PROVE TypeOK'
    <2> DEFINE tx == req[r].tx
    <2>1. req[r] \in Request /\ tx \in Tx
        BY <1>11, OpenType DEF Commit, InTx
    <2>2. /\ tx.touch \in SUBSET Cables /\ tx.dropCables \in SUBSET Cables
          /\ \A c \in Cables : Saved(tx, c) \in Row
        BY <2>1, SavedType DEF Tx
    <2>3. links' \subseteq ducts' \X cables'
        <3> SUFFICES ASSUME NEW p \in links' PROVE p \in ducts' \X cables'
            OBVIOUS
        <3>1. Accepted(tx) /\ p \in (links \cup tx.add) \ tx.drop
            BY <1>11 DEF Commit
        <3>2. p \in Pairs /\ p[1] \in ducts /\ p[2] \in cables
            BY <2>1, <3>1 DEF Accepted, TypeOK, Tx, Pairs
        <3>3. p[1] \in ducts' /\ p[2] \in cables'
            BY <1>11, <3>1, <3>2 DEF Commit, Accepted
        <3> QED BY <3>2, <3>3 DEF Pairs
    <2>4. row' \in [Cables -> Row]
        BY <1>11, <2>2 DEF Commit, TypeOK
    <2>5. [req[r] EXCEPT !.tx = NoTx] \in Request
        BY <2>1 DEF Request
    <2>6. \A q \in Requests : Raced(q, Moved(tx), Resized(tx)) \in Request \cup {Idle}
        BY RacedType DEF Moved, Resized
    <2>7. req' \in [Requests -> Request \cup {Idle}]
        BY <1>11, <2>5, <2>6 DEF Commit
    <2>8. /\ cables' \subseteq Cables /\ ducts' \subseteq Ducts
          /\ outdated' \subseteq Cables /\ mixed' \subseteq Cables
        BY <1>11, <2>2 DEF Commit, TypeOK, Outdated, Mixed
    <2> QED BY <1>11, <2>3, <2>4, <2>7, <2>8 DEF Commit, TypeOK
<1>12. ASSUME NEW r \in Requests, Refuse(r) PROVE TypeOK'
    <2>1. req[r] \in Request
        BY <1>12, OpenType DEF Refuse, InTx
    <2>2. req'[r] \in Request
        BY <1>12, <2>1 DEF Refuse, Request, TypeOK
    <2> QED BY <1>12, <2>2 DEF Refuse, TypeOK
<1>13. ASSUME NEW r \in Requests, Answer(r) PROVE TypeOK'
    BY <1>13 DEF Answer, TypeOK
<1>14. ASSUME NEW d \in Ducts, NEW a \in Addresses \cup {None}, Reassign(d, a) PROVE TypeOK'
    <2>1. req' \in [Requests -> Request \cup {Idle}]
        BY <1>14, RacedType DEF Reassign
    <2> QED BY <1>14, <2>1 DEF Reassign, TypeOK
<1>15. ASSUME NEW t \in Trenches, NEW k \in Conduits, Rewire(t, k) PROVE TypeOK'
    <2>1. req' \in [Requests -> Request \cup {Idle}]
        BY <1>15, RacedType DEF Rewire
    <2> QED BY <1>15, <2>1 DEF Rewire, TypeOK
<1>16. CASE UNCHANGED vars
    BY <1>16 DEF vars, TypeOK
<1> QED BY <1>1, <1>2, <1>3, <1>4, <1>5, <1>6, <1>7, <1>8, <1>9, <1>10, <1>11, <1>12, <1>13,
           <1>14, <1>15, <1>16 DEF Next, Step, Change

(* A behaviour begins with the types. *)
LEMMA TypeInit == Init => TypeOK
<1> SUFFICES ASSUME Init PROVE TypeOK
    OBVIOUS
<1>1. \A c \in Cables : EndsAtFirst[c] \in EndNodes /\ CalcLength(c, EndsAtFirst[c], links, laid) \in Nat
    BY CalcLengthType, ConstantsAssumption
<1>2. row \in [Cables -> Row]
    BY <1>1 DEF Init, Row
<1>3. links \subseteq ducts \X cables /\ laid \subseteq Trenches \X Conduits
    BY ConstantsAssumption DEF Init, Pairs
<1> QED BY <1>2, <1>3 DEF Init, TypeOK

(* Type correctness; among the rest, a link's row always refers to a duct  *)
(* and a cable that exist.                                                 *)
THEOREM TypeCorrect == Spec => []TypeOK
BY TypeInit, TypeStep, PTL DEF Spec
-----------------------------------------------------------------------------
(* The links L as they are once transaction tx has committed. *)
LinksAfter(tx, L) == (L \cup tx.add) \ tx.drop

(* What an open transaction is about to write, among the links L, rows R   *)
(* and laid conduits W: a PATCH a total that belongs to its length, a      *)
(* recomputation the length of every cable that no other request moved,    *)
(* and the total of every one whose reserves none changed.                 *)
TxRightIn(tx, L, R, W) ==
    /\ \A p \in tx.add \cup tx.drop : p[2] \in tx.touch
    /\ tx.kind = "patch" => tx.add = {} /\ tx.drop = {}
    /\ IF tx.kind = "delete" THEN tx.touch \subseteq tx.dropCables ELSE tx.dropCables = {}
    /\ tx.kind = "patch" => \A c \in tx.touch : Totalled(tx.rows[c])
    /\ tx.kind = "recalculate" => \A c \in tx.touch :
           /\ tx.rows[c].length \in Nat
           /\ c \notin tx.raced =>
                  tx.rows[c].length = CalcLength(c, R[c].ends, LinksAfter(tx, L), W)
           /\ c \notin tx.patched => tx.rows[c].total = tx.rows[c].length + R[c].reserve

TxRight(tx) == TxRightIn(tx, links, row, laid)

(* A cable that is gone counts as outdated: a PATCH that read it before    *)
(* inserts it again, with the length it had and without its links.         *)
LengthsInv ==
    /\ TypeOK
    /\ LengthRight
    /\ Cables \ cables \subseteq outdated
    /\ \A r \in Requests : InTx(r) => TxRight(req[r].tx)

(* The lengths are right when a behaviour begins. *)
LEMMA LengthsInit == Init => LengthsInv
<1> SUFFICES ASSUME Init PROVE LengthsInv
    OBVIOUS
<1>1. TypeOK
    BY TypeInit
<1>2. ASSUME NEW c \in Cables
      PROVE  Holds(row[c], CalcLength(c, row[c].ends, links, laid)) /\ Totalled(row[c])
    <2>0. EndsAtFirst[c] \in EndNodes
        BY ConstantsAssumption
    <2>1. CASE Linked(c) = {}
        <3>1. row[c] = [length |-> None, total |-> None, reserve |-> 0, ends |-> EndsAtFirst[c]]
            BY <2>1 DEF Init
        <3>2. CalcLength(c, EndsAtFirst[c], links, laid) = 0
            BY <2>0, <2>1, NoLinksNoLength DEF Linked
        <3> QED BY <3>1, <3>2 DEF Holds, Totalled
    <2>2. CASE Linked(c) # {}
        <3> DEFINE n == CalcLength(c, EndsAtFirst[c], links, laid)
        <3>1. row[c] = [length |-> n, total |-> n, reserve |-> 0, ends |-> EndsAtFirst[c]]
            BY <2>2 DEF Init
        <3>2. n \in Nat /\ None \notin Nat
            BY <2>0, CalcLengthType, ConstantsAssumption
        <3>3. row[c].ends = EndsAtFirst[c]
            BY <3>1
        <3>4. CalcLength(c, row[c].ends, links, laid) = n
            BY <3>3
        <3> HIDE DEF n
        <3> QED BY <3>1, <3>2, <3>4 DEF Holds, Totalled
    <2> QED BY <2>1, <2>2
<1>3. LengthRight
    BY <1>1, <1>2 DEF LengthRight, TypeOK
<1>4. \A r \in Requests : ~InTx(r)
    BY DEF Init, InTx, Open, Idle
<1>5. Cables \ cables \subseteq outdated
    BY DEF Init
<1> QED BY <1>1, <1>3, <1>4, <1>5 DEF LengthsInv

(* A step of one request that touches no row keeps the invariant if the    *)
(* transaction it leaves open is about to write right rows.                *)
LEMMA QuietStep ==
    ASSUME LengthsInv, TypeOK', NEW r \in Requests, NEW tx,
           UNCHANGED <<cables, links, laid, row, outdated, mixed>>,
           \A q \in Requests \ {r} : req'[q] = req[q],
           req'[r] = Idle \/ req'[r].tx = tx, tx = NoTx \/ TxRight(tx)
    PROVE  LengthsInv'
<1>1. LengthRight' /\ (Cables \ cables \subseteq outdated)'
    BY DEF LengthsInv, LengthRight
<1>2. ASSUME NEW q \in Requests, InTx(q)' PROVE TxRight(req[q].tx)'
    <2>1. req'[q].tx # NoTx /\ req'[q].state = "open"
        BY <1>2 DEF InTx, Open
    <2>2. CASE q = r
        <3>1. req'[q].tx = tx
            BY <2>1, <2>2 DEF Idle
        <3> QED BY <2>1, <3>1 DEF TxRight
    <2>3. CASE q # r
        <3>1. req'[q] = req[q]
            BY <2>3
        <3>2. TxRight(req[q].tx)
            BY <2>1, <3>1 DEF InTx, Open, LengthsInv
        <3> QED BY <3>1, <3>2 DEF TxRight
    <2> QED BY <2>2, <2>3
<1> QED BY <1>1, <1>2 DEF LengthsInv

(* Starting a request whose transaction is right keeps the lengths right. *)
LEMMA StartKeepsLengths ==
    ASSUME LengthsInv, TypeOK', NEW r \in Requests, NEW c, NEW todo, NEW auto, NEW tx,
           Start(r, c, todo, auto, tx), tx = NoTx \/ TxRight(tx)
    PROVE  LengthsInv'
<1>1. req'[r].tx = tx /\ \A q \in Requests \ {r} : req'[q] = req[q]
    BY DEF Start, LengthsInv, TypeOK
<1> QED BY <1>1, QuietStep DEF Start

(* A transaction that recomputes the cables whose links it changes.        *)
LEMMA RecalculationRight ==
    ASSUME TypeOK, NEW T \in SUBSET cables, NEW add, NEW drop, NEW gone,
           \A p \in add \cup drop : p[2] \in T
    PROVE  TxRight(Recalculation(T, add, drop, gone))
<1> DEFINE tx == Recalculation(T, add, drop, gone)
           L == (links \cup add) \ drop
<1>1. /\ tx.add = add /\ tx.drop = drop /\ tx.touch = T /\ tx.dropCables = {}
      /\ tx.kind = "recalculate"
      /\ \A c \in Cables : c \in T => tx.rows[c] = Recomputed(c, L)
    BY DEF Recalculation
<1>2. T \subseteq Cables
    BY DEF TypeOK
<1>3. \A c \in T : /\ tx.rows[c].length = CalcLength(c, row[c].ends, L, laid)
                   /\ tx.rows[c].length \in Nat
                   /\ tx.rows[c].total = tx.rows[c].length + row[c].reserve
    BY <1>1, <1>2, RecomputedRight
<1>4. LinksAfter(tx, links) = L
    BY <1>1 DEF LinksAfter
<1> HIDE DEF tx, L
<1> QED BY <1>1, <1>3, <1>4 DEF TxRight, TxRightIn, tx

(* A transaction that a commit or a change overlapped: its columns but the *)
(* histories are as they were.                                             *)
LEMMA RacedTxKept ==
    ASSUME TypeOK, NEW q \in Requests, NEW M, NEW P, InTx(q)', req'[q] = Raced(q, M, P)
    PROVE  LET x == req'[q].tx
               tx == req[q].tx
           IN  /\ InTx(q) /\ tx \in Tx
               /\ x.kind = tx.kind /\ x.add = tx.add /\ x.drop = tx.drop
               /\ x.dropCables = tx.dropCables /\ x.touch = tx.touch /\ x.rows = tx.rows
               /\ x.raced = tx.raced \cup M /\ x.patched = tx.patched \cup P
<1> DEFINE tx == req[q].tx
           x == req'[q].tx
<1>0. Open(q)
    BY DEF InTx, Open, Raced
<1>1. req[q] \in Request /\ (InTx(q) => tx \in Tx)
    BY <1>0, OpenType
<1>2. x = RacedTx(tx, M, P)
    <2> DEFINE y == RacedTx(req[q].tx, M, P)
    <2>1. req'[q] = [req[q] EXCEPT !.disturbed = TRUE, !.tx = y]
        BY <1>0 DEF Raced
    <2> HIDE DEF y
    <2>2. req'[q].tx = y
        BY <1>1, <2>1 DEF Request
    <2> QED BY <2>2 DEF y
<1>3. InTx(q) /\ tx \in Tx
    BY <1>0, <1>1, <1>2 DEF RacedTx, InTx
<1>4. x = [tx EXCEPT !.raced = tx.raced \cup M, !.patched = tx.patched \cup P]
    BY <1>2, <1>3 DEF RacedTx, InTx
<1> HIDE DEF tx, x
<1> QED BY <1>3, <1>4 DEF Tx, tx, x

(* A raced transaction is right as before if its histories name every      *)
(* cable that the step moved or resized.                                   *)
LEMMA OthersStayRight ==
    ASSUME LengthsInv, NEW q \in Requests, InTx(q)',
           NEW M \in SUBSET Cables, NEW P \in SUBSET Cables, req'[q] = Raced(q, M, P),
           \A c \in Cables \ M : /\ laid' = laid /\ row'[c].ends = row[c].ends
                                 /\ \A d \in Ducts : <<d, c>> \in links' <=> <<d, c>> \in links,
           \A c \in Cables \ P : row'[c].reserve = row[c].reserve
    PROVE  TxRight(req[q].tx)'
<1> DEFINE x == req'[q].tx
           tx == req[q].tx
<1>1. TypeOK
    BY DEF LengthsInv
<1>2. /\ InTx(q) /\ tx \in Tx
      /\ x.kind = tx.kind /\ x.add = tx.add /\ x.drop = tx.drop
      /\ x.dropCables = tx.dropCables /\ x.touch = tx.touch /\ x.rows = tx.rows
      /\ x.raced = tx.raced \cup M /\ x.patched = tx.patched \cup P
    BY <1>1, RacedTxKept
<1>3. TxRightIn(tx, links, row, laid)
    BY <1>2 DEF LengthsInv, TxRight
<1>4. tx.touch \subseteq Cables
    BY <1>2 DEF Tx
<1> HIDE DEF x, tx
<1>5. ASSUME x.kind = "recalculate", NEW c \in x.touch
      PROVE  /\ x.rows[c].length \in Nat
             /\ c \notin x.raced =>
                    x.rows[c].length = CalcLength(c, row'[c].ends, LinksAfter(x, links'), laid')
             /\ c \notin x.patched => x.rows[c].total = x.rows[c].length + row'[c].reserve
    <2>1. /\ tx.rows[c].length \in Nat /\ c \in Cables
          /\ c \notin tx.raced =>
                 tx.rows[c].length = CalcLength(c, row[c].ends, LinksAfter(tx, links), laid)
          /\ c \notin tx.patched => tx.rows[c].total = tx.rows[c].length + row[c].reserve
        BY <1>2, <1>3, <1>4, <1>5 DEF TxRightIn
    <2>2. ASSUME c \notin x.raced
          PROVE  CalcLength(c, row'[c].ends, LinksAfter(x, links'), laid')
                   = CalcLength(c, row[c].ends, LinksAfter(tx, links), laid)
        <3>1. c \in Cables \ M
            BY <1>2, <2>1, <2>2
        <3>2. \A d \in Ducts :
                  <<d, c>> \in LinksAfter(x, links') <=> <<d, c>> \in LinksAfter(tx, links)
            BY <1>2, <3>1 DEF LinksAfter
        <3>3. laid' = laid /\ row'[c].ends = row[c].ends
            BY <3>1
        <3> QED BY <2>1, <3>2, <3>3, OwnLinksOnly
    <2>3. c \notin x.patched => row'[c].reserve = row[c].reserve
        BY <1>2, <2>1
    <2> QED BY <1>2, <2>1, <2>2, <2>3
<1>6. TxRightIn(x, links', row', laid')
    BY <1>2, <1>3, <1>5 DEF TxRightIn
<1> QED BY <1>6 DEF TxRight, x

(* What a commit saves of a cable: its total belongs to its length unless  *)
(* it is marked, and its length to its links.                              *)
LEMMA CommittedRow ==
    ASSUME LengthsInv, NEW r \in Requests, Commit(r), NEW c \in cables', c \in Cables
    PROVE  /\ c \notin mixed' => Totalled(row'[c])
           /\ c \notin outdated' => Holds(row'[c], CalcLength(c, row'[c].ends, links', laid'))
<1> DEFINE tx == req[r].tx
<1>1. TypeOK /\ tx \in Tx /\ TxRightIn(tx, links, row, laid) /\ Accepted(tx)
    BY OpenType DEF LengthsInv, Commit, InTx, TxRight
<1>2. /\ links' = LinksAfter(tx, links) /\ laid' = laid
      /\ cables' = (cables \cup tx.touch) \ tx.dropCables
      /\ row'[c] = Saved(tx, c) /\ outdated' = Outdated(tx) /\ mixed' = Mixed(tx)
    BY DEF Commit, LinksAfter
<1>3. /\ tx.kind \in {"recalculate", "patch", "delete"} /\ row[c] \in Row
      /\ None \notin Nat
    BY <1>1, ConstantsAssumption DEF Tx, TypeOK
<1>4. /\ c \in cables /\ c \notin mixed => Totalled(row[c])
      /\ c \in cables /\ c \notin outdated =>
             Holds(row[c], CalcLength(c, row[c].ends, links, laid))
      /\ c \notin cables => c \in outdated
    BY DEF LengthsInv, LengthRight
<1> HIDE DEF tx
<1>5. CASE c \notin tx.touch
    <2>1. c \in cables /\ row'[c] = row[c]
        BY <1>2, <1>5 DEF Saved
    <2>2. /\ c \notin mixed' => c \notin mixed
          /\ c \notin outdated' => c \notin outdated
        BY <1>2, <1>3, <1>5 DEF Mixed, Outdated
    <2>3. \A d \in Ducts : <<d, c>> \in links' <=> <<d, c>> \in links
        BY <1>1, <1>2, <1>5 DEF TxRightIn, LinksAfter
    <2>4. CalcLength(c, row[c].ends, links', laid) = CalcLength(c, row[c].ends, links, laid)
        BY <2>3, OwnLinksOnly
    <2> QED BY <1>2, <1>4, <2>1, <2>2, <2>4
<1>6. CASE c \in tx.touch /\ tx.kind = "patch"
    <2>1. row'[c] = tx.rows[c] /\ links' = links
        BY <1>1, <1>2, <1>6 DEF Saved, TxRightIn, LinksAfter
    <2>2. Totalled(tx.rows[c])
        BY <1>1, <1>6 DEF TxRightIn
    <2>3. c \notin outdated' => /\ c \notin outdated /\ tx.rows[c].length = row[c].length
                                /\ tx.rows[c].ends = row[c].ends
        BY <1>2, <1>6 DEF Outdated
    <2> QED BY <1>2, <1>4, <2>1, <2>2, <2>3 DEF Holds
<1>7. CASE c \in tx.touch /\ tx.kind = "recalculate"
    <2> DEFINE n == tx.rows[c].length
    <2>1. row'[c] = [row[c] EXCEPT !.length = n, !.total = tx.rows[c].total]
        BY <1>2, <1>7 DEF Saved
    <2>2. /\ row'[c].length = n /\ row'[c].total = tx.rows[c].total
          /\ row'[c].reserve = row[c].reserve /\ row'[c].ends = row[c].ends
        BY <1>3, <2>1 DEF Row
    <2>3. /\ n \in Nat
          /\ c \notin tx.raced => n = CalcLength(c, row[c].ends, links', laid)
          /\ c \notin tx.patched => tx.rows[c].total = n + row[c].reserve
        BY <1>1, <1>2, <1>7 DEF TxRightIn
    <2>4. /\ c \notin mixed' => c \notin tx.patched
          /\ c \notin outdated' => c \notin tx.raced
        BY <1>2, <1>7 DEF Mixed, Outdated
    <2> HIDE DEF n
    <2> QED BY <1>2, <1>3, <2>2, <2>3, <2>4 DEF Totalled, Holds
<1>8. CASE c \in tx.touch /\ tx.kind = "delete"
    BY <1>1, <1>2, <1>8 DEF TxRightIn
<1> QED BY <1>3, <1>5, <1>6, <1>7, <1>8

(* A commit leaves every cable it touches right, or marks it. *)
LEMMA CommitKeepsLengths ==
    ASSUME LengthsInv, TypeOK', NEW r \in Requests, Commit(r)
    PROVE  LengthsInv'
<1> DEFINE tx == req[r].tx
<1>1. TypeOK /\ tx \in Tx /\ TxRightIn(tx, links, row, laid) /\ Accepted(tx)
    BY OpenType DEF LengthsInv, Commit, InTx, TxRight
<1>2. LengthRight'
    <2>1. cables' \subseteq Cables
        BY DEF TypeOK
    <2> QED BY <2>1, CommittedRow DEF LengthRight
<1>3. (Cables \ cables \subseteq outdated)'
    <2> SUFFICES ASSUME NEW c \in Cables \ cables' PROVE c \in outdated'
        OBVIOUS
    <2>1. /\ cables' = (cables \cup tx.touch) \ tx.dropCables /\ outdated' = Outdated(tx)
          /\ tx.kind \in {"recalculate", "patch", "delete"}
        BY <1>1 DEF Commit, Tx
    <2>2. c \notin cables => c \in outdated
        BY DEF LengthsInv
    <2> HIDE DEF tx
    <2>3. CASE c \in tx.dropCables
        BY <1>1, <2>1, <2>3 DEF TxRightIn, Outdated
    <2>4. CASE c \notin tx.dropCables
        <3>1. c \in outdated /\ c \notin tx.touch
            BY <2>1, <2>2, <2>4
        <3> QED BY <2>1, <3>1 DEF Outdated
    <2> QED BY <2>3, <2>4
<1>4. ASSUME NEW q \in Requests, InTx(q)' PROVE TxRight(req[q].tx)'
    <2>1. q # r
        BY <1>4 DEF InTx, Commit, TypeOK, Open, Request, Idle, LengthsInv
    <2>2. req'[q] = Raced(q, Moved(tx), Resized(tx))
        BY <2>1 DEF Commit
    <2>3. Moved(tx) \in SUBSET Cables /\ Resized(tx) \in SUBSET Cables
        BY DEF Moved, Resized
    <2>4. /\ links' = (links \cup tx.add) \ tx.drop /\ laid' = laid
          /\ \A c \in Cables : row'[c] = Saved(tx, c)
        BY DEF Commit
    <2> HIDE DEF tx
    <2>5. \A c \in Cables \ Moved(tx) :
              /\ laid' = laid /\ row'[c].ends = row[c].ends
              /\ \A d \in Ducts : <<d, c>> \in links' <=> <<d, c>> \in links
        BY <2>4 DEF Moved
    <2>6. \A c \in Cables \ Resized(tx) : row'[c].reserve = row[c].reserve
        BY <2>4 DEF Resized
    <2> QED BY <1>4, <2>2, <2>3, <2>5, <2>6, OthersStayRight
<1> QED BY <1>2, <1>3, <1>4 DEF LengthsInv

(* A microduct's address and status are no part of any length. *)
LEMMA ReassignKeepsLengths ==
    ASSUME LengthsInv, TypeOK', NEW d \in Ducts, NEW a \in Addresses \cup {None}, Reassign(d, a)
    PROVE  LengthsInv'
<1>1. UNCHANGED <<cables, links, laid, row, outdated, mixed>>
    BY DEF Reassign
<1>2. LengthRight' /\ (Cables \ cables \subseteq outdated)'
    BY <1>1 DEF LengthsInv, LengthRight
<1>3. ASSUME NEW q \in Requests, InTx(q)' PROVE TxRight(req[q].tx)'
    <2>1. req'[q] = Raced(q, {}, {})
        BY DEF Reassign
    <2>2. \A c \in Cables : row'[c] = row[c]
        BY <1>1
    <2> QED BY <1>1, <1>3, <2>1, <2>2, OthersStayRight
<1> QED BY <1>2, <1>3 DEF LengthsInv

(* Laying a conduit concerns the cables that have a link into it, and they *)
(* are marked.                                                             *)
LEMMA RewireKeepsLengths ==
    ASSUME LengthsInv, TypeOK', NEW t \in Trenches, NEW k \in Conduits, Rewire(t, k)
    PROVE  LengthsInv'
<1>1. /\ TypeOK /\ UNCHANGED <<cables, links, row, mixed>>
      /\ laid' = (laid \cup {<<t, k>>}) \ (laid \cap {<<t, k>>})
      /\ outdated' = outdated \cup {c \in Cables : \E d \in Linked(c) : ConduitOf[d] = k}
    BY DEF Rewire, LengthsInv
<1>2. LengthRight'
    <2>0. \A c \in cables : c \notin mixed' => Totalled(row'[c])
        BY <1>1 DEF LengthsInv, LengthRight
    <2> SUFFICES ASSUME NEW c \in cables \ outdated'
                 PROVE  Holds(row[c], CalcLength(c, row[c].ends, links, laid'))
        BY <1>1, <2>0 DEF LengthRight
    <2>1. c \in Cables /\ c \in cables \ outdated
        BY <1>1 DEF TypeOK
    <2>2. \A d \in Ducts : <<d, c>> \in links => ConduitOf[d] # k
        BY <1>1, <2>1 DEF Linked
    <2>3. \A s \in Trenches, j \in Conduits : j # k => (<<s, j>> \in laid' <=> <<s, j>> \in laid)
        BY <1>1
    <2>4. \A d \in Ducts : ConduitOf[d] \in Conduits
        BY ConstantsAssumption
    <2>5. TrenchesOf(c, links, laid') = TrenchesOf(c, links, laid)
        BY <2>2, <2>3, <2>4 DEF TrenchesOf
    <2> QED BY <2>1, <2>5 DEF LengthsInv, LengthRight, CalcLength
<1>3. ASSUME NEW q \in Requests, InTx(q)' PROVE TxRight(req[q].tx)'
    <2>1. req'[q] = Raced(q, Cables, {})
        BY DEF Rewire
    <2>2. \A c \in Cables : row'[c].reserve = row[c].reserve
        BY <1>1
    <2> QED BY <1>3, <2>1, <2>2, OthersStayRight
<1>4. (Cables \ cables \subseteq outdated)'
    BY <1>1 DEF LengthsInv
<1> QED BY <1>2, <1>3, <1>4 DEF LengthsInv
-----------------------------------------------------------------------------
(* Every step keeps the lengths right. *)
LEMMA LengthsStep == LengthsInv /\ [Next]_vars => LengthsInv'
<1> SUFFICES ASSUME LengthsInv, [Next]_vars PROVE LengthsInv'
    OBVIOUS
<1>0. TypeOK /\ TypeOK'
    BY TypeStep DEF LengthsInv
<1>17. \A p \in links : p \in Pairs /\ p[2] \in cables
    BY <1>0 DEF TypeOK, Pairs
<1>1. ASSUME NEW r \in Requests, NEW c \in Cables, NEW D \in SUBSET Ducts, PostLinks(r, c, D)
      PROVE  LengthsInv'
    BY <1>0, <1>1, StartKeepsLengths DEF PostLinks
<1>2. ASSUME NEW r \in Requests, NEW c \in Cables, NEW D \in SUBSET Ducts, DeleteLinks(r, c, D)
      PROVE  LengthsInv'
    <2> DEFINE drop == {p \in links : p[1] \in D /\ p[2] = c}
    <2>1. TxRight(Recalculation({c}, {}, drop, {}))
        BY <1>0, <1>2, RecalculationRight DEF DeleteLinks
    <2> QED BY <1>0, <1>2, <2>1, StartKeepsLengths DEF DeleteLinks
<1>3. ASSUME NEW r \in Requests, NEW c \in Cables, NEW d \in Ducts, ChooseLink(r, c, d)
      PROVE  LengthsInv'
    BY <1>0, <1>3, StartKeepsLengths DEF ChooseLink
<1>4. ASSUME NEW r \in Requests, NEW c \in Cables, AutoLink(r, c) PROVE LengthsInv'
    BY <1>0, <1>4, StartKeepsLengths DEF AutoLink
<1>5. ASSUME NEW r \in Requests, NEW c \in Cables, Recalculate(r, c) PROVE LengthsInv'
    <2>1. TxRight(Recalculation({c}, {}, {}, {}))
        BY <1>0, <1>5, RecalculationRight DEF Recalculate
    <2> QED BY <1>0, <1>5, <2>1, StartKeepsLengths DEF Recalculate
<1>6. ASSUME NEW r \in Requests, NEW c \in Cables, DeleteCable(r, c) PROVE LengthsInv'
    <2> DEFINE tx == [kind |-> "delete", add |-> {}, drop |-> {p \in links : p[2] = c},
                      dropDucts |-> {}, dropCables |-> {c}, touch |-> {c}, raced |-> {},
                      patched |-> {}, rows |-> row]
    <2>1. TxRight(tx)
        BY DEF TxRight, TxRightIn
    <2>2. Start(r, c, {}, FALSE, tx)
        BY <1>6 DEF DeleteCable
    <2> HIDE DEF tx
    <2> QED BY <1>0, <2>1, <2>2, StartKeepsLengths
<1>7. ASSUME NEW r \in Requests, NEW c \in Cables, NEW p \in Patches, PatchCable(r, c, p)
      PROVE  LengthsInv'
    <2> DEFINE tx == [kind |-> "patch", add |-> {}, drop |-> {}, dropDucts |-> {},
                      dropCables |-> {}, touch |-> {c}, raced |-> {},
                      patched |-> {}, rows |-> [row EXCEPT ![c] = Patched(c, p)]]
    <2>1. /\ tx.add = {} /\ tx.drop = {} /\ tx.dropCables = {} /\ tx.touch = {c}
          /\ tx.kind = "patch" /\ tx.rows[c] = Patched(c, p)
        BY <1>0 DEF TypeOK
    <2>2. Start(r, c, {}, FALSE, tx)
        BY <1>7 DEF PatchCable
    <2> HIDE DEF tx
    <2>3. Totalled(Patched(c, p))
        BY <1>0, PatchedRight
    <2>4. TxRight(tx)
        BY <2>1, <2>3 DEF TxRight, TxRightIn
    <2> QED BY <1>0, <2>2, <2>4, StartKeepsLengths
<1>8. ASSUME NEW r \in Requests, NEW D \in SUBSET Ducts, DeleteDucts(r, D) PROVE LengthsInv'
    <2> DEFINE drop == {p \in links : p[1] \in D}
               T == {p[2] : p \in drop}
    <2>1. T \in SUBSET cables /\ \A p \in {} \cup drop : p[2] \in T
        BY <1>17
    <2>2. TxRight(Recalculation(T, {}, drop, D))
        BY <1>0, <2>1, RecalculationRight
    <2>3. \E c \in Cables : Start(r, c, {}, FALSE, Recalculation(T, {}, drop, D))
        BY <1>8 DEF DeleteDucts
    <2> QED BY <1>0, <2>2, <2>3, StartKeepsLengths
<1>9. ASSUME NEW r \in Requests, NEW e \in Ends, LinkEnd(r, e) PROVE LengthsInv'
    <2>1. req[r] \in Request /\ req[r].tx = NoTx
        BY <1>0, <1>9, OpenType DEF LinkEnd, Running
    <2>2. req'[r].tx = NoTx /\ \A q \in Requests \ {r} : req'[q] = req[q]
        BY <1>0, <1>9, <2>1 DEF LinkEnd, TypeOK, Request
    <2> QED BY <1>0, <1>9, <2>2, QuietStep DEF LinkEnd
<1>10. ASSUME NEW r \in Requests, NEW d \in Ducts, LinkDuct(r, d) PROVE LengthsInv'
    <2>1. req[r] \in Request /\ req[r].tx = NoTx
        BY <1>0, <1>10, OpenType DEF LinkDuct, Running
    <2> DEFINE c == req[r].cable
               x == Recalculation({c}, {<<d, c>>}, {}, {})
    <2>2. c \in cables => TxRight(x)
        BY <1>0, RecalculationRight
    <2> HIDE DEF c, x
    <2>3. /\ req'[r].tx = NoTx \/ (req'[r].tx = x /\ c \in cables)
          /\ \A q \in Requests \ {r} : req'[q] = req[q]
        BY <1>0, <1>10, <2>1 DEF LinkDuct, TypeOK, Request, c, x
    <2>4. UNCHANGED <<cables, links, laid, row, outdated, mixed>>
        BY <1>10 DEF LinkDuct
    <2>5. CASE req'[r].tx = NoTx
        BY <1>0, <2>3, <2>4, <2>5, QuietStep
    <2>6. CASE req'[r].tx = x /\ c \in cables
        BY <1>0, <2>2, <2>3, <2>4, <2>6, QuietStep
    <2> QED BY <2>3, <2>5, <2>6
<1>11. ASSUME NEW r \in Requests, Commit(r) PROVE LengthsInv'
    BY <1>0, <1>11, CommitKeepsLengths
<1>12. ASSUME NEW r \in Requests, Refuse(r) PROVE LengthsInv'
    <2>1. req[r] \in Request
        BY <1>0, <1>12, OpenType DEF Refuse, InTx
    <2>2. req'[r].tx = NoTx /\ \A q \in Requests \ {r} : req'[q] = req[q]
        BY <1>0, <1>12, <2>1 DEF Refuse, TypeOK, Request
    <2> QED BY <1>0, <1>12, <2>2, QuietStep DEF Refuse
<1>13. ASSUME NEW r \in Requests, Answer(r) PROVE LengthsInv'
    <2>1. req'[r] = Idle /\ \A q \in Requests \ {r} : req'[q] = req[q]
        BY <1>0, <1>13 DEF Answer, TypeOK
    <2> QED BY <1>0, <1>13, <2>1, QuietStep DEF Answer
<1>14. ASSUME NEW d \in Ducts, NEW a \in Addresses \cup {None}, Reassign(d, a) PROVE LengthsInv'
    BY <1>0, <1>14, ReassignKeepsLengths
<1>15. ASSUME NEW t \in Trenches, NEW k \in Conduits, Rewire(t, k) PROVE LengthsInv'
    BY <1>0, <1>15, RewireKeepsLengths
<1>16. CASE UNCHANGED vars
    <2>1. LengthRight' /\ (Cables \ cables \subseteq outdated)'
        BY <1>16 DEF vars, LengthsInv, LengthRight
    <2>2. ASSUME NEW q \in Requests, InTx(q)' PROVE TxRight(req[q].tx)'
        <3>1. TxRight(req[q].tx)
            BY <1>16, <2>2 DEF vars, LengthsInv, InTx, Open
        <3> QED BY <1>16, <3>1 DEF vars, TxRight
    <2> QED BY <1>0, <2>1, <2>2 DEF LengthsInv
<1> QED BY <1>1, <1>2, <1>3, <1>4, <1>5, <1>6, <1>7, <1>8, <1>9, <1>10, <1>11, <1>12, <1>13,
           <1>14, <1>15, <1>16 DEF Next, Step, Change

(* A cable's total is its length and its reserves but for a recomputation  *)
(* that a change of the reserves overlapped; its length is that of its     *)
(* links between its ends unless, since it was last recomputed, a PATCH    *)
(* changed it or moved an end, a trench was changed under it, or that      *)
(* recomputation was overlapped by a change of its links or ends.          *)
THEOREM LengthsAreRight == Spec => []LengthRight
<1>1. LengthsInv => LengthRight
    BY DEF LengthsInv
<1> QED BY <1>1, LengthsInit, LengthsStep, PTL DEF Spec
-----------------------------------------------------------------------------
(* An automatic linking that no commit of another request and no change of *)
(* the surroundings has overlapped.                                        *)
Undisturbed(r) == Open(r) /\ req[r].auto /\ ~req[r].disturbed

(* The ducts a request has still to link, or is about to commit a link to. *)
Awaited(r) ==
    {d \in Ducts : d \in req[r].todo \/ (InTx(r) /\ <<d, req[r].cable>> \in req[r].tx.add)}

(* A transaction that inserts one link of cable c, and can.                *)
LinksOne(tx, c) ==
    /\ tx.kind = "recalculate" /\ tx.touch = {c}
    /\ tx.drop = {} /\ tx.dropDucts = {} /\ tx.dropCables = {}
    /\ \E d \in ducts : tx.add = {<<d, c>>} /\ <<d, c>> \notin links

(* An end is settled once the awaited links are there.                     *)
EndPrepared(r, e) ==
    LET found == Candidates(req[r].ends[e])
    IN  found \cap (Linked(req[r].cable) \cup Awaited(r)) = {} => Cardinality(found) # 1

OnCourse(r) ==
    /\ req[r].cable \in cables
    /\ req[r].ends = row[req[r].cable].ends
    /\ req[r].todo \cap Ducts \subseteq ducts
    /\ InTx(r) => LinksOne(req[r].tx, req[r].cable)
    /\ \A e \in Ends \ req[r].todo : EndPrepared(r, e)

LinkingInv == TypeOK /\ \A r \in Requests : Undisturbed(r) => OnCourse(r)

(* The steps of other requests that commit nothing leave a linking alone.  *)
LEMMA LinkingUnmoved ==
    ASSUME UNCHANGED <<cables, ducts, links, home, row>>, NEW q \in Requests, req'[q] = req[q],
           Undisturbed(q) => OnCourse(q)
    PROVE  Undisturbed(q)' => OnCourse(q)'
<1>1. (Open(q)' <=> Open(q)) /\ (InTx(q)' <=> InTx(q)) /\ Awaited(q)' = Awaited(q)
    BY DEF Open, InTx, Awaited
<1>2. \A c, n : Candidates(n)' = Candidates(n) /\ Linked(c)' = Linked(c)
    BY DEF Candidates, Linked
<1>3. req'[q].ends = req[q].ends /\ req'[q].tx = req[q].tx /\ row' = row
    OBVIOUS
<1>4. \A e \in Ends : EndPrepared(q, e) => EndPrepared(q, e)'
    BY <1>1, <1>2, <1>3 DEF EndPrepared
<1>5. LinksOne(req[q].tx, req[q].cable) => LinksOne(req[q].tx, req[q].cable)'
    BY DEF LinksOne
<1>6. OnCourse(q) => OnCourse(q)'
    BY <1>1, <1>3, <1>4, <1>5 DEF OnCourse
<1>7. Undisturbed(q)' => Undisturbed(q)
    BY <1>1 DEF Undisturbed
<1> QED BY <1>6, <1>7

(* A request that starts is an automatic linking with both ends to do.     *)
LEMMA StartOnCourse ==
    ASSUME LinkingInv, NEW r \in Requests, NEW c, NEW todo, NEW auto, NEW tx,
           Start(r, c, todo, auto, tx),
           auto = FALSE \/ (auto = TRUE /\ c \in cables /\ todo = Ends /\ tx = NoTx)
    PROVE  \A q \in Requests : Undisturbed(q)' => OnCourse(q)'
<1> SUFFICES ASSUME NEW q \in Requests PROVE Undisturbed(q)' => OnCourse(q)'
    OBVIOUS
<1>1. req \in [Requests -> Request \cup {Idle}] /\ UNCHANGED <<cables, ducts, links, home, row>>
    BY DEF LinkingInv, TypeOK, Start
<1>2. CASE q # r
    <2>1. req'[q] = req[q]
        BY <1>1, <1>2 DEF Start
    <2> QED BY <1>1, <2>1, LinkingUnmoved DEF LinkingInv
<1>3. CASE q = r
    <2>1. /\ req'[q].auto = auto /\ req'[q].cable = c /\ req'[q].todo = todo
          /\ req'[q].tx = tx /\ req'[q].ends = row[c].ends
        BY <1>1, <1>3 DEF Start
    <2>2. CASE auto = FALSE
        BY <2>1, <2>2 DEF Undisturbed
    <2>3. CASE auto = TRUE /\ c \in cables /\ todo = Ends /\ tx = NoTx
        <3>1. ~InTx(q)'
            BY <2>1, <2>3 DEF InTx
        <3>2. /\ req'[q].cable \in cables' /\ req'[q].todo = Ends
              /\ req'[q].ends = row'[req'[q].cable].ends
            BY <1>1, <2>1, <2>3
        <3>3. req'[q].todo \cap Ducts = {}
            BY <3>2, ConstantsAssumption
        <3> QED BY <3>1, <3>2, <3>3 DEF OnCourse
    <2> QED BY <2>2, <2>3
<1> QED BY <1>2, <1>3

(* What a request does to itself in a step that commits nothing.           *)
LEMMA OwnOnCourse ==
    ASSUME LinkingInv, NEW r \in Requests, UNCHANGED <<cables, ducts, links, home, row>>,
           \A q \in Requests \ {r} : req'[q] = req[q],
           Undisturbed(r)' => OnCourse(r)'
    PROVE  \A q \in Requests : Undisturbed(q)' => OnCourse(q)'
<1> SUFFICES ASSUME NEW q \in Requests PROVE Undisturbed(q)' => OnCourse(q)'
    OBVIOUS
<1>1. CASE q = r
    BY <1>1
<1>2. CASE q # r
    BY <1>2, LinkingUnmoved DEF LinkingInv
<1> QED BY <1>1, <1>2

(* The one candidate of an end without a link becomes an awaited link.     *)
LEMMA LinkEndOnCourse ==
    ASSUME LinkingInv, NEW r \in Requests, NEW e \in Ends, LinkEnd(r, e)
    PROVE  \A q \in Requests : Undisturbed(q)' => OnCourse(q)'
<1> DEFINE c == req[r].cable
           found == Candidates(req[r].ends[e])
           new == IF Cardinality(found) = 1 /\ found \cap Linked(c) = {} THEN found ELSE {}
           todo == (req[r].todo \ {e}) \cup new
<1>1. TypeOK /\ Running(r) /\ req[r].todo \subseteq Ends /\ e \in req[r].todo
    BY DEF LinkEnd, LinkingInv
<1>2. req[r] \in Request /\ req[r].tx = NoTx
    BY <1>1, OpenType DEF Running
<1>3. req' = [req EXCEPT ![r].todo = todo] /\ UNCHANGED <<cables, ducts, links, home, row>>
    BY DEF LinkEnd
<1> HIDE DEF todo
<1>4. /\ req'[r].todo = todo /\ req'[r].tx = NoTx /\ req'[r].cable = c
      /\ req'[r].ends = req[r].ends
      /\ req'[r].auto = req[r].auto /\ req'[r].disturbed = req[r].disturbed
      /\ \A q \in Requests \ {r} : req'[q] = req[q]
    BY <1>1, <1>2, <1>3 DEF TypeOK, Request
<1>5. ASSUME Undisturbed(r)' PROVE OnCourse(r)'
    <2>1. Undisturbed(r)
        BY <1>1, <1>4, <1>5 DEF Undisturbed, Running
    <2>2. OnCourse(r)
        BY <2>1 DEF LinkingInv
    <2>3. ~InTx(r) /\ ~InTx(r)'
        BY <1>2, <1>4 DEF InTx
    <2>4. found \subseteq ducts /\ new \subseteq found
        BY DEF Candidates
    <2>5. todo \cap Ducts = new /\ todo \cap Ends = req[r].todo \ {e} /\ Awaited(r) = {}
        BY <1>1, <2>3, <2>4, ConstantsAssumption DEF todo, Awaited, TypeOK
    <2>6. Awaited(r)' = new
        BY <1>4, <2>3, <2>5 DEF Awaited
    <2>7. \A n : Candidates(n)' = Candidates(n) /\ Linked(c)' = Linked(c)
        BY <1>3 DEF Candidates, Linked
    <2>8. ASSUME NEW f \in Ends \ todo PROVE EndPrepared(r, f)'
        <3>1. CASE f = e
            <4>1. found \cap (Linked(c) \cup new) = {} => Cardinality(found) # 1
                <5> SUFFICES ASSUME found \cap (Linked(c) \cup new) = {}, Cardinality(found) = 1
                             PROVE  FALSE
                    OBVIOUS
                <5>1. new = found
                    OBVIOUS
                <5>2. found = {}
                    BY <5>1
                <5> QED BY <5>2, FS_EmptySet
            <4> HIDE DEF found, new
            <4> QED BY <1>4, <2>6, <2>7, <3>1, <4>1 DEF EndPrepared, found
        <3>2. CASE f # e
            <4>1. EndPrepared(r, f)
                BY <2>2, <2>5, <2>8, <3>2 DEF OnCourse
            <4> HIDE DEF new
            <4> QED BY <1>4, <2>5, <2>6, <2>7, <4>1 DEF EndPrepared
        <3> QED BY <3>1, <3>2
    <2>9. /\ req'[r].cable \in cables' /\ req'[r].todo \cap Ducts \subseteq ducts'
          /\ req'[r].ends = row'[req'[r].cable].ends
        BY <1>3, <1>4, <2>2, <2>4, <2>5 DEF OnCourse
    <2>10. \A f \in Ends \ req'[r].todo : EndPrepared(r, f)'
        BY <1>4, <2>8
    <2> QED BY <2>3, <2>9, <2>10 DEF OnCourse
<1> QED BY <1>3, <1>4, <1>5, OwnOnCourse

(* A duct to link becomes the link of an open transaction.                 *)
LEMMA LinkDuctOnCourse ==
    ASSUME LinkingInv, NEW r \in Requests, NEW d \in Ducts, LinkDuct(r, d)
    PROVE  \A q \in Requests : Undisturbed(q)' => OnCourse(q)'
<1> DEFINE c == req[r].cable
           x == Recalculation({c}, {<<d, c>>}, {}, {})
           tx == IF <<d, c>> \in links THEN NoTx ELSE x
<1>1. TypeOK /\ Running(r) /\ d \in req[r].todo
    BY DEF LinkDuct, LinkingInv
<1>2. req[r] \in Request /\ req[r].tx = NoTx
    BY <1>1, OpenType DEF Running
<1>3. UNCHANGED <<cables, ducts, links, home, row>> /\ \A q \in Requests \ {r} : req'[q] = req[q]
    BY <1>1 DEF LinkDuct, TypeOK
<1>4. ASSUME Undisturbed(r)' PROVE OnCourse(r)'
    <2>1. Undisturbed(r)
        BY <1>1, <1>2, <1>4 DEF Undisturbed, LinkDuct, Running, TypeOK, Request
    <2>2. OnCourse(r)
        BY <2>1 DEF LinkingInv
    <2>3. /\ x.kind = "recalculate" /\ x.touch = {c} /\ x.add = {<<d, c>>}
          /\ x.drop = {} /\ x.dropDucts = {} /\ x.dropCables = {}
        BY DEF Recalculation
    <2>4. x # NoTx /\ (tx = NoTx <=> <<d, c>> \in links) /\ (tx # NoTx => tx = x)
        BY <2>3 DEF NoTx
    <2>5. <<d, c>> \in links \/ (tx = x /\ <<d, c>> \notin links)
        OBVIOUS
    <2> HIDE DEF x
    <2>6. req' = [req EXCEPT ![r] = [req[r] EXCEPT !.todo = req[r].todo \ {d}, !.tx = tx]]
        BY <2>2 DEF LinkDuct, OnCourse, x
    <2> HIDE DEF tx
    <2>7. /\ req'[r].todo = req[r].todo \ {d} /\ req'[r].tx = tx /\ req'[r].cable = c
          /\ req'[r].ends = req[r].ends
        BY <1>1, <1>2, <2>6 DEF TypeOK, Request
    <2>8. ASSUME InTx(r)' PROVE LinksOne(req[r].tx, c)'
        <3>1. tx = x /\ <<d, c>> \notin links
            <4>1. req'[r].tx # NoTx
                BY <2>8 DEF InTx
            <4> QED BY <2>4, <2>5, <2>7, <4>1
        <3>2. d \in ducts
            BY <1>1, <2>2 DEF OnCourse
        <3> QED BY <1>3, <2>3, <2>7, <3>1, <3>2 DEF LinksOne
    <2>9. \A k : Linked(k)' = Linked(k)
        BY <1>3 DEF Linked
    <2>10. Linked(c) \cup Awaited(r) \subseteq Linked(c) \cup Awaited(r)'
        <3> SUFFICES ASSUME NEW f \in Awaited(r) PROVE f \in Linked(c) \cup Awaited(r)'
            OBVIOUS
        <3>1. f \in Ducts /\ f \in req[r].todo
            BY <1>2 DEF Awaited, InTx
        <3>2. CASE f # d
            BY <2>7, <3>1, <3>2 DEF Awaited
        <3>3. CASE f = d
            <4>1. CASE <<d, c>> \in links
                BY <3>1, <3>3, <4>1 DEF Linked
            <4>2. CASE tx = x
                <5>1. Open(r)' /\ req'[r].tx # NoTx
                    BY <1>4, <2>4, <2>7, <4>2 DEF Undisturbed
                <5>2. <<d, c>> \in req'[r].tx.add
                    BY <2>3, <2>7, <4>2
                <5> QED BY <2>7, <3>1, <3>3, <5>1, <5>2 DEF Awaited, InTx
            <4> QED BY <2>5, <4>1, <4>2
        <3> QED BY <3>2, <3>3
    <2>11. ASSUME NEW e \in Ends \ req'[r].todo PROVE EndPrepared(r, e)'
        <3>1. e \in Ends \ req[r].todo
            BY <2>7, ConstantsAssumption
        <3>2. EndPrepared(r, e)
            BY <2>2, <3>1 DEF OnCourse
        <3>3. \A n : Candidates(n)' = Candidates(n)
            BY <1>3 DEF Candidates
        <3> HIDE DEF c
        <3> QED BY <2>7, <2>10, <2>9, <3>2, <3>3 DEF EndPrepared, c
    <2>12. /\ req'[r].cable \in cables' /\ req'[r].todo \cap Ducts \subseteq ducts'
           /\ req'[r].ends = row'[req'[r].cable].ends
        BY <1>3, <2>2, <2>7 DEF OnCourse
    <2> QED BY <2>7, <2>8, <2>11, <2>12 DEF OnCourse
<1> QED BY <1>3, <1>4, OwnOnCourse

(* The database accepts the link of an undisturbed linking.                *)
LEMMA UndisturbedAccepted ==
    ASSUME LinkingInv, NEW r \in Requests, Undisturbed(r), InTx(r)
    PROVE  Accepted(req[r].tx)
<1>1. TypeOK /\ OnCourse(r) /\ LinksOne(req[r].tx, req[r].cable)
    BY DEF LinkingInv, OnCourse
<1> DEFINE tx == req[r].tx
           c == req[r].cable
<1>2. c \in cables /\ tx.touch = {c} /\ tx.dropDucts = {} /\ tx.dropCables = {}
    BY <1>1 DEF OnCourse, LinksOne
<1>3. \A p \in tx.add : p[1] \in ducts /\ p[2] \in cables /\ p \notin links
    BY <1>1, <1>2 DEF LinksOne
<1> QED BY <1>2, <1>3 DEF Accepted

(* A commit turns the request's awaited link into a link, and disturbs all *)
(* the others.                                                             *)
LEMMA CommitOnCourse ==
    ASSUME LinkingInv, NEW r \in Requests, Commit(r)
    PROVE  \A q \in Requests : Undisturbed(q)' => OnCourse(q)'
<1> SUFFICES ASSUME NEW q \in Requests, Undisturbed(q)' PROVE OnCourse(q)'
    OBVIOUS
<1> DEFINE tx == req[r].tx
           c == req[r].cable
<1>1. TypeOK /\ InTx(r) /\ req[r] \in Request /\ tx \in Tx
    BY OpenType DEF LinkingInv, Commit, InTx
<1>2. q = r
    <2> SUFFICES ASSUME q # r PROVE FALSE
        OBVIOUS
    <2>1. req'[q] = Raced(q, Moved(tx), Resized(tx))
        BY DEF Commit
    <2>2. Open(q)
        BY <2>1 DEF Undisturbed, Raced, Open
    <2> DEFINE y == RacedTx(req[q].tx, Moved(tx), Resized(tx))
    <2>3. Raced(q, Moved(tx), Resized(tx)) = [req[q] EXCEPT !.disturbed = TRUE, !.tx = y]
        BY <2>2 DEF Raced
    <2> HIDE DEF y
    <2>4. req[q] \in Request
        BY <1>1, <2>2, OpenType
    <2>5. req'[q].disturbed
        BY <2>1, <2>3, <2>4 DEF Request
    <2> QED BY <2>5 DEF Undisturbed
<1>3. req'[r] = [req[r] EXCEPT !.tx = NoTx]
    BY DEF Commit
<1>4. /\ req'[r].tx = NoTx /\ req'[r].cable = c /\ req'[r].todo = req[r].todo
      /\ req'[r].ends = req[r].ends
      /\ req'[r].auto = req[r].auto /\ req'[r].disturbed = req[r].disturbed
    BY <1>1, <1>3 DEF Request
<1>5. OnCourse(r) /\ LinksOne(tx, c)
    <2>1. Undisturbed(r)
        BY <1>1, <1>2, <1>4 DEF Undisturbed, InTx
    <2> QED BY <1>1, <2>1 DEF LinkingInv, OnCourse
<1>6. /\ links' = (links \cup tx.add) \ tx.drop /\ ducts' = ducts \ tx.dropDucts
      /\ cables' = (cables \cup tx.touch) \ tx.dropCables /\ home' = home
      /\ row' = [k \in Cables |-> Saved(tx, k)]
    BY DEF Commit
<1> HIDE DEF tx, c
<1>7. links' = links \cup tx.add /\ ducts' = ducts /\ c \in cables'
    BY <1>5, <1>6 DEF LinksOne
<1>8. ~InTx(r)'
    BY <1>4 DEF InTx
<1>9. Linked(c) \cup Awaited(r) \subseteq Linked(c)' \cup Awaited(r)'
    BY <1>4, <1>7 DEF Linked, Awaited, tx, c
<1>10. ASSUME NEW e \in Ends \ req'[r].todo PROVE EndPrepared(r, e)'
    <2>1. EndPrepared(r, e)
        BY <1>4, <1>5 DEF OnCourse
    <2>2. \A n : Candidates(n)' = Candidates(n)
        BY <1>6, <1>7 DEF Candidates
    <2> QED BY <1>4, <1>9, <2>1, <2>2 DEF EndPrepared, c
<1>11. req'[r].todo \cap Ducts \subseteq ducts'
    BY <1>4, <1>5, <1>7 DEF OnCourse
<1>12. req'[r].ends = row'[c].ends
    <2>1. row'[c] = [row[c] EXCEPT !.length = tx.rows[c].length, !.total = tx.rows[c].total]
        BY <1>1, <1>5, <1>6 DEF Saved, LinksOne, Request, c
    <2>2. row[c] \in Row /\ req[r].ends = row[c].ends
        BY <1>1, <1>5 DEF TypeOK, Request, OnCourse, c
    <2> QED BY <1>4, <2>1, <2>2 DEF Row
<1> QED BY <1>2, <1>4, <1>7, <1>8, <1>10, <1>11, <1>12 DEF OnCourse

(* A change of the surroundings disturbs every request.                    *)
LEMMA DisturbedByChange ==
    ASSUME LinkingInv, NEW M, NEW P, req' = [q \in Requests |-> Raced(q, M, P)]
    PROVE  \A q \in Requests : ~Undisturbed(q)'
<1> SUFFICES ASSUME NEW q \in Requests, Undisturbed(q)' PROVE FALSE
    OBVIOUS
<1>1. req'[q] = Raced(q, M, P)
    OBVIOUS
<1>2. Open(q)
    BY <1>1 DEF Undisturbed, Raced, Open
<1> DEFINE y == RacedTx(req[q].tx, M, P)
<1>3. Raced(q, M, P) = [req[q] EXCEPT !.disturbed = TRUE, !.tx = y]
    BY <1>2 DEF Raced
<1> HIDE DEF y
<1>4. req[q] \in Request
    BY <1>2, OpenType DEF LinkingInv
<1>5. req'[q].disturbed
    BY <1>1, <1>3, <1>4 DEF Request
<1> QED BY <1>5 DEF Undisturbed
-----------------------------------------------------------------------------
(* Every step keeps the undisturbed linkings on course.                    *)
LEMMA LinkingStep == LinkingInv /\ [Next]_vars => LinkingInv'
<1> SUFFICES ASSUME LinkingInv, [Next]_vars PROVE LinkingInv'
    OBVIOUS
<1> DEFINE Goal == \A q \in Requests : Undisturbed(q)' => OnCourse(q)'
<1>0. TypeOK'
    BY TypeStep DEF LinkingInv
<1>1. ASSUME NEW r \in Requests, NEW c, NEW todo, NEW tx, Start(r, c, todo, FALSE, tx)
      PROVE  Goal
    BY <1>1, StartOnCourse
<1>2. ASSUME NEW r \in Requests, NEW c \in Cables, AutoLink(r, c) PROVE Goal
    BY <1>2, StartOnCourse DEF AutoLink
<1>3. ASSUME NEW r \in Requests, NEW e \in Ends, LinkEnd(r, e) PROVE Goal
    BY <1>3, LinkEndOnCourse
<1>4. ASSUME NEW r \in Requests, NEW d \in Ducts, LinkDuct(r, d) PROVE Goal
    BY <1>4, LinkDuctOnCourse
<1>5. ASSUME NEW r \in Requests, Commit(r) PROVE Goal
    BY <1>5, CommitOnCourse
<1>6. ASSUME NEW r \in Requests, Refuse(r) PROVE Goal
    <2>1. ~Undisturbed(r)
        BY <1>6, UndisturbedAccepted DEF Refuse
    <2>2. req[r] \in Request /\ TypeOK
        BY <1>6, OpenType DEF LinkingInv, Refuse, InTx
    <2>3. ~Undisturbed(r)'
        BY <1>6, <2>1, <2>2 DEF Refuse, Undisturbed, Open, TypeOK, Request
    <2>4. \A q \in Requests \ {r} : req'[q] = req[q]
        BY <1>6, <2>2 DEF Refuse, TypeOK
    <2>5. UNCHANGED <<cables, ducts, links, home, row>>
        BY <1>6 DEF Refuse
    <2> QED BY <2>3, <2>4, <2>5, OwnOnCourse
<1>7. ASSUME NEW r \in Requests, Answer(r) PROVE Goal
    <2>1. req'[r] = Idle /\ \A q \in Requests \ {r} : req'[q] = req[q]
        BY <1>7 DEF Answer, LinkingInv, TypeOK
    <2>2. ~Undisturbed(r)'
        BY <2>1 DEF Undisturbed, Open, Idle
    <2>3. UNCHANGED <<cables, ducts, links, home, row>>
        BY <1>7 DEF Answer
    <2> QED BY <2>1, <2>2, <2>3, OwnOnCourse
<1>8. ASSUME Change PROVE Goal
    <2>1. \E M, P : req' = [q \in Requests |-> Raced(q, M, P)]
        BY <1>8 DEF Change, Reassign, Rewire
    <2> QED BY <2>1, DisturbedByChange
<1>9. CASE UNCHANGED vars
    <2>1. UNCHANGED <<cables, ducts, links, home, row>> /\ \A q \in Requests : req'[q] = req[q]
        BY <1>9 DEF vars
    <2> QED BY <1>0, <2>1, LinkingUnmoved DEF LinkingInv
<1> HIDE DEF Goal
<1>10. ASSUME NEW r \in Requests, Step(r) PROVE Goal
    BY <1>1, <1>2, <1>3, <1>4, <1>5, <1>6, <1>7, <1>10
       DEF Step, PostLinks, DeleteLinks, ChooseLink, Recalculate, DeleteCable, PatchCable, DeleteDucts
<1>11. Next => Goal
    BY <1>8, <1>10 DEF Next
<1>12. CASE Next
    BY <1>0, <1>11, <1>12 DEF LinkingInv, Goal
<1> QED BY <1>9, <1>12

(* An automatic linking that nothing interfered with leaves nothing to     *)
(* link at either end of its cable.                                        *)
THEOREM LinkingSettles == Spec => []AutoLinkSettles
<1>1. Init => LinkingInv
    BY TypeInit DEF Init, LinkingInv, Undisturbed, Open, Idle
<1>2. LinkingInv => AutoLinkSettles
    <2> SUFFICES ASSUME LinkingInv, NEW r \in Requests, Running(r), req[r].auto,
                        req[r].todo = {}, ~req[r].disturbed, NEW e \in Ends
                 PROVE  EndSettled(req[r].cable, e)
        BY DEF AutoLinkSettles
    <2>1. OnCourse(r)
        BY DEF LinkingInv, Undisturbed, Running
    <2>2. EndPrepared(r, e) /\ Awaited(r) = {} /\ req[r].ends = row[req[r].cable].ends
        BY <2>1 DEF OnCourse, Awaited, InTx, Running
    <2> QED BY <2>2 DEF EndPrepared, EndSettled
<1> QED BY <1>1, <1>2, LinkingStep, PTL DEF Spec
=============================================================================
