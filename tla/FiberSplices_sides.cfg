\* Two ports with groups on both sides, and a residential unit.
SPECIFICATION Spec
CONSTANTS
    Structures = {n1}
    Ports = {1, 2}
    f1 = f1
    f2 = f2
    c1 = c1
    c2 = c2
    g1 = g1
    g2 = g2
    Fibers = {f1, f2}
    Cables = {c1, c2}
    CableOf <- OneCableEach
    Units = {u1}
    Groups = {g1, g2}
    None = None
    PortTable = TRUE
    MaxDrop = 1
SYMMETRY Symmetry
INVARIANTS TypeOK SharedOnlyWhenMerged NoDanglingReference
PROPERTIES SidesIndependent
CHECK_DEADLOCK FALSE
