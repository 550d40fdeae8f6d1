\* Any API client, two structures.
SPECIFICATION Spec
CONSTANTS
    Structures = {n1, n2}
    Ports = {1, 2}
    f1 = f1
    f2 = f2
    c1 = c1
    c2 = c2
    g1 = g1
    g2 = g2
    Fibers = {f1}
    Cables = {c1}
    CableOf <- OneFiber
    Units = {}
    Groups = {g1}
    None = None
    PortTable = FALSE
    MaxDrop = 2
INVARIANTS GroupsAreLocal
PROPERTIES StaysInStructure
CHECK_DEADLOCK FALSE
