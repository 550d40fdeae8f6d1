\* Three ports, so a group can lose a port and keep two.
SPECIFICATION Spec
CONSTANTS
    Structures = {n1}
    Ports = {1, 2, 3}
    f1 = f1
    f2 = f2
    c1 = c1
    c2 = c2
    g1 = g1
    g2 = g2
    Fibers = {f1, f2}
    Cables = {c1, c2}
    CableOf <- OneCableEach
    Units = {}
    Groups = {g1}
    None = None
    PortTable = TRUE
    MaxDrop = 2
INVARIANTS UniformGroups
PROPERTIES UnmergeKeepsFiber UnmergeLeavesNoLoneMember
CHECK_DEADLOCK FALSE
