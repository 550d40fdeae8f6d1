SPECIFICATION Spec
CONSTANTS
    Users = {u1, u2}
    Groups = {g1, g2}
    Workers = {w1, w2}
    Top = 1
    Timeout = 1
    MaxRequest = 1
    MaxChanges = 2
    None = None
SYMMETRY Symmetry
INVARIANTS TypeOK DecisionsAreRecent WriterIsInSync
