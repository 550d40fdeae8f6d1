SPECIFICATION Spec
CONSTANTS
    i1 = i1  i2 = i2  i3 = i3  i4 = i4   ka = ka  kb = kb
    u1 = u1  u2 = u2  o1 = o1  o2 = o2
    None = None
    Ids = {i1, i2, i3, i4}
    Configs = {ka, kb}
    ConfigOf <- MCConfigOf
    Slots = 3
    RowsAtFirst <- MCRowsAtFirst
    Users = {u1, u2}
    Ops = {o1, o2}
    MaxOps = 3
SYMMETRY Symmetry
CHECK_DEADLOCK FALSE
INVARIANTS TypeOK OverlapNeedsBlindness ShownIsStored
