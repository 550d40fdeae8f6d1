SPECIFICATION Spec
CONSTANTS
    c1 = c1  d1 = d1  d2 = d2  k1 = k1  k2 = k2  t1 = t1  t2 = t2
    n1 = n1  n2 = n2  a1 = a1  r1 = r1  r2 = r2
    None = None
    Cables = {c1}
    Ducts = {d1, d2}
    Conduits = {k1, k2}
    Trenches = {t1, t2}
    Nodes = {n1, n2}
    Addresses = {a1}
    Requests = {r1, r2}
    Patches <- MCPatches
    ConduitOf <- MCConduitOf
    TrenchLength <- MCTrenchLength
    MaxLength = 5
    AddressOf <- MCAddressOf
    EndsAtFirst <- MCEndsAtFirst
    Routed <- MCRouted
    LaidAtFirst <- MCLaidAtFirst
    LinkedAtFirst <- MCLinkedAtFirst
    MaxRequests = 3
    MaxChanges = 1
SYMMETRY Symmetry
CHECK_DEADLOCK FALSE
INVARIANTS TypeOK LengthRight AutoLinkSettles
