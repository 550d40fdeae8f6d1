\* Every table of MCTraceRequests, every request, one edit at any moment.
SPECIFICATION Spec
CONSTANTS
    f1 = f1  f2 = f2  f3 = f3  f4 = f4
    c1 = c1  c2 = c2  c3 = c3
    s1 = s1  s2 = s2  s3 = s3
    n1 = n1  n2 = n2  n3 = n3  n4 = n4
    u1 = u1  a1 = a1  a2 = a2  t1 = t1  t2 = t2
    Fibers = {f1, f2, f3, f4}
    Cables = {c1, c2, c3}
    Splices = {s1, s2, s3}
    Nodes = {n1, n2, n3, n4}
    Units = {u1}
    Addresses = {a1, a2}
    Trenches = {t1, t2}
    None = None
    MaxDepth = 4
    CableOf <- FourFibers
    NodeOf <- SpliceNode
    EndsOf <- Line
    AddressOf <- AddressBook
    TrenchesOf <- Trenched
    Tables <- SmallTables
    MaxBroken = 1
    MaxEdits = 0
INVARIANTS LitReceivesSignal
