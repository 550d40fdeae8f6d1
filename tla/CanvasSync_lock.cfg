\* Two workers and requests killed at any point; the row exists first.
SPECIFICATION Spec
CONSTANTS
    Workers = {w1, w2}
    Nodes = {n1, n2}
    Editors = {e1}
    Edits = {"move", "other"}
    BatchSize = 1
    WorkerTimeout = 1
    StaleAfter = 1
    RowFirst = TRUE
    MayFail = FALSE
    MaxMishaps = 2
SYMMETRY Symmetry
INVARIANTS TypeOK OneSync RunningIsShown
PROPERTIES ImplementsLease
