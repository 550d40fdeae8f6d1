\* Liveness: two requests die or fail, one PATCH is stale.
SPECIFICATION FairSpec
CONSTANTS
    Workers = {w1, w2}
    Nodes = {n1, n2}
    Editors = {e1}
    Edits = {"other"}
    BatchSize = 1
    WorkerTimeout = 1
    StaleAfter = 1
    RowFirst = FALSE
    MayFail = TRUE
    MaxMishaps = 1
PROPERTIES DeadSyncIsReclaimed AllPlaced
