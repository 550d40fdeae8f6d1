\* Two features, three names, two files; everything may happen.
SPECIFICATION Spec
CONSTANTS
    Features = {v1, v2}
    Names = {A, B, C}
    Sanitize <- Plain
    Files = {r1, r2}
    Bases = {x, y}
    Jobs = {j1}
    Restores = TRUE
    Deletes = TRUE
    Kills = TRUE
    None = None
SYMMETRY Symmetry
INVARIANTS TypeOK FilesReachable FolderFollowsName
PROPERTIES BytesSurvive
CHECK_DEADLOCK FALSE
