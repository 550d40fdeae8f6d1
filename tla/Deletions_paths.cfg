SPECIFICATION Spec
CONSTANTS
    Ids = {1, 2, 3}
    Model <- MCModel
    Database <- MCDatabase
    History <- MCHistory
    Listened <- MCListened
    Start <- MCStart
    Requests = {q1}
    Outside = Outside
    None = None
    Unborn = Unborn
    Gone = Gone
    Refused = Refused
    MaxWrites = 1
INVARIANTS TypeOK PathsAgree RecordedRowsAreGone UnreferencedGoes
PROPERTIES DeletionsAreRecorded
CHECK_DEADLOCK FALSE
