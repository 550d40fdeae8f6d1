--------------------------- MODULE FeatureFolders ---------------------------
(***************************************************************************)
(* Attachments of the features of one type in one project: the rows of     *)
(* feature_files in the database and the files and folders in the media    *)
(* root, which no transaction spans.  A feature's files are in the folder  *)
(* named after it; renaming the feature renames the folder and then        *)
(* rewrites the paths in the rows.  A request takes its database and file  *)
(* system operations one at a time and may be killed between two of them.  *)
(***************************************************************************)
EXTENDS Naturals, FiniteSets

CONSTANTS
    Features,       \* nodes, cables, conduits or trenches (UUIDs)
    Names,          \* their identifiers, also the names of folders
    Sanitize,       \* sanitize_filename
    Files, Bases,   \* feature_files rows (UUIDs) and file names
    Jobs,           \* requests in progress at a time
    Restores,       \* FALSE: addresses, whose handler only raises again
    Deletes,        \* features may be deleted
    Kills,          \* requests may be killed
    None

ASSUME SanitizeAssumption == Sanitize \in [Names -> Names]
ASSUME SwitchAssumption == {Restores, Deletes, Kills} \subseteq BOOLEAN

VARIABLES
    name,           \* identifier of a feature, None if it does not exist
    row,            \* feature_files: owner and path
    dirs, disk,     \* media root: folders, and whose bytes are at a path
    job,            \* the requests in progress
    calm            \* nothing was deleted or killed yet (history)

vars == <<name, row, dirs, disk, job, calm>>

Paths == Names \X Bases
Rows == [owner : Features, path : Paths]
ASSUME NoneAssumption == None \notin Files \cup Names \cup Rows
Idle == [step |-> "idle"]

(* A rename of a feature: from is what _old_identifier holds.               *)
RenameJobs == [step : {"named", "moved", "failed"}, feature : Features,
               from : Names, to : Names, restoring : BOOLEAN]

(* Work on one file, its bytes on the way to path to. *)
FileJobs == [step : {"stored", "unlinked", "copied", "removed"},
             feature : Features, file : Files, to : Paths]

TypeOK ==
    /\ name \in [Features -> Names \cup {None}]
    /\ row \in [Files -> Rows \cup {None}]
    /\ dirs \subseteq Names
    /\ disk \in [Paths -> Files \cup {None}]
    /\ job \in [Jobs -> {Idle} \cup RenameJobs \cup FileJobs]
    /\ calm \in BOOLEAN

Init ==
    /\ name = [f \in Features |-> None]
    /\ row = [r \in Files |-> None]
    /\ dirs = {} /\ disk = [p \in Paths |-> None]
    /\ job = [j \in Jobs |-> Idle]
    /\ calm = TRUE

Exists(f) == name[f] # None
Taken(n) == \E f \in Features : name[f] = n
OnDisk(r) == \E p \in Paths : disk[p] = r
Begin(j, record) == job[j].step = "idle" /\ job' = [job EXCEPT ![j] = record]
Continue(j, step) == job' = [job EXCEPT ![j].step = step]
End(j) == job' = [job EXCEPT ![j] = Idle]

-----------------------------------------------------------------------------
(* UUIDs are fresh: no row of a deleted feature names f. *)
CreateFeature(f, n) ==
    /\ ~Exists(f) /\ ~Taken(n)
    /\ \A r \in Files : row[r] # None => row[r].owner # f
    /\ \A j \in Jobs : job[j].step # "idle" => job[j].feature # f
    /\ \E j \in Jobs : job[j].step = "idle"
    /\ name' = [name EXCEPT ![f] = n]
    /\ UNCHANGED <<row, dirs, disk, job, calm>>

(* The generic foreign key cascades nowhere: rows and files stay. *)
DeleteFeature(f) ==
    /\ Deletes
    /\ Exists(f)
    /\ \E j \in Jobs : job[j].step = "idle"
    /\ name' = [name EXCEPT ![f] = None]
    /\ calm' = FALSE
    /\ UNCHANGED <<row, dirs, disk, job>>

(* save() of a feature with a new identifier.  The row is committed before  *)
(* the post_save handler looks at the folder.                               *)
RenameFeature(j, f, n) ==
    /\ Exists(f) /\ ~Taken(n)
    /\ Begin(j, [step |-> "named", feature |-> f, from |-> name[f], to |-> n,
                 restoring |-> FALSE])
    /\ name' = [name EXCEPT ![f] = n]
    /\ UNCHANGED <<row, dirs, disk, calm>>

OldFolder(j) == Sanitize[job[j].from]
NewFolder(j) == Sanitize[job[j].to]

NoFolder(j) ==
    /\ job[j].step = "named"
    /\ OldFolder(j) \notin dirs
    /\ End(j)
    /\ UNCHANGED <<name, row, dirs, disk, calm>>

MoveFolder(j) ==
    /\ job[j].step = "named"
    /\ OldFolder(j) \in dirs /\ NewFolder(j) \notin dirs
    /\ dirs' = (dirs \ {OldFolder(j)}) \cup {NewFolder(j)}
    /\ disk' = [p \in Paths |->
                   IF p[1] = NewFolder(j) THEN disk[<<OldFolder(j), p[2]>>]
                   ELSE IF p[1] = OldFolder(j) THEN None ELSE disk[p]]
    /\ Continue(j, "moved")
    /\ UNCHANGED <<name, row, calm>>

(* OSError: the target folder exists, or the file system refuses. *)
MoveFails(j) ==
    /\ job[j].step = "named"
    /\ OldFolder(j) \in dirs
    /\ IF Restores THEN Continue(j, "failed") ELSE End(j)
    /\ UNCHANGED <<name, row, dirs, disk, calm>>

(* The rows of the feature follow its folder. *)
InOldFolder(j) ==
    {r \in Files : /\ row[r] # None /\ row[r].owner = job[j].feature
                   /\ row[r].path[1] = OldFolder(j)}

UpdatePaths_First(j) ==
    /\ job[j].step = "moved"
    /\ row' = [r \in Files |->
                  IF r \in InOldFolder(j) /\ r = CHOOSE q \in InOldFolder(j) : TRUE
                  THEN [row[r] EXCEPT !.path[1] = NewFolder(j)] ELSE row[r]]
    /\ End(j)
    /\ UNCHANGED <<name, dirs, disk, calm>>

UpdatePaths_FolderOnly(j) ==
    /\ job[j].step = "moved"
    /\ row' = [r \in Files |->
                  IF r \in InOldFolder(j)
                  THEN [row[r] EXCEPT !.path = NewFolder(j)] ELSE row[r]]
    /\ End(j)
    /\ UNCHANGED <<name, dirs, disk, calm>>

UpdatePaths(j) ==
    /\ job[j].step = "moved"
    /\ row' = [r \in Files |->
                  IF r \in InOldFolder(j)
                  THEN [row[r] EXCEPT !.path[1] = NewFolder(j)] ELSE row[r]]
    /\ End(j)
    /\ UNCHANGED <<name, dirs, disk, calm>>

(* The handler puts the old name back with a save() of its own, which runs  *)
(* the handlers again: a rename the other way round.                        *)
RestoreName_InMemory(j) ==
    /\ job[j].step = "failed"
    /\ End(j)
    /\ UNCHANGED <<name, row, dirs, disk, calm>>

RestoreName(j) ==
    LET f == job[j].feature
    IN  /\ job[j].step = "failed"
        /\ IF Exists(f) /\ ~Taken(job[j].from)
           THEN /\ name' = [name EXCEPT ![f] = job[j].from]
                /\ job' = [job EXCEPT ![j].step = "named",
                                      ![j].from = job[j].to,
                                      ![j].to = job[j].from,
                                      ![j].restoring = TRUE]
           ELSE UNCHANGED name /\ End(j)
        /\ UNCHANGED <<row, dirs, disk, calm>>

(* RecursionError: the handlers nested too deep, with either name saved.    *)
GiveUp(j) ==
    /\ job[j].step = "failed" /\ job[j].restoring
    /\ End(j)
    /\ UNCHANGED <<name, row, dirs, disk, calm>>

-----------------------------------------------------------------------------
FileJob(step, f, r, p) == [step |-> step, feature |-> f, file |-> r, to |-> p]

(* POST of a file: the storage writes it, over what is there, in the folder *)
(* named like the feature, not sanitized ...                                *)
Upload(j, f, r, b) ==
    /\ Exists(f)
    /\ row[r] = None /\ ~OnDisk(r)
    /\ Begin(j, FileJob("stored", f, r, <<name[f], b>>))
    /\ dirs' = dirs \cup {name[f]}
    /\ disk' = [disk EXCEPT ![<<name[f], b>>] = r]
    /\ UNCHANGED <<name, row, calm>>

(* ... and the row is inserted, unless the feature has one for that path.   *)
RowFor(f, p) == [owner |-> f, path |-> p]
Unused(f, p) == \A q \in Files : row[q] # RowFor(f, p)

InsertRow(j) ==
    /\ job[j].step = "stored"
    /\ row' = IF Unused(job[j].feature, job[j].to)
              THEN [row EXCEPT ![job[j].file] = RowFor(job[j].feature, job[j].to)]
              ELSE row
    /\ End(j)
    /\ UNCHANGED <<name, dirs, disk, calm>>

(* DELETE of a file, and the admin's removal of an orphaned one: the file   *)
(* first, then the row.                                                     *)
Unlink(j, r) ==
    /\ row[r] # None
    /\ Begin(j, FileJob("unlinked", row[r].owner, r, row[r].path))
    /\ disk' = [disk EXCEPT ![row[r].path] = None]
    /\ UNCHANGED <<name, row, dirs, calm>>

DeleteRow(j) ==
    /\ job[j].step = "unlinked"
    /\ row' = [row EXCEPT ![job[j].file] = None]
    /\ End(j)
    /\ UNCHANGED <<name, dirs, disk, calm>>

(* Renaming a file within its folder, or moving it to feature f: the bytes  *)
(* are written to the free path p, removed from the old one, and then the   *)
(* row is updated.                                                          *)
Copy_RemoveFirst(j, r, f, p) ==
    /\ row[r] # None /\ disk[p] = None
    /\ disk[row[r].path] # None
    /\ Begin(j, FileJob("copied", f, r, p))
    /\ dirs' = dirs \cup {p[1]}
    /\ disk' = [disk EXCEPT ![row[r].path] = None]
    /\ UNCHANGED <<name, row, calm>>

Copy(j, r, f, p) ==
    /\ row[r] # None /\ disk[p] = None
    /\ disk[row[r].path] # None
    /\ Begin(j, FileJob("copied", f, r, p))
    /\ dirs' = dirs \cup {p[1]}
    /\ disk' = [disk EXCEPT ![p] = disk[row[r].path]]
    /\ UNCHANGED <<name, row, calm>>

RenameFile(j, r, b) ==
    row[r] # None /\ Copy(j, r, row[r].owner, <<row[r].path[1], b>>)

MoveFile(j, r, f) ==
    /\ row[r] # None /\ Exists(f)
    /\ Copy(j, r, f, <<Sanitize[name[f]], row[r].path[2]>>)

(* The admin moves a row whose file is gone: only the path changes. *)
MoveMissingFile(j, r, f) ==
    /\ row[r] # None /\ Exists(f)
    /\ LET p == <<Sanitize[name[f]], row[r].path[2]>>
       IN  /\ disk[p] = None /\ disk[row[r].path] = None
           /\ Begin(j, FileJob("removed", f, r, p))
    /\ UNCHANGED <<name, row, dirs, disk, calm>>

RemoveOld(j) ==
    /\ job[j].step = "copied"
    /\ disk' = [disk EXCEPT ![row[job[j].file].path] = None]
    /\ Continue(j, "removed")
    /\ UNCHANGED <<name, row, dirs, calm>>

Repoint(j) ==
    /\ job[j].step = "removed"
    /\ row' = IF Unused(job[j].feature, job[j].to)
              THEN [row EXCEPT ![job[j].file] = RowFor(job[j].feature, job[j].to)]
              ELSE row
    /\ End(j)
    /\ UNCHANGED <<name, dirs, disk, calm>>

(* The process dies; a transaction it had open is rolled back. *)
Kill(j) ==
    /\ Kills
    /\ job[j].step # "idle"
    /\ End(j)
    /\ calm' = FALSE
    /\ UNCHANGED <<name, row, dirs, disk>>

Next ==
    \/ \E f \in Features, n \in Names : CreateFeature(f, n)
    \/ \E f \in Features : DeleteFeature(f)
    \/ \E j \in Jobs :
          \/ \E f \in Features, n \in Names : RenameFeature(j, f, n)
          \/ NoFolder(j) \/ MoveFolder(j) \/ MoveFails(j)
          \/ UpdatePaths(j) \/ RestoreName(j) \/ GiveUp(j)
          \/ \E f \in Features, r \in Files, b \in Bases : Upload(j, f, r, b)
          \/ \E r \in Files : Unlink(j, r)
          \/ \E r \in Files, b \in Bases : RenameFile(j, r, b)
          \/ \E r \in Files, f \in Features :
                MoveFile(j, r, f) \/ MoveMissingFile(j, r, f)
          \/ InsertRow(j) \/ DeleteRow(j) \/ RemoveOld(j) \/ Repoint(j)
          \/ Kill(j)

Spec == Init /\ [][Next]_vars

-----------------------------------------------------------------------------
Quiet == \A j \in Jobs : job[j].step = "idle"
LiveRows == {r \in Files : row[r] # None /\ Exists(row[r].owner)}

(* As long as no feature was deleted and no request killed, the row of a    *)
(* file leads to a file between requests, through any sequence of renames   *)
(* of features and files, moves, uploads of the same name, and renames the  *)
(* file system refuses.                                                     *)
FilesReachable ==
    calm /\ Quiet => \A r \in LiveRows : disk[row[r].path] # None

(* rename_folder: "Keep the folder structure consistent when e.g. a Node or *)
(* Cable is renamed": under the same conditions a file is in the folder     *)
(* named like its feature.                                                  *)
FolderFollowsName ==
    calm /\ Quiet => \A r \in LiveRows : row[r].path[1] = name[row[r].owner]

(* Whatever dies wherever, the bytes of a file leave the media root only by *)
(* a DELETE, or under an upload to the same path; renaming or moving a file *)
(* or its feature never loses them.                                         *)
BytesSurvive ==
    [][\A r \in Files : OnDisk(r) /\ ~OnDisk(r)' =>
          \E j \in Jobs : job'[j] # job[j]
                          /\ job'[j].step \in {"unlinked", "stored"}]_vars
=============================================================================
