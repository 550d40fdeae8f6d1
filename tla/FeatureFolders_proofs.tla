------------------------ MODULE FeatureFolders_proofs ------------------------
(***************************************************************************)
(* Proofs about FeatureFolders, for any number of features, names and      *)
(* files: its type; and, as long as requests come one at a time, that      *)
(* renames and moves lose no bytes wherever a request is killed, that rows *)
(* lead to their files and that folders follow names.                      *)
(***************************************************************************)
EXTENDS FeatureFolders, TLAPS

OneJob == \A i, j \in Jobs : i = j

(* What ending, beginning and continuing a request make of job. *)
LEMMA EndType ==
    ASSUME TypeOK, NEW j \in Jobs, End(j)
    PROVE  job' \in [Jobs -> {Idle} \cup RenameJobs \cup FileJobs]
BY DEF TypeOK, End

(* A request that begins is a job. *)
LEMMA BeginType ==
    ASSUME TypeOK, NEW j \in Jobs, NEW r \in RenameJobs \cup FileJobs, Begin(j, r)
    PROVE  job' \in [Jobs -> {Idle} \cup RenameJobs \cup FileJobs]
BY DEF TypeOK, Begin

(* The step of a request tells which kind of request it is. *)
LEMMA JobKinds ==
    ASSUME TypeOK, NEW j \in Jobs
    PROVE  /\ job[j].step \in {"named", "moved", "failed"} => job[j] \in RenameJobs
           /\ job[j].step \in {"stored", "unlinked", "copied", "removed"}
                  => job[j] \in FileJobs
BY DEF TypeOK, Idle, RenameJobs, FileJobs

(* The path of a row is a path. *)
LEMMA RowPaths ==
    ASSUME TypeOK, NEW r \in Files, row[r] # None
    PROVE  row[r].owner \in Features /\ row[r].path \in Paths
BY DEF TypeOK, Rows

(* Every step keeps the types. *)
LEMMA TypeStep == TypeOK /\ [Next]_vars => TypeOK'
<1> SUFFICES ASSUME TypeOK, [Next]_vars PROVE TypeOK'
    OBVIOUS
<1>1. ASSUME NEW f \in Features, NEW n \in Names, CreateFeature(f, n)
      PROVE TypeOK'
    BY <1>1 DEF CreateFeature, TypeOK
<1>2. ASSUME NEW f \in Features, DeleteFeature(f) PROVE TypeOK'
    BY <1>2 DEF DeleteFeature, TypeOK
<1>3. ASSUME NEW j \in Jobs, NEW f \in Features, NEW n \in Names,
             RenameFeature(j, f, n)
      PROVE TypeOK'
    <2> DEFINE r == [step |-> "named", feature |-> f, from |-> name[f],
                     to |-> n, restoring |-> FALSE]
    <2>1. r \in RenameJobs
        BY <1>3 DEF RenameFeature, Exists, TypeOK, RenameJobs
    <2>2. job' \in [Jobs -> {Idle} \cup RenameJobs \cup FileJobs]
        BY <1>3, <2>1, BeginType DEF RenameFeature
    <2> QED BY <1>3, <2>2 DEF RenameFeature, TypeOK
<1>4. ASSUME NEW j \in Jobs, NoFolder(j) \/ GiveUp(j) PROVE TypeOK'
    BY <1>4, EndType DEF NoFolder, GiveUp, TypeOK
<1>5. ASSUME NEW j \in Jobs, job[j].step \in {"named", "failed"}
      PROVE job[j] \in RenameJobs /\ OldFolder(j) \in Names /\ NewFolder(j) \in Names
    BY <1>5, JobKinds, SanitizeAssumption DEF RenameJobs, OldFolder, NewFolder
<1>6. ASSUME NEW j \in Jobs, NEW s \in {"moved", "failed"},
             job[j] \in RenameJobs, Continue(j, s)
      PROVE job' \in [Jobs -> {Idle} \cup RenameJobs \cup FileJobs]
    <2>1. [job[j] EXCEPT !.step = s] \in RenameJobs
        BY <1>6 DEF RenameJobs
    <2> QED BY <1>6, <2>1 DEF Continue, TypeOK
<1>7. ASSUME NEW j \in Jobs, MoveFolder(j) PROVE TypeOK'
    <2>1. job' \in [Jobs -> {Idle} \cup RenameJobs \cup FileJobs]
        BY <1>5, <1>6, <1>7 DEF MoveFolder
    <2>2. disk' \in [Paths -> Files \cup {None}]
        BY <1>5, <1>7 DEF MoveFolder, TypeOK, Paths
    <2> QED BY <1>5, <1>7, <2>1, <2>2 DEF MoveFolder, TypeOK
<1>8. ASSUME NEW j \in Jobs, MoveFails(j) PROVE TypeOK'
    <2>1. job' \in [Jobs -> {Idle} \cup RenameJobs \cup FileJobs]
        BY <1>5, <1>6, <1>8, EndType DEF MoveFails
    <2> QED BY <1>8, <2>1 DEF MoveFails, TypeOK
<1>9. ASSUME NEW j \in Jobs, UpdatePaths(j) PROVE TypeOK'
    <2>1. NewFolder(j) \in Names
        BY <1>9, JobKinds, SanitizeAssumption DEF UpdatePaths, NewFolder, RenameJobs
    <2>2. ASSUME NEW r \in InOldFolder(j)
          PROVE [row[r] EXCEPT !.path[1] = NewFolder(j)] \in Rows
        BY <2>1, <2>2 DEF InOldFolder, TypeOK, Rows, Paths
    <2>3. row' \in [Files -> Rows \cup {None}]
        BY <1>9, <2>2 DEF UpdatePaths, TypeOK
    <2> QED BY <1>9, <2>3, EndType DEF UpdatePaths, TypeOK
<1>10. ASSUME NEW j \in Jobs, RestoreName(j) PROVE TypeOK'
    <2>1. job[j] \in RenameJobs
        BY <1>5, <1>10 DEF RestoreName
    <2>2. job' \in [Jobs -> {Idle} \cup RenameJobs \cup FileJobs]
        BY <1>10, <2>1, EndType DEF RestoreName, TypeOK, RenameJobs
    <2>3. name' \in [Features -> Names \cup {None}]
        BY <1>10, <2>1 DEF RestoreName, TypeOK, RenameJobs
    <2> QED BY <1>10, <2>2, <2>3 DEF RestoreName, TypeOK
<1>11. ASSUME NEW s \in {"stored", "unlinked", "copied", "removed"},
              NEW f \in Features, NEW r \in Files, NEW p \in Paths
       PROVE FileJob(s, f, r, p) \in RenameJobs \cup FileJobs
    BY DEF FileJob, FileJobs
<1>12. ASSUME NEW j \in Jobs, NEW f \in Features, NEW r \in Files, NEW b \in Bases,
              Upload(j, f, r, b)
       PROVE TypeOK'
    <2>1. name[f] \in Names /\ <<name[f], b>> \in Paths
        BY <1>12 DEF Upload, Exists, TypeOK, Paths
    <2>2. job' \in [Jobs -> {Idle} \cup RenameJobs \cup FileJobs]
        BY <1>11, <1>12, <2>1, BeginType DEF Upload
    <2> QED BY <1>12, <2>1, <2>2 DEF Upload, TypeOK
<1>13. ASSUME NEW j \in Jobs, InsertRow(j) \/ Repoint(j) PROVE TypeOK'
    <2>1. job[j] \in FileJobs
        BY <1>13, JobKinds DEF InsertRow, Repoint
    <2>2. RowFor(job[j].feature, job[j].to) \in Rows
        BY <2>1 DEF FileJobs, RowFor, Rows
    <2>3. row' \in [Files -> Rows \cup {None}]
        BY <1>13, <2>2 DEF InsertRow, Repoint, TypeOK
    <2> QED BY <1>13, <2>3, EndType DEF InsertRow, Repoint, TypeOK
<1>14. ASSUME NEW j \in Jobs, NEW r \in Files, Unlink(j, r) PROVE TypeOK'
    <2>1. row[r].owner \in Features /\ row[r].path \in Paths
        BY <1>14, RowPaths DEF Unlink
    <2>2. job' \in [Jobs -> {Idle} \cup RenameJobs \cup FileJobs]
        BY <1>11, <1>14, <2>1, BeginType DEF Unlink
    <2> QED BY <1>14, <2>1, <2>2 DEF Unlink, TypeOK
<1>15. ASSUME NEW j \in Jobs, DeleteRow(j) PROVE TypeOK'
    BY <1>15, EndType DEF DeleteRow, TypeOK
<1>16. ASSUME NEW j \in Jobs, NEW r \in Files, NEW f \in Features,
              NEW p \in Paths, Copy(j, r, f, p)
       PROVE TypeOK'
    <2>1. disk[row[r].path] \in Files \cup {None} /\ p[1] \in Names
        BY <1>16, RowPaths DEF Copy, TypeOK, Paths
    <2>2. job' \in [Jobs -> {Idle} \cup RenameJobs \cup FileJobs]
        BY <1>11, <1>16, BeginType DEF Copy
    <2> QED BY <1>16, <2>1, <2>2 DEF Copy, TypeOK
<1>17. ASSUME NEW j \in Jobs, NEW r \in Files, NEW b \in Bases, RenameFile(j, r, b)
       PROVE TypeOK'
    <2>1. row[r].owner \in Features /\ <<row[r].path[1], b>> \in Paths
        BY <1>17, RowPaths DEF RenameFile, Paths
    <2> QED BY <1>16, <1>17, <2>1 DEF RenameFile
<1>18. ASSUME NEW r \in Files, NEW f \in Features, row[r] # None, Exists(f)
       PROVE <<Sanitize[name[f]], row[r].path[2]>> \in Paths
    BY <1>18, RowPaths, SanitizeAssumption DEF Exists, TypeOK, Paths
<1>19. ASSUME NEW j \in Jobs, NEW r \in Files, NEW f \in Features, MoveFile(j, r, f)
       PROVE TypeOK'
    BY <1>16, <1>18, <1>19 DEF MoveFile
<1>20. ASSUME NEW j \in Jobs, NEW r \in Files, NEW f \in Features,
              MoveMissingFile(j, r, f)
       PROVE TypeOK'
    <2>1. job' \in [Jobs -> {Idle} \cup RenameJobs \cup FileJobs]
        BY <1>11, <1>18, <1>20, BeginType DEF MoveMissingFile
    <2> QED BY <1>20, <2>1 DEF MoveMissingFile, TypeOK
<1>21. ASSUME NEW j \in Jobs, RemoveOld(j) PROVE TypeOK'
    <2>1. job[j] \in FileJobs
        BY <1>21, JobKinds DEF RemoveOld
    <2>2. [job[j] EXCEPT !.step = "removed"] \in FileJobs
        BY <2>1 DEF FileJobs
    <2> QED BY <1>21, <2>2 DEF RemoveOld, Continue, TypeOK
<1>22. ASSUME NEW j \in Jobs, Kill(j) PROVE TypeOK'
    BY <1>22, EndType DEF Kill, TypeOK
<1>23. CASE UNCHANGED vars
    BY <1>23 DEF vars, TypeOK
<1> QED
    BY <1>1, <1>2, <1>3, <1>4, <1>7, <1>8, <1>9, <1>10, <1>12, <1>13, <1>14,
       <1>15, <1>17, <1>19, <1>20, <1>21, <1>22, <1>23 DEF Next

(* Every reachable state is well typed, with any number of requests.        *)
THEOREM FoldersTypeCorrect == Spec => []TypeOK
<1>1. Init => TypeOK
    BY DEF Init, TypeOK
<1> QED BY <1>1, TypeStep, PTL DEF Spec
-----------------------------------------------------------------------------
(* Why renaming and moving lose no bytes.  Files lie in folders that exist, *)
(* so a folder is never moved over a file; and between the copy of a file   *)
(* and the removal of the original both paths hold its bytes.               *)
FilesInFolders == \A p \in Paths : disk[p] # None => p[1] \in dirs

CopyIsThere ==
    \A j \in Jobs : job[j].step = "copied" =>
        /\ row[job[j].file] # None
        /\ job[j].to # row[job[j].file].path
        /\ disk[job[j].to] = disk[row[job[j].file].path]

BytesInv == TypeOK /\ FilesInFolders /\ CopyIsThere

(* Every step keeps files in folders that exist. *)
LEMMA FilesInFoldersStep == TypeOK /\ FilesInFolders /\ [Next]_vars => FilesInFolders'
<1> SUFFICES ASSUME TypeOK, FilesInFolders, [Next]_vars PROVE FilesInFolders'
    OBVIOUS
<1>1. ASSUME UNCHANGED <<dirs, disk>> PROVE FilesInFolders'
    BY <1>1 DEF FilesInFolders
(* One file appears in a folder, which is made if it is not there. *)
<1>2. ASSUME NEW p \in Paths, NEW v, disk' = [disk EXCEPT ![p] = v],
             dirs' = dirs \cup {p[1]}
      PROVE FilesInFolders'
    BY <1>2 DEF FilesInFolders, TypeOK
(* A file is gone. *)
<1>3. ASSUME NEW p, disk' = [disk EXCEPT ![p] = None], dirs' = dirs
      PROVE FilesInFolders'
    BY <1>3 DEF FilesInFolders, TypeOK
<1>4. ASSUME NEW j \in Jobs, MoveFolder(j) PROVE FilesInFolders'
    <2> SUFFICES ASSUME NEW p \in Paths, disk'[p] # None PROVE p[1] \in dirs'
        BY DEF FilesInFolders
    <2>1. CASE p[1] = NewFolder(j)
        BY <1>4, <2>1 DEF MoveFolder
    <2>2. CASE p[1] # NewFolder(j)
        <3>1. p[1] # OldFolder(j) /\ disk[p] # None
            BY <1>4, <2>2 DEF MoveFolder
        <3> QED BY <1>4, <3>1 DEF MoveFolder, FilesInFolders
    <2> QED BY <2>1, <2>2
<1>5. ASSUME NEW j \in Jobs, NEW f \in Features, NEW r \in Files, NEW b \in Bases,
             Upload(j, f, r, b)
      PROVE FilesInFolders'
    <2>1. <<name[f], b>> \in Paths
        BY <1>5 DEF Upload, Exists, TypeOK, Paths
    <2> QED BY <1>2, <1>5, <2>1 DEF Upload
<1>6. ASSUME NEW j \in Jobs, NEW r \in Files, NEW f, NEW p \in Paths,
             Copy(j, r, f, p)
      PROVE FilesInFolders'
    BY <1>2, <1>6 DEF Copy
<1>7. ASSUME NEW j \in Jobs, NEW r \in Files, NEW b \in Bases, RenameFile(j, r, b)
      PROVE FilesInFolders'
    <2>1. <<row[r].path[1], b>> \in Paths
        BY <1>7, RowPaths DEF RenameFile, Paths
    <2> QED BY <1>6, <1>7, <2>1 DEF RenameFile
<1>8. ASSUME NEW j \in Jobs, NEW r \in Files, NEW f \in Features, MoveFile(j, r, f)
      PROVE FilesInFolders'
    <2>1. <<Sanitize[name[f]], row[r].path[2]>> \in Paths
        BY <1>8, RowPaths, SanitizeAssumption DEF MoveFile, Exists, TypeOK, Paths
    <2> QED BY <1>6, <1>8, <2>1 DEF MoveFile
<1>9. ASSUME NEW j \in Jobs, RemoveOld(j) PROVE FilesInFolders'
    BY <1>3, <1>9 DEF RemoveOld
<1>10. ASSUME NEW j \in Jobs, NEW r \in Files, Unlink(j, r) PROVE FilesInFolders'
    BY <1>3, <1>10 DEF Unlink
<1>11. ASSUME NEW j \in Jobs,
              \/ NoFolder(j) \/ MoveFails(j) \/ UpdatePaths(j) \/ RestoreName(j)
              \/ GiveUp(j) \/ InsertRow(j) \/ DeleteRow(j) \/ Repoint(j) \/ Kill(j)
       PROVE FilesInFolders'
    BY <1>1, <1>11 DEF NoFolder, MoveFails, UpdatePaths, RestoreName, GiveUp,
                       InsertRow, DeleteRow, Repoint, Kill
<1>12. ASSUME NEW j \in Jobs, NEW f \in Features, NEW n \in Names,
              RenameFeature(j, f, n)
       PROVE FilesInFolders'
    BY <1>1, <1>12 DEF RenameFeature
<1>13. ASSUME NEW j \in Jobs, NEW r \in Files, NEW f \in Features,
              MoveMissingFile(j, r, f)
       PROVE FilesInFolders'
    BY <1>1, <1>13 DEF MoveMissingFile
<1>14. ASSUME NEW f \in Features, NEW n \in Names, CreateFeature(f, n)
       PROVE FilesInFolders'
    BY <1>1, <1>14 DEF CreateFeature
<1>15. ASSUME NEW f \in Features, DeleteFeature(f) PROVE FilesInFolders'
    BY <1>1, <1>15 DEF DeleteFeature
<1>16. CASE UNCHANGED vars
    BY <1>1, <1>16 DEF vars
<1> QED
    BY <1>4, <1>5, <1>7, <1>8, <1>9, <1>10, <1>11, <1>12, <1>13, <1>14, <1>15,
       <1>16 DEF Next

(* Requests come one at a time, so nothing happens to a file between its    *)
(* copy and its removal but the deletion of a feature.                      *)
LEMMA CopyStep ==
    ASSUME OneJob, BytesInv, [Next]_vars PROVE CopyIsThere'
<1> SUFFICES ASSUME NEW j \in Jobs, job'[j].step = "copied"
             PROVE /\ row'[job'[j].file] # None
                   /\ job'[j].to # row'[job'[j].file].path
                   /\ disk'[job'[j].to] = disk'[row'[job'[j].file].path]
    BY DEF CopyIsThere
<1>1. TypeOK /\ \A i \in Jobs : i = j
    BY DEF BytesInv, OneJob
<1>2. ASSUME UNCHANGED <<job, row, disk>>
      PROVE /\ row'[job'[j].file] # None
            /\ job'[j].to # row'[job'[j].file].path
            /\ disk'[job'[j].to] = disk'[row'[job'[j].file].path]
    BY <1>2 DEF BytesInv, CopyIsThere
<1>3. ASSUME NEW r \in Files, NEW f, NEW p \in Paths, Copy(j, r, f, p)
      PROVE /\ row'[job'[j].file] # None
            /\ job'[j].to # row'[job'[j].file].path
            /\ disk'[job'[j].to] = disk'[row'[job'[j].file].path]
    <2>1. job'[j] = FileJob("copied", f, r, p)
        BY <1>1, <1>3 DEF Copy, Begin, TypeOK
    <2>2. job'[j].file = r /\ job'[j].to = p
        BY <2>1 DEF FileJob
    <2>3. p # row[r].path /\ row[r].path \in Paths
        BY <1>1, <1>3, RowPaths DEF Copy
    <2> QED BY <1>1, <1>3, <2>2, <2>3 DEF Copy, TypeOK
<1>4. ASSUME NEW i \in Jobs, End(i) PROVE FALSE
    BY <1>1, <1>4 DEF End, TypeOK, Idle
<1>5. ASSUME NEW i \in Jobs, NEW rec, rec.step # "copied", Begin(i, rec) PROVE FALSE
    BY <1>1, <1>5 DEF Begin, TypeOK
<1>6. ASSUME NEW i \in Jobs, NEW s \in {"moved", "failed", "removed"},
             job[i] \in RenameJobs \cup FileJobs, Continue(i, s)
      PROVE FALSE
    <2>1. job'[i] = [job[i] EXCEPT !.step = s]
        BY <1>6, <1>1 DEF Continue, TypeOK
    <2>2. job'[i].step = s
        BY <1>6, <2>1 DEF RenameJobs, FileJobs
    <2> QED BY <1>1, <1>6, <2>2
<1>7. CASE \E i \in Jobs : \/ NoFolder(i) \/ UpdatePaths(i) \/ GiveUp(i) \/ InsertRow(i)
                           \/ DeleteRow(i) \/ Repoint(i) \/ Kill(i)
    BY <1>4, <1>7 DEF NoFolder, UpdatePaths, GiveUp, InsertRow, DeleteRow,
                      Repoint, Kill
<1>8. CASE \E i \in Jobs : MoveFolder(i) \/ MoveFails(i)
    BY <1>1, <1>4, <1>6, <1>8, JobKinds DEF MoveFolder, MoveFails
<1>9. CASE \E i \in Jobs : RestoreName(i)
    <2>1. PICK i \in Jobs : RestoreName(i)
        BY <1>9
    <2>2. ~End(i)
        BY <1>4
    <2>3. job' = [job EXCEPT ![i].step = "named", ![i].from = job[i].to,
                             ![i].to = job[i].from, ![i].restoring = TRUE]
        BY <2>1, <2>2 DEF RestoreName
    <2>4. job[i] \in RenameJobs
        BY <1>1, <2>1, JobKinds DEF RestoreName
    <2>5. job'[i].step = "named"
        BY <1>1, <2>3, <2>4 DEF TypeOK, RenameJobs
    <2> QED BY <1>1, <2>5
<1>10. CASE \E i \in Jobs : RemoveOld(i)
    BY <1>1, <1>6, <1>10, JobKinds DEF RemoveOld
<1>11. CASE \E i \in Jobs, f \in Features, n \in Names : RenameFeature(i, f, n)
    BY <1>5, <1>11 DEF RenameFeature
<1>12. CASE \E i \in Jobs, r \in Files :
               \/ \E f \in Features, b \in Bases : Upload(i, f, r, b)
               \/ Unlink(i, r)
               \/ \E f \in Features : MoveMissingFile(i, r, f)
    <2>1. ASSUME NEW i \in Jobs, NEW step \in {"stored", "unlinked", "removed"},
                 NEW f, NEW r, NEW p, Begin(i, FileJob(step, f, r, p))
          PROVE FALSE
        <3>1. FileJob(step, f, r, p).step # "copied"
            BY DEF FileJob
        <3> QED BY <1>5, <2>1, <3>1
    <2>2. ASSUME NEW i \in Jobs, NEW r \in Files, NEW f \in Features, NEW b \in Bases,
                 Upload(i, f, r, b)
          PROVE FALSE
        BY <2>1, <2>2 DEF Upload
    <2>3. ASSUME NEW i \in Jobs, NEW r \in Files, Unlink(i, r) PROVE FALSE
        BY <2>1, <2>3 DEF Unlink
    <2>4. ASSUME NEW i \in Jobs, NEW r \in Files, NEW f \in Features,
                 MoveMissingFile(i, r, f)
          PROVE FALSE
        BY <2>1, <2>4 DEF MoveMissingFile
    <2> QED BY <1>12, <2>2, <2>3, <2>4
<1>13. CASE \E i \in Jobs, r \in Files, b \in Bases : RenameFile(i, r, b)
    <2>1. PICK r \in Files, b \in Bases : RenameFile(j, r, b)
        BY <1>1, <1>13
    <2>2. <<row[r].path[1], b>> \in Paths
        BY <1>1, <2>1, RowPaths DEF RenameFile, Paths
    <2> QED BY <1>3, <2>1, <2>2 DEF RenameFile
<1>14. CASE \E i \in Jobs, r \in Files, f \in Features : MoveFile(i, r, f)
    <2>1. PICK r \in Files, f \in Features : MoveFile(j, r, f)
        BY <1>1, <1>14
    <2>2. <<Sanitize[name[f]], row[r].path[2]>> \in Paths
        BY <1>1, <2>1, RowPaths, SanitizeAssumption DEF MoveFile, Exists, TypeOK, Paths
    <2> QED BY <1>3, <2>1, <2>2 DEF MoveFile
<1>15. CASE \E f \in Features : DeleteFeature(f) \/ \E n \in Names : CreateFeature(f, n)
    BY <1>2, <1>15 DEF DeleteFeature, CreateFeature
<1>16. CASE UNCHANGED vars
    BY <1>2, <1>16 DEF vars
<1> QED
    BY <1>7, <1>8, <1>9, <1>10, <1>11, <1>12, <1>13, <1>14, <1>15, <1>16 DEF Next

(* With one request at a time the bytes are accounted for, always. *)
LEMMA BytesInvariant == ASSUME OneJob PROVE Spec => []BytesInv
<1>1. Init => BytesInv
    BY DEF Init, BytesInv, TypeOK, FilesInFolders, CopyIsThere, Idle
<1>2. BytesInv /\ [Next]_vars => BytesInv'
    BY TypeStep, FilesInFoldersStep, CopyStep DEF BytesInv
<1> QED BY <1>1, <1>2, PTL DEF Spec

(* The bytes a step takes away are those of a DELETE, or of a file that an  *)
(* upload overwrites.                                                       *)
Overwritten(j) == job'[j] # job[j] /\ job'[j].step \in {"unlinked", "stored"}

(* With one request at a time no step destroys the last copy. *)
LEMMA BytesStep ==
    ASSUME BytesInv, [Next]_vars, NEW r \in Files, OnDisk(r), ~OnDisk(r)'
    PROVE  \E j \in Jobs : Overwritten(j)
<1>1. TypeOK /\ r # None
    BY NoneAssumption DEF BytesInv
<1>2. PICK p \in Paths : disk[p] = r
    BY DEF OnDisk
<1>3. \A q \in Paths : disk'[q] # r
    BY DEF OnDisk
<1>4. disk' # disk
    BY <1>2, <1>3
<1>5. ASSUME NEW j \in Jobs, NEW step \in {"unlinked", "stored"}, NEW f, NEW q, NEW s,
             Begin(j, FileJob(step, f, q, s))
      PROVE Overwritten(j)
    <2>1. job[j].step = "idle" /\ job'[j] = FileJob(step, f, q, s)
        BY <1>1, <1>5 DEF Begin, TypeOK
    <2>2. job'[j].step = step
        BY <2>1 DEF FileJob
    <2> QED BY <2>1, <2>2 DEF Overwritten
<1>6. CASE \E j \in Jobs, f \in Features, q \in Files, b \in Bases : Upload(j, f, q, b)
    BY <1>5, <1>6 DEF Upload
<1>7. CASE \E j \in Jobs, q \in Files : Unlink(j, q)
    BY <1>5, <1>7 DEF Unlink
(* A copy goes to a free path. *)
<1>8. ASSUME NEW j \in Jobs, NEW q, NEW f, NEW s, Copy(j, q, f, s) PROVE FALSE
    <2>1. p # s
        BY <1>1, <1>2, <1>8 DEF Copy
    <2>2. disk'[p] = r
        BY <1>1, <1>2, <1>8, <2>1 DEF Copy, TypeOK
    <2> QED BY <1>3, <2>2
<1>9. CASE \E j \in Jobs, q \in Files :
              \/ \E b \in Bases : RenameFile(j, q, b)
              \/ \E f \in Features : MoveFile(j, q, f)
    BY <1>8, <1>9 DEF RenameFile, MoveFile
(* A removed original has a copy. *)
<1>10. ASSUME NEW j \in Jobs, RemoveOld(j) PROVE FALSE
    <2> DEFINE old == row[job[j].file].path
    <2>1. job[j].to # old /\ disk[job[j].to] = disk[old]
        BY <1>10 DEF RemoveOld, BytesInv, CopyIsThere
    <2>2. job[j].to \in Paths
        BY <1>1, <1>10, JobKinds DEF RemoveOld, FileJobs
    <2>3. disk' = [disk EXCEPT ![old] = None]
        BY <1>10 DEF RemoveOld
    <2>4. CASE p = old
        BY <1>1, <1>2, <1>3, <2>1, <2>2, <2>3, <2>4 DEF TypeOK
    <2>5. CASE p # old
        BY <1>1, <1>2, <1>3, <2>3, <2>5 DEF TypeOK
    <2> QED BY <2>4, <2>5
(* A folder is moved to a place where nothing lies, with all its files. *)
<1>11. ASSUME NEW j \in Jobs, MoveFolder(j) PROVE FALSE
    <2>1. OldFolder(j) # NewFolder(j) /\ p[1] # NewFolder(j)
        BY <1>1, <1>2, <1>11 DEF MoveFolder, BytesInv, FilesInFolders
    <2>2. NewFolder(j) \in Names
        BY <1>1, <1>11, JobKinds, SanitizeAssumption
           DEF MoveFolder, NewFolder, RenameJobs
    <2>3. CASE p[1] = OldFolder(j)
        <3>1. <<NewFolder(j), p[2]>> \in Paths /\ p = <<OldFolder(j), p[2]>>
            BY <2>2, <2>3 DEF Paths
        <3> DEFINE q == <<NewFolder(j), p[2]>>
        <3>2. disk'[q] = disk[<<OldFolder(j), q[2]>>]
            BY <1>11, <3>1 DEF MoveFolder
        <3> QED BY <1>2, <1>3, <3>1, <3>2
    <2>4. CASE p[1] # OldFolder(j)
        BY <1>2, <1>3, <1>11, <2>1, <2>4 DEF MoveFolder
    <2> QED BY <2>3, <2>4
<1>12. ASSUME NEW j \in Jobs,
              \/ NoFolder(j) \/ MoveFails(j) \/ UpdatePaths(j) \/ RestoreName(j)
              \/ GiveUp(j) \/ InsertRow(j) \/ DeleteRow(j) \/ Repoint(j) \/ Kill(j)
       PROVE FALSE
    BY <1>4, <1>12 DEF NoFolder, MoveFails, UpdatePaths, RestoreName, GiveUp,
                       InsertRow, DeleteRow, Repoint, Kill
<1>13. ASSUME NEW j \in Jobs, NEW f \in Features, NEW n \in Names,
              RenameFeature(j, f, n)
       PROVE FALSE
    BY <1>4, <1>13 DEF RenameFeature
<1>14. ASSUME NEW j \in Jobs, NEW q \in Files, NEW f \in Features,
              MoveMissingFile(j, q, f)
       PROVE FALSE
    BY <1>4, <1>14 DEF MoveMissingFile
<1>15. ASSUME NEW f \in Features, NEW n \in Names, CreateFeature(f, n) PROVE FALSE
    BY <1>4, <1>15 DEF CreateFeature
<1>16. ASSUME NEW f \in Features, DeleteFeature(f) PROVE FALSE
    BY <1>4, <1>16 DEF DeleteFeature
<1>17. CASE UNCHANGED vars
    BY <1>4, <1>17 DEF vars
<1> QED
    BY <1>6, <1>7, <1>9, <1>10, <1>11, <1>12, <1>13, <1>14, <1>15, <1>16, <1>17
       DEF Next

(* Renames and moves of files and features lose no bytes, with requests     *)
(* killed between any two of their operations, when they come one at a time.*)
THEOREM NoBytesLost == ASSUME OneJob PROVE Spec => BytesSurvive
<1>1. BytesInv /\ [Next]_vars =>
         [\A r \in Files : OnDisk(r) /\ ~OnDisk(r)' =>
             \E j \in Jobs : job'[j] # job[j]
                             /\ job'[j].step \in {"unlinked", "stored"}]_vars
    BY BytesStep DEF Overwritten
<1> QED BY <1>1, BytesInvariant, PTL DEF Spec, BytesSurvive
-----------------------------------------------------------------------------
(* A rename whose rows still name the old folder, and one whose folder is   *)
(* still there.                                                             *)
RowsBehind(j) == job[j].step \in {"named", "failed", "moved"} /\ ~job[j].restoring
FolderBehind(j) == RowsBehind(j) /\ job[j].step # "moved"

RowFolder(j, f) ==
    IF RowsBehind(j) /\ job[j].feature = f THEN job[j].from ELSE name[f]
DiskFolder(j, f) ==
    IF FolderBehind(j) /\ job[j].feature = f THEN job[j].from ELSE name[f]

NamesDistinct == \A f, g \in Features : Exists(f) /\ name[f] = name[g] => f = g

(* The old name of a feature stays free until its rename is over, and there *)
(* is no folder where the rename would move one.                            *)
RenameUnderWay(j) ==
    job[j].step \in {"named", "moved", "failed"} =>
        /\ name[job[j].feature] = job[j].to
        /\ ~Taken(job[j].from)
        /\ FolderBehind(j) => job[j].to \notin dirs
        /\ ~FolderBehind(j) => job[j].from \notin dirs
        /\ job[j].restoring => job[j].step = "named"

RowsFollow(j) ==
    \A r \in Files : row[r] # None =>
        /\ Exists(row[r].owner)
        /\ row[r].path[1] = RowFolder(j, row[r].owner)

(* Only a request that is about to change the row has taken its bytes.      *)
Expected(j, r) ==
    row[r] # None /\ ~(job[j].step \in {"unlinked", "removed"} /\ job[j].file = r)

BytesFollow(j) ==
    \A r \in Files : Expected(j, r) =>
        disk[<<DiskFolder(j, row[r].owner), row[r].path[2]>>] # None

FoldersOwned(j) ==
    \A d \in dirs : \E f \in Features : Exists(f) /\ DiskFolder(j, f) = d

RowsDistinct ==
    \A q, r \in Files : row[q] # None /\ row[r] # None /\ row[q].path = row[r].path
                            => q = r

(* The bytes of a new file, or of a copy, wait in the folder of the feature *)
(* they are for; no row leads to a copy yet.                                *)
FileUnderWay(j) ==
    /\ job[j].step \in {"stored", "copied", "removed"} =>
          /\ Exists(job[j].feature) /\ job[j].to[1] = name[job[j].feature]
          /\ disk[job[j].to] # None
    /\ job[j].step \in {"copied", "removed"} =>
          /\ row[job[j].file] # None
          /\ \A r \in Files : row[r] # None => row[r].path # job[j].to

Home(j) ==
    /\ NamesDistinct /\ RenameUnderWay(j)
    /\ RowsFollow(j) /\ BytesFollow(j)
    /\ FoldersOwned(j) /\ RowsDistinct /\ FileUnderWay(j)

(* Names of which sanitize_filename changes nothing. *)
PlainNames == \A n \in Names : Sanitize[n] = n

RenameSteps == {"named", "moved", "failed"}

(* Without a rename every feature's files are in the folder of its name.    *)
LEMMA NoRename ==
    ASSUME NEW j \in Jobs, job[j].step \notin RenameSteps
    PROVE  /\ \A f : RowFolder(j, f) = name[f] /\ DiskFolder(j, f) = name[f]
           /\ ~RowsBehind(j) /\ ~FolderBehind(j)
BY DEF RenameSteps, RowFolder, DiskFolder, RowsBehind, FolderBehind

(* The same after a step. *)
LEMMA NoRenameNext ==
    ASSUME NEW j \in Jobs, job'[j].step \notin RenameSteps
    PROVE  /\ \A f : RowFolder(j, f)' = name'[f] /\ DiskFolder(j, f)' = name'[f]
           /\ ~RowsBehind(j)' /\ ~FolderBehind(j)' /\ RenameUnderWay(j)'
BY DEF RenameSteps, RowFolder, DiskFolder, RowsBehind, FolderBehind, RenameUnderWay

(* A row without a rename: where its path and its bytes are. *)
LEMMA RowAtHome ==
    ASSUME TypeOK, NEW j \in Jobs, Home(j), job[j].step \notin RenameSteps,
           NEW r \in Files, row[r] # None
    PROVE  /\ row[r].owner \in Features /\ name[row[r].owner] \in Names
           /\ row[r].path \in Paths
           /\ row[r].path = <<name[row[r].owner], row[r].path[2]>>
           /\ Expected(j, r) => disk[row[r].path] # None
<1>1. row[r].owner \in Features /\ row[r].path \in Paths
    BY RowPaths
<1>2. Exists(row[r].owner) /\ row[r].path[1] = name[row[r].owner]
    BY NoRename DEF Home, RowsFollow
<1>3. row[r].path = <<name[row[r].owner], row[r].path[2]>>
    BY <1>1, <1>2 DEF Paths
<1>4. name[row[r].owner] \in Names
    BY <1>1, <1>2 DEF Exists, TypeOK
<1>5. Expected(j, r) => disk[row[r].path] # None
    BY <1>3, NoRename DEF Home, BytesFollow
<1> QED BY <1>1, <1>3, <1>4, <1>5

(* The rows of a feature keep their bytes when only bytes are added.        *)
LEMMA HomeUpload ==
    ASSUME TypeOK, NEW j \in Jobs, Home(j),
           NEW f \in Features, NEW r \in Files, NEW b \in Bases, Upload(j, f, r, b)
    PROVE  Home(j)'
<1> DEFINE p == <<name[f], b>>
<1>1. /\ job[j].step = "idle" /\ job'[j] = FileJob("stored", f, r, p)
      /\ Exists(f) /\ p \in Paths
    BY DEF Upload, Begin, TypeOK, Exists, Paths
<1>2. /\ job'[j].step = "stored" /\ job'[j].feature = f /\ job'[j].to = p
    BY <1>1 DEF FileJob
<1>3. job[j].step \notin RenameSteps /\ job'[j].step \notin RenameSteps
    BY <1>1, <1>2 DEF RenameSteps
<1>4. UNCHANGED <<name, row>> /\ dirs' = dirs \cup {name[f]}
      /\ disk' = [disk EXCEPT ![p] = r]
    BY DEF Upload
<1>5. r # None
    BY NoneAssumption
<1>6. NamesDistinct' /\ RowsDistinct'
    BY <1>4 DEF Home, NamesDistinct, RowsDistinct, Exists
<1>7. RowsFollow(j)'
    BY <1>3, <1>4, NoRename, NoRenameNext DEF Home, RowsFollow, Exists
<1>8. BytesFollow(j)'
    <2> SUFFICES ASSUME NEW q \in Files, row[q] # None
                 PROVE  disk'[<<name[row[q].owner], row[q].path[2]>>] # None
        BY <1>3, <1>4, NoRenameNext DEF BytesFollow, Expected
    <2>1. disk[row[q].path] # None
        BY <1>1, <1>3, RowAtHome DEF Expected
    <2> QED BY <1>3, <1>4, <1>5, <2>1, RowAtHome DEF TypeOK
<1>9. FoldersOwned(j)'
    BY <1>1, <1>3, <1>4, NoRename, NoRenameNext DEF Home, FoldersOwned, Exists
<1>10. FileUnderWay(j)'
    BY <1>1, <1>2, <1>4, <1>5 DEF FileUnderWay, TypeOK, Exists
<1> QED BY <1>3, <1>6, <1>7, <1>8, <1>9, <1>10, NoRenameNext DEF Home

(* A request for a new row ends: its bytes were there already. *)
LEMMA HomeInsertRow ==
    ASSUME TypeOK, NEW j \in Jobs, Home(j), InsertRow(j)
    PROVE  Home(j)'
<1>1. job[j].step = "stored" /\ job'[j].step = "idle" /\ UNCHANGED <<name, dirs, disk>>
    BY DEF InsertRow, End, TypeOK, Idle
<1>2. job[j].step \notin RenameSteps /\ job'[j].step \notin RenameSteps
    BY <1>1 DEF RenameSteps
<1> DEFINE f == job[j].feature
           p == job[j].to
           r == job[j].file
<1>3. f \in Features /\ r \in Files /\ p \in Paths
    BY <1>1, JobKinds DEF FileJobs
<1>4. Exists(f) /\ p[1] = name[f] /\ disk[p] # None
    BY <1>1 DEF Home, FileUnderWay
<1>5. ASSUME NEW q \in Files, row'[q] # None
      PROVE \/ row[q] # None /\ row'[q] = row[q]
            \/ q = r /\ row'[q].owner = f /\ row'[q].path = p /\ Unused(f, p)
    BY <1>3, <1>5 DEF InsertRow, TypeOK, RowFor
<1>6. NamesDistinct'
    BY <1>1 DEF Home, NamesDistinct, Exists
<1>7. RowsFollow(j)'
    BY <1>1, <1>2, <1>4, <1>5, NoRename, NoRenameNext DEF Home, RowsFollow, Exists
<1>8. BytesFollow(j)'
    <2> SUFFICES ASSUME NEW q \in Files, row'[q] # None
                 PROVE  disk[<<name[row'[q].owner], row'[q].path[2]>>] # None
        BY <1>1, <1>2, NoRenameNext DEF BytesFollow, Expected
    <2>1. CASE row[q] # None /\ row'[q] = row[q]
        BY <1>1, <1>2, <2>1, RowAtHome DEF Expected
    <2>2. CASE row'[q].owner = f /\ row'[q].path = p
        BY <1>3, <1>4, <2>2 DEF Paths
    <2> QED BY <1>5, <2>1, <2>2
<1>9. FoldersOwned(j)'
    BY <1>1, <1>2, NoRename, NoRenameNext DEF Home, FoldersOwned, Exists
<1>10. RowsDistinct'
    <2>1. ASSUME NEW q \in Files, row[q] # None, row[q].path = p, Unused(f, p)
          PROVE FALSE
        <3>1. row[q].owner = f
            BY <1>2, <1>3, <1>4, <2>1, RowAtHome DEF Home, NamesDistinct, Exists
        <3>2. row[q] = RowFor(f, p)
            BY <2>1, <3>1 DEF TypeOK, Rows, RowFor
        <3> QED BY <2>1, <3>2 DEF Unused
    <2> QED BY <1>5, <2>1 DEF Home, RowsDistinct
<1>11. FileUnderWay(j)'
    BY <1>1 DEF FileUnderWay
<1> QED BY <1>2, <1>6, <1>7, <1>8, <1>9, <1>10, <1>11, NoRenameNext DEF Home

(* A file that is taken away is not the file of another row. *)
LEMMA HomeUnlink ==
    ASSUME TypeOK, NEW j \in Jobs, Home(j), NEW r \in Files, Unlink(j, r)
    PROVE  Home(j)'
<1>1. /\ job[j].step = "idle" /\ UNCHANGED <<name, row, dirs>>
      /\ job'[j] = FileJob("unlinked", row[r].owner, r, row[r].path)
    BY DEF Unlink, Begin, TypeOK
<1>2. job'[j].step = "unlinked" /\ job'[j].file = r
    BY <1>1 DEF FileJob
<1>3. job[j].step \notin RenameSteps /\ job'[j].step \notin RenameSteps
    BY <1>1, <1>2 DEF RenameSteps
<1>4. NamesDistinct' /\ RowsDistinct' /\ FileUnderWay(j)'
    BY <1>1, <1>2 DEF Home, NamesDistinct, RowsDistinct, FileUnderWay, Exists
<1>5. RowsFollow(j)' /\ FoldersOwned(j)'
    BY <1>1, <1>3, NoRename, NoRenameNext DEF Home, RowsFollow, FoldersOwned, Exists
<1>6. BytesFollow(j)'
    <2> SUFFICES ASSUME NEW q \in Files, row[q] # None, q # r
                 PROVE  disk'[<<name[row[q].owner], row[q].path[2]>>] # None
        BY <1>1, <1>2, <1>3, NoRenameNext DEF BytesFollow, Expected
    <2>1. disk[row[q].path] # None /\ row[q].path # row[r].path
        BY <1>1, <1>3, RowAtHome DEF Expected, Unlink, Home, RowsDistinct
    <2> QED BY <1>3, <2>1, RowAtHome DEF Unlink, TypeOK
<1> QED BY <1>3, <1>4, <1>5, <1>6, NoRenameNext DEF Home

(* A row that goes leaves the others as they are. *)
LEMMA HomeDeleteRow ==
    ASSUME TypeOK, NEW j \in Jobs, Home(j), DeleteRow(j)
    PROVE  Home(j)'
<1>1. job[j].step = "unlinked" /\ job'[j].step = "idle" /\ UNCHANGED <<name, dirs, disk>>
    BY DEF DeleteRow, End, TypeOK, Idle
<1>2. job[j].step \notin RenameSteps /\ job'[j].step \notin RenameSteps
    BY <1>1 DEF RenameSteps
<1>3. ASSUME NEW q \in Files, row'[q] # None
      PROVE  row'[q] = row[q] /\ q # job[j].file
    BY <1>1, <1>3, JobKinds DEF DeleteRow, TypeOK, FileJobs
<1>4. NamesDistinct' /\ RowsDistinct' /\ FileUnderWay(j)'
    BY <1>1, <1>3 DEF Home, NamesDistinct, RowsDistinct, FileUnderWay, Exists
<1>5. RowsFollow(j)' /\ FoldersOwned(j)'
    BY <1>1, <1>2, <1>3, NoRename, NoRenameNext DEF Home, RowsFollow, FoldersOwned, Exists
<1>6. BytesFollow(j)'
    BY <1>1, <1>2, <1>3, NoRename, NoRenameNext DEF Home, BytesFollow, Expected
<1> QED BY <1>2, <1>4, <1>5, <1>6, NoRenameNext DEF Home

(* A file is copied to a place no row leads to. *)
LEMMA HomeCopy ==
    ASSUME TypeOK, NEW j \in Jobs, Home(j), NEW r \in Files, NEW f \in Features,
           NEW p \in Paths, Exists(f), p[1] = name[f], Copy(j, r, f, p)
    PROVE  Home(j)'
<1>1. /\ job[j].step = "idle" /\ job'[j] = FileJob("copied", f, r, p)
      /\ UNCHANGED <<name, row>>
    BY DEF Copy, Begin, TypeOK
<1>2. job'[j].step = "copied" /\ job'[j].feature = f /\ job'[j].to = p /\ job'[j].file = r
    BY <1>1 DEF FileJob
<1>3. job[j].step \notin RenameSteps /\ job'[j].step \notin RenameSteps
    BY <1>1, <1>2 DEF RenameSteps
<1>4. ASSUME NEW q \in Files, row[q] # None
      PROVE  disk[row[q].path] # None /\ row[q].path # p
    BY <1>1, <1>3, <1>4, RowAtHome DEF Expected, Copy
<1>5. NamesDistinct' /\ RowsDistinct'
    BY <1>1 DEF Home, NamesDistinct, RowsDistinct, Exists
<1>6. RowsFollow(j)' /\ FoldersOwned(j)'
    BY <1>1, <1>3, NoRename, NoRenameNext DEF Home, RowsFollow, FoldersOwned, Exists, Copy
<1>7. BytesFollow(j)'
    <2> SUFFICES ASSUME NEW q \in Files, row[q] # None
                 PROVE  disk'[<<name[row[q].owner], row[q].path[2]>>] # None
        BY <1>1, <1>3, NoRenameNext DEF BytesFollow, Expected
    <2> QED BY <1>3, <1>4, RowAtHome DEF Copy, TypeOK
<1>8. FileUnderWay(j)'
    BY <1>1, <1>2, <1>4 DEF FileUnderWay, Copy, TypeOK, Exists
<1> QED BY <1>3, <1>5, <1>6, <1>7, <1>8, NoRenameNext DEF Home

(* The removed original is neither the copy nor the file of another row. *)
LEMMA HomeRemoveOld ==
    ASSUME TypeOK, NEW j \in Jobs, Home(j), RemoveOld(j)
    PROVE  Home(j)'
<1> DEFINE r == job[j].file
<1>1. /\ job[j].step = "copied" /\ UNCHANGED <<name, row, dirs>>
      /\ job[j] \in FileJobs /\ r \in Files
    BY JobKinds DEF RemoveOld, FileJobs
<1>2. /\ job'[j].step = "removed" /\ job'[j].file = r
      /\ job'[j].feature = job[j].feature /\ job'[j].to = job[j].to
    BY <1>1 DEF RemoveOld, Continue, TypeOK, FileJobs
<1>3. job[j].step \notin RenameSteps /\ job'[j].step \notin RenameSteps
    BY <1>1, <1>2 DEF RenameSteps
<1>4. NamesDistinct' /\ RowsDistinct'
    BY <1>1 DEF Home, NamesDistinct, RowsDistinct, Exists
<1>5. RowsFollow(j)' /\ FoldersOwned(j)'
    BY <1>1, <1>3, NoRename, NoRenameNext DEF Home, RowsFollow, FoldersOwned, Exists
<1>6. row[r] # None /\ row[r].path # job[j].to
    BY <1>1 DEF Home, FileUnderWay
<1>7. BytesFollow(j)'
    <2> SUFFICES ASSUME NEW q \in Files, row[q] # None, q # r
                 PROVE  disk'[<<name[row[q].owner], row[q].path[2]>>] # None
        BY <1>1, <1>2, <1>3, NoRenameNext DEF BytesFollow, Expected
    <2>1. disk[row[q].path] # None /\ row[q].path # row[r].path
        BY <1>1, <1>3, <1>6, RowAtHome DEF Expected, Home, RowsDistinct
    <2> QED BY <1>3, <2>1, RowAtHome DEF RemoveOld, TypeOK
<1>8. job[j].to \in Paths
    BY <1>1 DEF FileJobs
<1>9. FileUnderWay(j)'
    BY <1>1, <1>2, <1>6, <1>8 DEF Home, FileUnderWay, RemoveOld, TypeOK, Exists
<1> QED BY <1>3, <1>4, <1>5, <1>7, <1>9, NoRenameNext DEF Home

(* The row is sent where the copy is. *)
LEMMA HomeRepoint ==
    ASSUME TypeOK, NEW j \in Jobs, Home(j), Repoint(j)
    PROVE  Home(j)'
<1> DEFINE f == job[j].feature
           p == job[j].to
           r == job[j].file
<1>1. /\ job[j].step = "removed" /\ job'[j].step = "idle"
      /\ UNCHANGED <<name, dirs, disk>>
      /\ f \in Features /\ r \in Files /\ p \in Paths
    BY JobKinds DEF Repoint, End, TypeOK, Idle, FileJobs
<1>2. job[j].step \notin RenameSteps /\ job'[j].step \notin RenameSteps
    BY <1>1 DEF RenameSteps
<1>3. /\ Exists(f) /\ p[1] = name[f] /\ disk[p] # None
      /\ \A q \in Files : row[q] # None => row[q].path # p
    BY <1>1 DEF Home, FileUnderWay
<1>4. Unused(f, p)
    BY <1>1, <1>3, NoneAssumption DEF Unused, RowFor, Rows
<1>5. row' = [row EXCEPT ![r] = RowFor(f, p)]
    BY <1>4 DEF Repoint
<1>6. ASSUME NEW q \in Files, row'[q] # None
      PROVE \/ q # r /\ row[q] # None /\ row'[q] = row[q]
            \/ q = r /\ row'[q].owner = f /\ row'[q].path = p
    BY <1>1, <1>5, <1>6 DEF TypeOK, RowFor
<1>7. NamesDistinct'
    BY <1>1 DEF Home, NamesDistinct, Exists
<1>8. RowsFollow(j)' /\ FoldersOwned(j)'
    BY <1>1, <1>2, <1>3, <1>6, NoRename, NoRenameNext
       DEF Home, RowsFollow, FoldersOwned, Exists
<1>9. BytesFollow(j)'
    <2> SUFFICES ASSUME NEW q \in Files, row'[q] # None
                 PROVE  disk[<<name[row'[q].owner], row'[q].path[2]>>] # None
        BY <1>1, <1>2, NoRenameNext DEF BytesFollow, Expected
    <2>1. CASE q # r /\ row[q] # None /\ row'[q] = row[q]
        BY <1>1, <1>2, <2>1, RowAtHome DEF Expected
    <2>2. CASE row'[q].owner = f /\ row'[q].path = p
        BY <1>1, <1>3, <2>2 DEF Paths
    <2> QED BY <1>6, <2>1, <2>2
<1>10. RowsDistinct'
    BY <1>3, <1>6 DEF Home, RowsDistinct
<1>11. FileUnderWay(j)'
    BY <1>1 DEF FileUnderWay
<1> QED BY <1>2, <1>7, <1>8, <1>9, <1>10, <1>11, NoRenameNext DEF Home

(* A new feature has no files. *)
LEMMA HomeCreate ==
    ASSUME TypeOK, NEW j \in Jobs, OneJob, Home(j),
           NEW f \in Features, NEW n \in Names, CreateFeature(f, n)
    PROVE  Home(j)'
<1>1. /\ job[j].step = "idle" /\ UNCHANGED <<row, dirs, disk, job>>
      /\ name[f] = None /\ name' = [name EXCEPT ![f] = n]
    BY DEF CreateFeature, OneJob, Exists
<1>2. job[j].step \notin RenameSteps /\ job'[j].step \notin RenameSteps
    BY <1>1 DEF RenameSteps
<1>3. NamesDistinct'
    BY <1>1 DEF Home, NamesDistinct, Exists, CreateFeature, Taken, TypeOK
<1>4. RowsDistinct' /\ FileUnderWay(j)'
    BY <1>1 DEF Home, RowsDistinct, FileUnderWay
<1>5. ASSUME NEW r \in Files, row[r] # None PROVE name'[row[r].owner] = name[row[r].owner]
    BY <1>1, <1>2, <1>5, RowAtHome DEF TypeOK, CreateFeature
<1>6. RowsFollow(j)'
    <2>1. None # n
        BY NoneAssumption
    <2> QED BY <1>1, <1>2, <1>5, <2>1, NoRename, NoRenameNext
               DEF Home, RowsFollow, Exists, TypeOK
<1>7. BytesFollow(j)'
    BY <1>1, <1>2, <1>5, NoRename, NoRenameNext DEF Home, BytesFollow, Expected
<1>8. FoldersOwned(j)'
    <2> SUFFICES ASSUME NEW d \in dirs PROVE \E g \in Features : name'[g] # None /\ name'[g] = d
        BY <1>1, <1>2, NoRenameNext DEF FoldersOwned, Exists
    <2>1. PICK g \in Features : name[g] # None /\ name[g] = d
        BY <1>2, NoRename DEF Home, FoldersOwned, Exists
    <2> QED BY <1>1, <2>1 DEF TypeOK
<1> QED BY <1>2, <1>3, <1>4, <1>6, <1>7, <1>8, NoRenameNext DEF Home

(* The feature has its new name, its rows and its folder the old one. *)
LEMMA HomeRenameFeature ==
    ASSUME TypeOK, NEW j \in Jobs, Home(j),
           NEW f \in Features, NEW n \in Names, RenameFeature(j, f, n)
    PROVE  Home(j)'
<1>1. /\ job[j].step = "idle" /\ UNCHANGED <<row, dirs, disk>>
      /\ name[f] # None /\ ~Taken(n) /\ name' = [name EXCEPT ![f] = n]
      /\ job'[j] = [step |-> "named", feature |-> f, from |-> name[f], to |-> n,
                    restoring |-> FALSE]
    BY DEF RenameFeature, Begin, TypeOK, Exists
<1>2. /\ job'[j].step = "named" /\ job'[j].feature = f
      /\ job'[j].from = name[f] /\ job'[j].to = n /\ ~job'[j].restoring
    BY <1>1
<1>3. job[j].step \notin RenameSteps
    BY <1>1 DEF RenameSteps
<1>4. /\ name \in [Features -> Names \cup {None}] /\ None # n
      /\ \A g \in Features : name'[g] = IF g = f THEN n ELSE name[g]
      /\ \A g \in Features : name[g] # n
      /\ \A g, h \in Features : name[g] # None /\ name[g] = name[h] => g = h
    BY <1>1, NoneAssumption DEF TypeOK, Taken, Home, NamesDistinct, Exists
<1>5. FolderBehind(j)' /\ RowsBehind(j)'
    BY <1>2 DEF FolderBehind, RowsBehind
<1>6. \A g \in Features : RowFolder(j, g)' = name[g] /\ DiskFolder(j, g)' = name[g]
    BY <1>2, <1>4, <1>5 DEF RowFolder, DiskFolder
<1>7. NamesDistinct'
    BY <1>4 DEF NamesDistinct, Exists
<1>8. RenameUnderWay(j)'
    <2>1. n \notin dirs
        BY <1>3, <1>4, NoRename DEF Home, FoldersOwned, Exists
    <2>2. \A g \in Features : name'[g] # name[f]
        BY <1>1, <1>4
    <2>3. name'[f] = n
        BY <1>4
    <2> QED BY <1>1, <1>2, <1>5, <2>1, <2>2, <2>3 DEF RenameUnderWay, Taken
<1>9. \A r \in Files : row[r] # None => row[r].owner \in Features
    BY RowPaths
<1>10. RowsFollow(j)'
    BY <1>1, <1>3, <1>4, <1>6, <1>9, NoRename DEF Home, RowsFollow, Exists
<1>11. BytesFollow(j)'
    BY <1>1, <1>2, <1>3, <1>6, <1>9, NoRename DEF Home, BytesFollow, Expected
<1>12. FoldersOwned(j)'
    BY <1>1, <1>3, <1>4, <1>6, NoRename DEF Home, FoldersOwned, Exists
<1>13. RowsDistinct' /\ FileUnderWay(j)'
    BY <1>1, <1>2 DEF Home, RowsDistinct, FileUnderWay
<1> QED BY <1>7, <1>8, <1>10, <1>11, <1>12, <1>13 DEF Home

(* What is known of a rename under way. *)
LEMMA RenameFacts ==
    ASSUME TypeOK, PlainNames, NEW j \in Jobs, Home(j), job[j].step \in RenameSteps
    PROVE  /\ job[j].feature \in Features /\ job[j].from \in Names /\ job[j].to \in Names
           /\ OldFolder(j) = job[j].from /\ NewFolder(j) = job[j].to
           /\ name[job[j].feature] = job[j].to /\ Exists(job[j].feature)
           /\ job[j].from # job[j].to
           /\ \A g \in Features : name[g] # job[j].from
           /\ \A g \in Features : name[g] = job[j].to => g = job[j].feature
<1>1. job[j].feature \in Features /\ job[j].from \in Names /\ job[j].to \in Names
    BY JobKinds DEF RenameSteps, RenameJobs
<1>2. name[job[j].feature] = job[j].to /\ ~Taken(job[j].from)
    BY DEF Home, RenameUnderWay, RenameSteps
<1>3. job[j].to # None
    BY <1>1, NoneAssumption
<1> QED BY <1>1, <1>2, <1>3 DEF PlainNames, OldFolder, NewFolder, Exists, Taken,
                                Home, NamesDistinct

(* A rename that finds no folder has no files to take along. *)
LEMMA HomeNoFolder ==
    ASSUME TypeOK, FilesInFolders, PlainNames, NEW j \in Jobs, Home(j), NoFolder(j)
    PROVE  Home(j)'
<1> DEFINE f == job[j].feature
<1>1. /\ job[j].step = "named" /\ job'[j].step = "idle"
      /\ UNCHANGED <<name, row, dirs, disk>>
    BY DEF NoFolder, End, TypeOK, Idle
<1>2. job[j].step \in RenameSteps /\ job'[j].step \notin RenameSteps
    BY <1>1 DEF RenameSteps
<1>3. job[j].from \notin dirs /\ f \in Features /\ job[j].from \in Names
    BY <1>2, RenameFacts DEF NoFolder
<1>4. ASSUME NEW r \in Files, row[r] # None
      PROVE  /\ RowFolder(j, row[r].owner) = name[row[r].owner]
             /\ DiskFolder(j, row[r].owner) = name[row[r].owner]
    <2>1. CASE FolderBehind(j) /\ f = row[r].owner
        <3>1. disk[<<job[j].from, row[r].path[2]>>] # None
            BY <1>1, <1>4, <2>1 DEF Home, BytesFollow, Expected, DiskFolder
        <3>2. <<job[j].from, row[r].path[2]>> \in Paths
            BY <1>3, <1>4, RowPaths DEF Paths
        <3> QED BY <1>3, <3>1, <3>2 DEF FilesInFolders
    <2>2. CASE ~(FolderBehind(j) /\ f = row[r].owner)
        BY <1>1, <2>2 DEF RowFolder, DiskFolder, FolderBehind
    <2> QED BY <2>1, <2>2
<1>5. NamesDistinct' /\ RowsDistinct' /\ FileUnderWay(j)'
    BY <1>1 DEF Home, NamesDistinct, RowsDistinct, FileUnderWay, Exists
<1>6. RowsFollow(j)'
    BY <1>1, <1>2, <1>4, NoRenameNext DEF Home, RowsFollow, Exists
<1>7. BytesFollow(j)'
    BY <1>1, <1>2, <1>4, NoRenameNext DEF Home, BytesFollow, Expected
<1>8. FoldersOwned(j)'
    BY <1>1, <1>2, <1>3, NoRenameNext DEF Home, FoldersOwned, DiskFolder, Exists
<1> QED BY <1>2, <1>5, <1>6, <1>7, <1>8, NoRenameNext DEF Home

(* A refused rename waits to be taken back; nothing else changes. *)
LEMMA HomeMoveFails ==
    ASSUME TypeOK, PlainNames, Restores, NEW j \in Jobs, Home(j), MoveFails(j)
    PROVE  Home(j)'
<1>1. /\ job[j].step = "named" /\ UNCHANGED <<name, row, dirs, disk>>
      /\ job[j] \in RenameJobs /\ OldFolder(j) \in dirs
    BY JobKinds DEF MoveFails
<1>2. /\ job'[j].step = "failed" /\ job'[j].feature = job[j].feature
      /\ job'[j].from = job[j].from /\ job'[j].to = job[j].to
      /\ job'[j].restoring = job[j].restoring
    BY <1>1 DEF MoveFails, Continue, TypeOK, RenameJobs
<1>3. FolderBehind(j) /\ ~job[j].restoring
    BY <1>1, RenameFacts DEF Home, RenameUnderWay, FolderBehind, RowsBehind, RenameSteps
<1>4. FolderBehind(j)' /\ RowsBehind(j)' /\ RowsBehind(j)
    BY <1>2, <1>3 DEF FolderBehind, RowsBehind
<1>5. \A g : RowFolder(j, g)' = RowFolder(j, g) /\ DiskFolder(j, g)' = DiskFolder(j, g)
    BY <1>1, <1>2, <1>3, <1>4 DEF RowFolder, DiskFolder
<1>6. NamesDistinct' /\ RowsDistinct' /\ FileUnderWay(j)'
    BY <1>1, <1>2 DEF Home, NamesDistinct, RowsDistinct, FileUnderWay, Exists
<1>7. RenameUnderWay(j)'
    BY <1>1, <1>2, <1>3, <1>4 DEF Home, RenameUnderWay, Taken
<1>8. RowsFollow(j)' /\ FoldersOwned(j)'
    BY <1>1, <1>5 DEF Home, RowsFollow, FoldersOwned, Exists
<1>9. BytesFollow(j)'
    BY <1>1, <1>2, <1>5 DEF Home, BytesFollow, Expected
<1> QED BY <1>6, <1>7, <1>8, <1>9 DEF Home

(* The folder moves to a place where there is none; the rows stay behind. *)
LEMMA HomeMoveFolder ==
    ASSUME TypeOK, PlainNames, NEW j \in Jobs, Home(j), MoveFolder(j)
    PROVE  Home(j)'
<1> DEFINE f == job[j].feature
           from == job[j].from
           to == job[j].to
<1>1. /\ job[j].step = "named" /\ UNCHANGED <<name, row>> /\ job[j] \in RenameJobs
    BY JobKinds DEF MoveFolder
<1>2. /\ job'[j].step = "moved" /\ job'[j].feature = f
      /\ job'[j].from = from /\ job'[j].to = to /\ job'[j].restoring = job[j].restoring
    BY <1>1 DEF MoveFolder, Continue, TypeOK, RenameJobs
<1>3. /\ f \in Features /\ from \in Names /\ to \in Names /\ from # to
      /\ name[f] = to /\ name[f] # None
      /\ \A g \in Features : name[g] # from
      /\ \A g \in Features : name[g] = to => g = f
    BY <1>1, RenameFacts DEF RenameSteps, Exists
<1>4. /\ from \in dirs /\ to \notin dirs /\ dirs' = (dirs \ {from}) \cup {to}
      /\ disk' = [p \in Paths |-> IF p[1] = to THEN disk[<<from, p[2]>>]
                                  ELSE IF p[1] = from THEN None ELSE disk[p]]
    BY <1>1, RenameFacts DEF MoveFolder, RenameSteps
<1>5. FolderBehind(j) /\ RowsBehind(j) /\ ~job[j].restoring
    BY <1>1, <1>4 DEF Home, RenameUnderWay, FolderBehind, RowsBehind
<1>6. ~FolderBehind(j)' /\ RowsBehind(j)'
    BY <1>2, <1>5 DEF FolderBehind, RowsBehind
<1>7. \A g : /\ RowFolder(j, g)' = RowFolder(j, g) /\ DiskFolder(j, g)' = name[g]
             /\ DiskFolder(j, g) = IF g = f THEN from ELSE name[g]
    BY <1>1, <1>2, <1>5, <1>6 DEF RowFolder, DiskFolder
<1>8. NamesDistinct' /\ RowsDistinct' /\ FileUnderWay(j)'
    BY <1>1, <1>2 DEF Home, NamesDistinct, RowsDistinct, FileUnderWay, Exists
<1>9. RenameUnderWay(j)'
    BY <1>1, <1>2, <1>3, <1>4, <1>5, <1>6 DEF RenameUnderWay, Taken
<1>10. RowsFollow(j)'
    BY <1>1, <1>7 DEF Home, RowsFollow, Exists
<1>11. BytesFollow(j)'
    <2> SUFFICES ASSUME NEW r \in Files, row[r] # None
                 PROVE  disk'[<<name[row[r].owner], row[r].path[2]>>] # None
        BY <1>1, <1>2, <1>7 DEF BytesFollow, Expected
    <2> DEFINE g == row[r].owner
               b == row[r].path[2]
    <2>1. g \in Features /\ name[g] # None /\ b \in Bases
        BY RowPaths DEF Home, RowsFollow, Exists, Paths
    <2>2. name[g] \in Names
        BY <2>1 DEF TypeOK
    <2>3. <<name[g], b>> \in Paths
        BY <2>1, <2>2 DEF Paths
    <2>4. disk[<<DiskFolder(j, g), b>>] # None
        BY <1>1 DEF Home, BytesFollow, Expected
    <2>5. CASE g = f
        BY <1>3, <1>4, <1>7, <2>3, <2>4, <2>5
    <2>6. CASE g # f
        BY <1>3, <1>4, <1>7, <2>1, <2>3, <2>4, <2>6
    <2> QED BY <2>5, <2>6
<1>12. FoldersOwned(j)'
    <2> SUFFICES ASSUME NEW d \in dirs'
                 PROVE  \E g \in Features : name[g] # None /\ name[g] = d
        BY <1>1, <1>7 DEF FoldersOwned, Exists
    <2>1. CASE d = to
        BY <1>3, <2>1
    <2>2. CASE d # to
        BY <1>4, <1>7, <2>2 DEF Home, FoldersOwned, Exists
    <2> QED BY <2>1, <2>2
<1> QED BY <1>8, <1>9, <1>10, <1>11, <1>12 DEF Home

(* All rows of the feature are in its old folder, and all are rewritten. *)
LEMMA HomeUpdatePaths ==
    ASSUME TypeOK, PlainNames, NEW j \in Jobs, Home(j), UpdatePaths(j)
    PROVE  Home(j)'
<1> DEFINE f == job[j].feature
           from == job[j].from
           to == job[j].to
<1>1. /\ job[j].step = "moved" /\ job'[j].step = "idle"
      /\ UNCHANGED <<name, dirs, disk>>
    BY DEF UpdatePaths, End, TypeOK, Idle
<1>2. job[j].step \in RenameSteps /\ job'[j].step \notin RenameSteps
    BY <1>1 DEF RenameSteps
<1>3. RowsBehind(j) /\ ~FolderBehind(j)
    BY <1>1 DEF Home, RenameUnderWay, RowsBehind, FolderBehind
<1>4. \A g : /\ RowFolder(j, g) = IF g = f THEN from ELSE name[g]
             /\ DiskFolder(j, g) = name[g]
    BY <1>3 DEF RowFolder, DiskFolder
<1>5. /\ f \in Features /\ to \in Names /\ name[f] = to
      /\ NewFolder(j) = to /\ OldFolder(j) = from
      /\ \A g \in Features : name[g] = to => g = f
    BY <1>2, RenameFacts
<1>6. ASSUME NEW r \in Files
      PROVE  /\ (row'[r] = None) <=> (row[r] = None)
             /\ row[r] # None =>
                   /\ row[r].owner \in Features /\ row[r].path \in Paths
                   /\ row[r].path[1] = RowFolder(j, row[r].owner)
                   /\ row'[r].owner = row[r].owner
                   /\ row'[r].path = <<name[row[r].owner], row[r].path[2]>>
    <2>1. CASE row[r] = None
        BY <1>1, <2>1 DEF UpdatePaths, InOldFolder
    <2>2. CASE row[r] # None
        <3>1. row[r] \in Rows /\ row[r].owner \in Features /\ row[r].path \in Paths
            BY <2>2, RowPaths DEF TypeOK
        <3>2. row[r].path[1] = RowFolder(j, row[r].owner)
            BY <2>2 DEF Home, RowsFollow
        <3>3. CASE row[r].owner = f
            <4>1. r \in InOldFolder(j)
                BY <1>4, <1>5, <2>2, <3>2, <3>3 DEF InOldFolder
            <4>2. row'[r] = [row[r] EXCEPT !.path[1] = to]
                BY <1>1, <1>5, <4>1 DEF UpdatePaths
            <4>3. row'[r] \in Rows /\ row'[r].owner = f /\ row'[r].path = <<to, row[r].path[2]>>
                BY <1>5, <3>1, <3>3, <4>2 DEF Rows, Paths
            <4> QED BY <1>5, <2>2, <3>1, <3>2, <3>3, <4>3, NoneAssumption
        <3>4. CASE row[r].owner # f
            <4>1. row'[r] = row[r]
                BY <1>1, <3>4 DEF UpdatePaths, InOldFolder
            <4> QED BY <1>4, <2>2, <3>1, <3>2, <3>4, <4>1 DEF Paths
        <3> QED BY <3>3, <3>4
    <2> QED BY <2>1, <2>2
<1>7. NamesDistinct' /\ FileUnderWay(j)'
    BY <1>1 DEF Home, NamesDistinct, FileUnderWay, Exists
<1>8. RowsFollow(j)'
    BY <1>1, <1>2, <1>6, NoRenameNext DEF Home, RowsFollow, Exists
<1>9. BytesFollow(j)'
    BY <1>1, <1>2, <1>4, <1>6, NoRenameNext DEF Home, BytesFollow, Expected
<1>10. FoldersOwned(j)'
    BY <1>1, <1>2, <1>4, NoRenameNext DEF Home, FoldersOwned, Exists
<1>11. RowsDistinct'
    <2> SUFFICES ASSUME NEW q \in Files, NEW r \in Files, row'[q] # None, row'[r] # None,
                        row'[q].path = row'[r].path
                 PROVE  q = r
        BY DEF RowsDistinct
    <2>1. /\ row[q] # None /\ row[r] # None
          /\ name[row[q].owner] = name[row[r].owner]
          /\ row[q].path[2] = row[r].path[2]
        BY <1>6
    <2>2. row[q].owner = row[r].owner
        BY <1>6, <2>1 DEF Home, NamesDistinct, RowsFollow
    <2>3. row[q].path = row[r].path
        BY <1>6, <2>1, <2>2 DEF Paths
    <2> QED BY <2>1, <2>3 DEF Home, RowsDistinct
<1> QED BY <1>2, <1>7, <1>8, <1>9, <1>10, <1>11, NoRenameNext DEF Home

(* The old name is free, and the folder and the rows are still under it. *)
LEMMA HomeRestoreName ==
    ASSUME TypeOK, PlainNames, NEW j \in Jobs, Home(j), RestoreName(j)
    PROVE  Home(j)'
<1> DEFINE f == job[j].feature
           from == job[j].from
           to == job[j].to
<1>1. /\ job[j].step = "failed" /\ UNCHANGED <<row, dirs, disk>> /\ job[j] \in RenameJobs
    BY JobKinds DEF RestoreName
<1>2. /\ f \in Features /\ from \in Names /\ to \in Names /\ from # to
      /\ name[f] = to /\ Exists(f) /\ ~Taken(from)
      /\ \A g \in Features : name[g] # from
      /\ \A g \in Features : name[g] = to => g = f
    BY <1>1, RenameFacts DEF RenameSteps, Taken
<1>3. /\ name' = [name EXCEPT ![f] = from]
      /\ job' = [job EXCEPT ![j].step = "named", ![j].from = to, ![j].to = from,
                            ![j].restoring = TRUE]
    BY <1>2 DEF RestoreName
<1>4. /\ job'[j].step = "named" /\ job'[j].feature = f /\ job'[j].from = to
      /\ job'[j].to = from /\ job'[j].restoring
    BY <1>1, <1>3 DEF TypeOK, RenameJobs
<1>5. FolderBehind(j) /\ RowsBehind(j) /\ to \notin dirs
    BY <1>1 DEF Home, RenameUnderWay, FolderBehind, RowsBehind
<1>6. ~FolderBehind(j)' /\ ~RowsBehind(j)'
    BY <1>4 DEF FolderBehind, RowsBehind
<1>7. \A g \in Features : name'[g] = IF g = f THEN from ELSE name[g]
    BY <1>3 DEF TypeOK
<1>8. \A g \in Features :
          /\ RowFolder(j, g) = name'[g] /\ DiskFolder(j, g) = name'[g]
          /\ RowFolder(j, g)' = name'[g] /\ DiskFolder(j, g)' = name'[g]
    BY <1>5, <1>6, <1>7 DEF RowFolder, DiskFolder
<1>9. from # None
    BY <1>2, NoneAssumption
<1>10. NamesDistinct' /\ RowsDistinct' /\ FileUnderWay(j)'
    BY <1>1, <1>2, <1>4, <1>7, <1>9
       DEF Home, NamesDistinct, RowsDistinct, FileUnderWay, Exists
<1>11. RenameUnderWay(j)'
    BY <1>1, <1>2, <1>4, <1>5, <1>6, <1>7 DEF RenameUnderWay, Taken
<1>12. \A r \in Files : row[r] # None => row[r].owner \in Features
    BY RowPaths
<1>13. RowsFollow(j)'
    BY <1>1, <1>7, <1>8, <1>9, <1>12 DEF Home, RowsFollow, Exists
<1>14. BytesFollow(j)'
    BY <1>1, <1>4, <1>8, <1>12 DEF Home, BytesFollow, Expected
<1>15. FoldersOwned(j)'
    BY <1>1, <1>7, <1>8, <1>9 DEF Home, FoldersOwned, Exists
<1> QED BY <1>10, <1>11, <1>13, <1>14, <1>15 DEF Home

(* One step, while no feature is deleted and no request killed. *)
LEMMA HomeStep ==
    ASSUME OneJob, PlainNames, Restores, TypeOK, FilesInFolders,
           NEW j \in Jobs, Home(j), [Next]_vars, calm'
    PROVE  Home(j)'
<1>1. \A i \in Jobs : i = j
    BY DEF OneJob
<1>2. job[j].step = "idle" => job[j].step \notin RenameSteps
    BY DEF RenameSteps
<1>3. CASE \E f \in Features, n \in Names : CreateFeature(f, n)
    BY <1>3, HomeCreate
<1>4. CASE \E f \in Features, n \in Names : RenameFeature(j, f, n)
    BY <1>4, HomeRenameFeature
<1>5. CASE NoFolder(j) \/ MoveFolder(j) \/ MoveFails(j) \/ UpdatePaths(j) \/ RestoreName(j)
    BY <1>5, HomeNoFolder, HomeMoveFolder, HomeMoveFails, HomeUpdatePaths,
       HomeRestoreName
<1>6. ASSUME GiveUp(j) PROVE FALSE
    BY <1>6 DEF GiveUp, Home, RenameUnderWay
<1>7. CASE \E f \in Features, r \in Files, b \in Bases : Upload(j, f, r, b)
    BY <1>7, HomeUpload
<1>8. CASE \E r \in Files : Unlink(j, r)
    BY <1>8, HomeUnlink
<1>9. CASE \E r \in Files, b \in Bases : RenameFile(j, r, b)
    <2>1. PICK r \in Files, b \in Bases : RenameFile(j, r, b)
        BY <1>9
    <2> DEFINE f == row[r].owner
               p == <<row[r].path[1], b>>
    <2>2. row[r] # None /\ Copy(j, r, f, p)
        BY <2>1 DEF RenameFile
    <2>3. f \in Features /\ p \in Paths
        BY <2>2, RowPaths DEF Paths
    <2>4. job[j].step = "idle"
        BY <2>2 DEF Copy, Begin
    <2>5. Exists(f) /\ p[1] = name[f]
        BY <1>2, <2>2, <2>4, NoRename DEF Home, RowsFollow
    <2> QED BY <2>2, <2>3, <2>5, HomeCopy
<1>10. CASE \E r \in Files, f \in Features : MoveFile(j, r, f)
    <2>1. PICK r \in Files, f \in Features : MoveFile(j, r, f)
        BY <1>10
    <2> DEFINE p == <<Sanitize[name[f]], row[r].path[2]>>
    <2>2. row[r] # None /\ Exists(f) /\ Copy(j, r, f, p)
        BY <2>1 DEF MoveFile
    <2>3. name[f] \in Names /\ Sanitize[name[f]] = name[f]
        BY <2>2 DEF Exists, TypeOK, PlainNames
    <2>4. p \in Paths /\ p[1] = name[f]
        BY <2>2, <2>3, RowPaths DEF Paths
    <2> QED BY <2>2, <2>4, HomeCopy
<1>11. ASSUME NEW r \in Files, NEW f \in Features, MoveMissingFile(j, r, f) PROVE FALSE
    <2>1. job[j].step = "idle" /\ row[r] # None /\ disk[row[r].path] = None
        BY <1>11 DEF MoveMissingFile, Begin
    <2> QED BY <1>2, <2>1, RowAtHome DEF Expected
<1>12. CASE InsertRow(j) \/ DeleteRow(j) \/ RemoveOld(j) \/ Repoint(j)
    BY <1>12, HomeInsertRow, HomeDeleteRow, HomeRemoveOld, HomeRepoint
<1>13. ASSUME Kill(j) \/ \E f \in Features : DeleteFeature(f) PROVE FALSE
    BY <1>13 DEF Kill, DeleteFeature
<1>14. CASE UNCHANGED vars
    BY <1>14 DEF vars, Home, NamesDistinct, RenameUnderWay, RowsFollow, BytesFollow,
                 FoldersOwned, RowsDistinct, FileUnderWay, Exists, Taken, RowsBehind,
                 FolderBehind, RowFolder, DiskFolder, Expected
<1> QED
    BY <1>1, <1>3, <1>4, <1>5, <1>6, <1>7, <1>8, <1>9, <1>10, <1>11, <1>12, <1>13,
       <1>14 DEF Next

(* What was deleted or killed stays so. *)
LEMMA CalmStep == ASSUME [Next]_vars, calm' PROVE calm
<1>1. ASSUME NEW f \in Features, NEW n \in Names, CreateFeature(f, n) PROVE calm
    BY <1>1 DEF CreateFeature
<1>2. ASSUME NEW f \in Features, DeleteFeature(f) PROVE calm
    BY <1>2 DEF DeleteFeature
<1>3. ASSUME NEW j \in Jobs, NEW r \in Files, NEW f, NEW p, Copy(j, r, f, p) PROVE calm
    BY <1>3 DEF Copy
<1>4. ASSUME NEW j \in Jobs,
             \/ NoFolder(j) \/ MoveFolder(j) \/ MoveFails(j) \/ UpdatePaths(j)
             \/ RestoreName(j) \/ GiveUp(j)
             \/ InsertRow(j) \/ DeleteRow(j) \/ RemoveOld(j) \/ Repoint(j) \/ Kill(j)
      PROVE calm
    BY <1>4 DEF NoFolder, MoveFolder, MoveFails, UpdatePaths, RestoreName, GiveUp,
                InsertRow, DeleteRow, RemoveOld, Repoint, Kill
<1>5. ASSUME NEW j \in Jobs, NEW f \in Features, NEW n \in Names, RenameFeature(j, f, n)
      PROVE calm
    BY <1>5 DEF RenameFeature
<1>6. ASSUME NEW j \in Jobs, NEW r \in Files,
             \/ Unlink(j, r)
             \/ \E f \in Features, b \in Bases : Upload(j, f, r, b)
             \/ \E f \in Features : MoveMissingFile(j, r, f)
      PROVE calm
    BY <1>6 DEF Unlink, Upload, MoveMissingFile
<1>7. ASSUME NEW j \in Jobs, NEW r \in Files,
             \/ \E b \in Bases : RenameFile(j, r, b)
             \/ \E f \in Features : MoveFile(j, r, f)
      PROVE calm
    BY <1>3, <1>7 DEF RenameFile, MoveFile
<1>8. CASE UNCHANGED vars
    BY <1>8 DEF vars
<1> QED BY <1>1, <1>2, <1>4, <1>5, <1>6, <1>7, <1>8 DEF Next

HomeInv(j) == calm => Home(j)

(* With one request at a time, names that sanitize_filename leaves alone,   *)
(* and a handler that takes a refused rename back, every state is in order. *)
LEMMA HomeInvariant ==
    ASSUME OneJob, PlainNames, Restores, NEW j \in Jobs
    PROVE  Spec => [](TypeOK /\ HomeInv(j))
<1>1. Init => HomeInv(j)
    <2> SUFFICES ASSUME Init PROVE Home(j)
        BY DEF HomeInv
    <2>1. job[j].step = "idle" /\ dirs = {} /\ \A r \in Files : row[r] = None
        BY DEF Init, Idle
    <2>2. NamesDistinct
        BY DEF Init, NamesDistinct, Exists
    <2> QED BY <2>1, <2>2 DEF Home, RenameUnderWay, RowsFollow, BytesFollow, Expected,
                              FoldersOwned, RowsDistinct, FileUnderWay
<1>2. BytesInv /\ HomeInv(j) /\ [Next]_vars => HomeInv(j)'
    BY HomeStep, CalmStep DEF HomeInv, BytesInv
<1>3. BytesInv => TypeOK
    BY DEF BytesInv
<1> QED BY <1>1, <1>2, <1>3, BytesInvariant, PTL DEF Spec

(* As long as no feature was deleted and no request killed, the row of a    *)
(* file leads to a file between requests, for any number of features, names *)
(* and files.                                                               *)
THEOREM RowsLeadToFiles ==
    ASSUME OneJob, Jobs # {}, PlainNames, Restores PROVE Spec => []FilesReachable
<1> PICK j \in Jobs : TRUE
    OBVIOUS
<1>1. TypeOK /\ HomeInv(j) => FilesReachable
    <2> SUFFICES ASSUME TypeOK, HomeInv(j), calm, Quiet, NEW r \in LiveRows
                 PROVE  disk[row[r].path] # None
        BY DEF FilesReachable
    <2>1. job[j].step = "idle" /\ r \in Files /\ row[r] # None
        BY DEF Quiet, LiveRows
    <2>2. Expected(j, r) /\ job[j].step \notin RenameSteps
        BY <2>1 DEF Expected, RenameSteps
    <2> QED BY <2>1, <2>2, RowAtHome DEF HomeInv
<1> QED BY <1>1, HomeInvariant, PTL

(* Under the same conditions a file is in the folder named like its feature.*)
THEOREM FoldersFollowNames ==
    ASSUME OneJob, Jobs # {}, PlainNames, Restores PROVE Spec => []FolderFollowsName
<1> PICK j \in Jobs : TRUE
    OBVIOUS
<1>1. TypeOK /\ HomeInv(j) => FolderFollowsName
    <2> SUFFICES ASSUME TypeOK, HomeInv(j), calm, Quiet, NEW r \in LiveRows
                 PROVE  row[r].path[1] = name[row[r].owner]
        BY DEF FolderFollowsName
    <2>1. job[j].step = "idle" /\ r \in Files /\ row[r] # None
        BY DEF Quiet, LiveRows
    <2>2. job[j].step \notin RenameSteps
        BY <2>1 DEF RenameSteps
    <2> QED BY <2>1, <2>2, NoRename DEF HomeInv, Home, RowsFollow
<1> QED BY <1>1, HomeInvariant, PTL
=============================================================================
