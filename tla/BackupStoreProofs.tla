------------------------- MODULE BackupStoreProofs -------------------------
(***************************************************************************)
(* Backups, restores and their jobs, for any number of calls, rows, rules  *)
(* and restarts.  The first part shows that stored rows have their files,  *)
(* as long as no request's context ends before its handler does (then an   *)
(* INSERT that reports an error was not applied); the second that restores *)
(* exclude each other and leave a way back; the third that a schedule's    *)
(* slot is served once.                                                    *)
(***************************************************************************)
EXTENDS BackupStore, FiniteSetTheorems, TLAPS

-----------------------------------------------------------------------------
(* The inductive invariant. *)

\* What the argument needs of the types, and that no context ended.
Kinds ==
    /\ gone = {}
    /\ lastId \in Nat /\ lastFile \in Nat
    /\ status \in [Ids -> {"none", "ok", "failed"}]
    /\ path \in [Ids -> Nat]
    /\ pc \in [Procs -> Pcs]
    /\ file \in [Procs -> Nat]
    /\ drop \in [Procs -> SUBSET Ids]
    /\ files \subseteq 1..lastFile

\* Rows not inserted yet are blank, and no two rows name the same file.
PathsApart ==
    /\ \A i \in Ids : i > lastId => status[i] = "none" /\ path[i] = 0
    /\ \A i \in Ids : path[i] <= lastFile
    /\ \A i, j \in Ids : path[i] = path[j] /\ path[i] # 0 => i = j

\* A file waiting for its row is there, and belongs to one call only.
PendingFiles ==
    /\ \A p \in Procs : pc[p] = "insert" =>
         /\ file[p] \in files
         /\ \A i \in Ids : path[i] # file[p]
    /\ \A p, q \in Procs : pc[p] = "insert" /\ pc[q] = "insert" /\ file[p] = file[q] => p = q

\* A file about to be removed belongs to a row that is gone.
DoomedFiles ==
    \A p \in Procs : pc[p] = "unlink" =>
       file[p] = 0 \/ \E j \in Ids : path[j] = file[p] /\ status[j] = "none"

\* The inductive invariant.
FileDiscipline == Kinds /\ PathsApart /\ PendingFiles /\ DoomedFiles /\ FilesPresent

-----------------------------------------------------------------------------
(* Steps that write no file and insert no row. *)

\* A call goes on, or ends, without taking up a file.
MovesOn(p) ==
    /\ pc' \in [Procs -> Pcs]
    /\ \A q \in Procs : pc'[q] \in {"insert", "unlink"} => q # p
    /\ \A q \in Procs \ {p} : pc'[q] = pc[q] /\ file'[q] = file[q]
    /\ file' \in [Procs -> Nat] /\ drop' \in [Procs -> SUBSET Ids]
    /\ gone' = {}

\* Rows may go; nothing else in the table or on the disk changes.
Shrinks ==
    /\ status' \in [Ids -> {"none", "ok", "failed"}]
    /\ \A i \in Ids : status'[i] # "none" => status'[i] = status[i]
    /\ UNCHANGED <<lastId, diskVars>>

\* Rows that go, and a call that moves on, keep the discipline.
LEMMA QuietStep ==
    ASSUME FileDiscipline, Shrinks, NEW p \in Procs, MovesOn(p)
    PROVE  FileDiscipline'
<1> USE DEF FileDiscipline, Shrinks, MovesOn, diskVars
<1>1. Kinds' BY DEF Kinds
<1>2. PathsApart'
  <2>1. \A i \in Ids : i > lastId => status'[i] = "none" BY DEF PathsApart, Kinds
  <2> QED BY <2>1 DEF PathsApart
<1>3. PendingFiles' BY DEF PendingFiles
<1>4. DoomedFiles'
  <2> SUFFICES ASSUME NEW q \in Procs, pc'[q] = "unlink"
               PROVE  file'[q] = 0 \/ \E j \in Ids : path'[j] = file'[q] /\ status'[j] = "none"
      BY DEF DoomedFiles
  <2>1. pc[q] = "unlink" /\ file'[q] = file[q] OBVIOUS
  <2>2. \A j \in Ids : status[j] = "none" => status'[j] = "none" BY DEF Kinds
  <2> QED BY <2>1, <2>2 DEF DoomedFiles
<1>5. FilesPresent' BY DEF FilesPresent, Stored
<1> QED BY <1>1, <1>2, <1>3, <1>4, <1>5

\* The same when no call moves.
LEMMA IdleStep ==
    ASSUME FileDiscipline, Shrinks, UNCHANGED <<pc, callVars>>
    PROVE  FileDiscipline'
<1> USE DEF FileDiscipline, Shrinks, diskVars, callVars
<1>1. Kinds' BY DEF Kinds
<1>2. PathsApart'
  <2>1. \A i \in Ids : i > lastId => status'[i] = "none" BY DEF PathsApart, Kinds
  <2> QED BY <2>1 DEF PathsApart
<1>3. PendingFiles' BY DEF PendingFiles
<1>4. DoomedFiles'
  <2>1. \A j \in Ids : status[j] = "none" => status'[j] = "none" BY DEF Kinds
  <2> QED BY <2>1 DEF DoomedFiles
<1>5. FilesPresent' BY DEF FilesPresent, Stored
<1> QED BY <1>1, <1>2, <1>3, <1>4, <1>5

\* Leaving the table and the disk alone is a case of Shrinks.
LEMMA SameIsShrinks ==
    ASSUME Kinds, UNCHANGED <<rowVars, diskVars>>
    PROVE  Shrinks
BY DEF Kinds, Shrinks, rowVars, diskVars

\* Ending a call, and moving to a step that holds no file, is moving on.
LEMMA EndMovesOn ==
    ASSUME Kinds, NEW p \in Procs, End(p)
    PROVE  MovesOn(p)
BY DEF Kinds, End, Goto, MovesOn, Pcs

\* Going to a step that holds no file is moving on.
LEMMA GotoMovesOn ==
    ASSUME Kinds, NEW p \in Procs, NEW l \in Pcs \ {"insert", "unlink"}, Goto(p, l),
           file' = file, gone' = gone, drop' \in [Procs -> SUBSET Ids]
    PROVE  MovesOn(p)
BY DEF Kinds, Goto, MovesOn

\* So is returning from Run, to Restore or to a handler.
LEMMA ReturnMovesOn ==
    ASSUME Kinds, NEW p \in Procs, NEW ok, Return(p, ok)
    PROVE  MovesOn(p)
<1>1. CASE p \notin Restorers BY <1>1, EndMovesOn DEF Return
<1>2. CASE p \in Restorers
  <2>1. PICK l \in {"pre", "fail"} : Goto(p, l) BY <1>2 DEF Return
  <2>2. drop' \in [Procs -> SUBSET Ids] /\ file' = file /\ gone' = gone
        BY <1>2 DEF Return, callVars, Kinds
  <2> QED BY <2>1, <2>2, GotoMovesOn DEF Pcs
<1> QED BY <1>1, <1>2

-----------------------------------------------------------------------------
(* The steps that touch a file or insert a row. *)

\* A written file is new: no row and no other call names it.
LEMMA WriteStep ==
    ASSUME FileDiscipline, NEW p \in Procs, RunWrite(p)
    PROVE  FileDiscipline'
<1> USE DEF FileDiscipline, RunWrite, NewName, Goto, rowVars
<1>1. Kinds' BY DEF Kinds, Pcs
<1>2. PathsApart' BY DEF PathsApart, Kinds
<1>3. PendingFiles'
  <2>1. \A i \in Ids : path[i] # lastFile + 1 BY DEF PathsApart, Kinds
  <2>2. \A q \in Procs : pc[q] = "insert" => file[q] # lastFile + 1 BY DEF PendingFiles, Kinds
  <2> QED BY <2>1, <2>2 DEF PendingFiles, Kinds
<1>4. DoomedFiles' BY DEF DoomedFiles, Kinds
<1>5. FilesPresent' BY DEF FilesPresent, Stored
<1> QED BY <1>1, <1>2, <1>3, <1>4, <1>5

\* Row ids are numbers.
LEMMA IdsAreNumbers == Ids \subseteq Nat
BY BackupConstants DEF BackupConstants, Ids

\* What an INSERT does to the columns the argument reads.
LEMMA InsertEffect ==
    ASSUME Kinds, NEW s \in {"ok", "failed"}, NEW c, NEW t, NEW f \in Nat, Insert(s, c, t, f)
    PROVE  /\ lastId' = lastId + 1 /\ lastId' \in Nat
           /\ status' \in [Ids -> {"none", "ok", "failed"}] /\ path' \in [Ids -> Nat]
           /\ \A i \in Ids : /\ status'[i] = IF i = lastId + 1 THEN s ELSE status[i]
                             /\ path'[i] = IF i = lastId + 1 THEN f ELSE path[i]
<1> USE DEF Kinds, Insert
<1>1. lastId' = lastId + 1 /\ lastId' \in Nat OBVIOUS
<1>2. status' \in [Ids -> {"none", "ok", "failed"}] OBVIOUS
<1>3. path' \in [Ids -> Nat] OBVIOUS
<1>4. \A i \in Ids : status'[i] = IF i = lastId + 1 THEN s ELSE status[i] OBVIOUS
<1>5. \A i \in Ids : path'[i] = IF i = lastId + 1 THEN f ELSE path[i] OBVIOUS
<1> QED BY <1>1, <1>2, <1>3, <1>4, <1>5

\* A failure is a row without a file.
LEMMA InsertFailedStep ==
    ASSUME FileDiscipline, NEW p \in Procs, MovesOn(p), NEW t,
           Insert("failed", NoConfig, t, 0), UNCHANGED <<files, lastFile>>
    PROVE  FileDiscipline'
<1> USE DEF FileDiscipline, MovesOn
<1>0. /\ lastId' = lastId + 1 /\ lastId' \in Nat
      /\ status' \in [Ids -> {"none", "ok", "failed"}] /\ path' \in [Ids -> Nat]
      /\ \A i \in Ids : /\ status'[i] = IF i = lastId + 1 THEN "failed" ELSE status[i]
                        /\ path'[i] = IF i = lastId + 1 THEN 0 ELSE path[i]
      BY InsertEffect
<1> USE <1>0
<1>1. Kinds' BY DEF Kinds
<1>2. PathsApart' BY IdsAreNumbers DEF PathsApart, Kinds
<1>3. PendingFiles'
  <2>1. \A q \in Procs : pc[q] = "insert" => file[q] # 0 BY DEF PendingFiles, Kinds
  <2> QED BY <2>1 DEF PendingFiles, Kinds
<1>4. DoomedFiles'
  <2>1. \A j \in Ids : j = lastId + 1 => path[j] = 0 BY DEF PathsApart, Kinds
  <2> SUFFICES ASSUME NEW q \in Procs, pc'[q] = "unlink", file'[q] # 0
               PROVE  \E j \in Ids : path'[j] = file'[q] /\ status'[j] = "none"
      BY DEF DoomedFiles
  <2>2. PICK j \in Ids : path[j] = file[q] /\ status[j] = "none" BY DEF DoomedFiles
  <2>3. j # lastId + 1 BY <2>1, <2>2
  <2> QED BY <2>2, <2>3 DEF Kinds
<1>5. FilesPresent' BY DEF FilesPresent, Stored, Kinds
<1> QED BY <1>1, <1>2, <1>3, <1>4, <1>5

\* The row that takes the file over.
LEMMA InsertStep ==
    ASSUME FileDiscipline, NEW p \in Procs, RunInsert(p)
    PROVE  FileDiscipline'
<1> USE DEF FileDiscipline, RunInsert, Goto
<1>0. file[p] \in files /\ file[p] \in Nat /\ file[p] # 0 /\ file[p] <= lastFile
      /\ \A i \in Ids : path[i] # file[p]
      BY DEF PendingFiles, Kinds
<1>e. /\ lastId' = lastId + 1 /\ lastId' \in Nat
      /\ status' \in [Ids -> {"none", "ok", "failed"}] /\ path' \in [Ids -> Nat]
      /\ \A i \in Ids : /\ status'[i] = IF i = lastId + 1 THEN "ok" ELSE status[i]
                        /\ path'[i] = IF i = lastId + 1 THEN file[p] ELSE path[i]
      BY <1>0, InsertEffect
<1> USE <1>0, <1>e
<1>1. Kinds' BY DEF Kinds, Pcs
<1>2. PathsApart' BY IdsAreNumbers DEF PathsApart, Kinds
<1>3. PendingFiles' BY DEF PendingFiles, Kinds
<1>4. DoomedFiles'
  <2>1. \A j \in Ids : j = lastId + 1 => path[j] = 0 BY DEF PathsApart, Kinds
  <2> SUFFICES ASSUME NEW q \in Procs, pc'[q] = "unlink", file'[q] # 0
               PROVE  \E j \in Ids : path'[j] = file'[q] /\ status'[j] = "none"
      BY DEF DoomedFiles
  <2>2. pc[q] = "unlink" BY DEF Kinds
  <2>3. PICK j \in Ids : path[j] = file[q] /\ status[j] = "none" BY <2>2 DEF DoomedFiles
  <2>4. j # lastId + 1 BY <2>1, <2>3
  <2> QED BY <2>3, <2>4 DEF Kinds
<1>5. FilesPresent' BY DEF FilesPresent, Stored, Kinds
<1> QED BY <1>1, <1>2, <1>3, <1>4, <1>5

\* The INSERT that failed was not applied, and nothing else names its file.
LEMMA InsertFailsStep ==
    ASSUME FileDiscipline, NEW p \in Procs, RunInsertFails(p)
    PROVE  FileDiscipline'
<1> USE DEF FileDiscipline, RunInsertFails
<1>1. ~exists /\ UNCHANGED <<rowVars, path>> BY DEF Kinds
<1>2. MovesOn(p) BY ReturnMovesOn
<1> USE <1>1, <1>2 DEF rowVars, MovesOn
<1>3. Kinds' BY DEF Kinds
<1>4. PathsApart' BY DEF PathsApart
<1>5. PendingFiles'
  <2>1. \A q \in Procs : pc'[q] = "insert" => q # p /\ pc[q] = "insert" /\ file'[q] = file[q] OBVIOUS
  <2>2. \A q \in Procs : pc'[q] = "insert" => file[q] # file[p] BY <2>1 DEF PendingFiles
  <2> QED BY <2>1, <2>2 DEF PendingFiles
<1>6. DoomedFiles'
  <2>1. \A q \in Procs : pc'[q] = "unlink" => pc[q] = "unlink" /\ file'[q] = file[q] OBVIOUS
  <2> QED BY <2>1 DEF DoomedFiles
<1>7. FilesPresent' BY DEF FilesPresent, Stored, PendingFiles
<1> QED BY <1>3, <1>4, <1>5, <1>6, <1>7

\* The row goes first.
LEMMA DropRowStep ==
    ASSUME FileDiscipline, NEW p \in Procs, NEW i \in Ids, DropRow(p, i)
    PROVE  FileDiscipline'
<1> USE DEF FileDiscipline, DropRow, Goto, diskVars
<1>1. Kinds' BY DEF Kinds, Pcs
<1>2. PathsApart' BY DEF PathsApart, Kinds
<1>3. PendingFiles' BY DEF PendingFiles, Kinds
<1>4. DoomedFiles'
  <2>1. \A j \in Ids : status[j] = "none" => status'[j] = "none" BY DEF Kinds
  <2>2. path[i] = file'[p] /\ status'[i] = "none" BY DEF Kinds
  <2>3. \A q \in Procs \ {p} : pc'[q] = pc[q] /\ file'[q] = file[q] BY DEF Kinds
  <2> SUFFICES ASSUME NEW q \in Procs, pc'[q] = "unlink", file'[q] # 0
               PROVE  \E j \in Ids : path[j] = file'[q] /\ status'[j] = "none"
      BY DEF DoomedFiles
  <2>4. CASE q = p BY <2>2, <2>4
  <2>5. CASE q # p BY <2>1, <2>3, <2>5 DEF DoomedFiles
  <2> QED BY <2>4, <2>5
<1>5. FilesPresent' BY DEF FilesPresent, Stored, Kinds
<1> QED BY <1>1, <1>2, <1>3, <1>4, <1>5

\* The file follows: only the row that is gone named it.
LEMMA DropFileStep ==
    ASSUME FileDiscipline, NEW p \in Procs, DropFile(p)
    PROVE  FileDiscipline'
<1> USE DEF FileDiscipline, DropFile, Goto, rowVars, callVars
<1>0. file[p] = 0 \/ \E j \in Ids : path[j] = file[p] /\ status[j] = "none" BY DEF DoomedFiles
<1>1. Kinds' BY DEF Kinds, Pcs
<1>2. PathsApart' BY DEF PathsApart
<1>3. PendingFiles'
  <2>1. \A q \in Procs : pc'[q] = "insert" => pc[q] = "insert" BY DEF Kinds
  <2>2. \A q \in Procs : pc[q] = "insert" => file[q] # file[p] BY <1>0 DEF PendingFiles, Kinds
  <2> QED BY <2>1, <2>2 DEF PendingFiles
<1>4. DoomedFiles' BY DEF DoomedFiles, Kinds
<1>5. FilesPresent'
  <2> SUFFICES ASSUME NEW i \in Stored PROVE path[i] \in files \ {file[p]}
      BY DEF FilesPresent, Stored
  <2>1. path[i] \in files /\ path[i] # 0 BY DEF FilesPresent, Kinds
  <2>2. path[i] # file[p] BY <1>0, <2>1 DEF PathsApart, Stored
  <2> QED BY <2>1, <2>2
<1> QED BY <1>1, <1>2, <1>3, <1>4, <1>5

-----------------------------------------------------------------------------
(* Every step. *)

\* Every step of Run keeps the discipline.
LEMMA RunSteps ==
    ASSUME FileDiscipline, NEW p \in Procs, Run(p)
    PROVE  FileDiscipline'
<1>k. Kinds BY DEF FileDiscipline
<1>1. CASE RunFetch(p)
  <2>1. Shrinks BY <1>1, <1>k, SameIsShrinks DEF RunFetch
  <2>2. PICK l \in {"write", "compare"} : Goto(p, l) BY <1>1 DEF RunFetch
  <2>3. MovesOn(p) BY <1>1, <1>k, <2>2, GotoMovesOn DEF RunFetch, Pcs, Kinds
  <2> QED BY <2>1, <2>3, QuietStep
<1>2. CASE RunFetchFails(p)
  <2>1. MovesOn(p) BY <1>2, <1>k, ReturnMovesOn DEF RunFetchFails
  <2>2. CASE Insert("failed", NoConfig, clock, 0)
    BY <1>2, <2>1, <2>2, InsertFailedStep DEF RunFetchFails
  <2>3. CASE UNCHANGED <<rowVars, path>>
    <3>1. Shrinks BY <1>2, <2>3, <1>k, SameIsShrinks DEF RunFetchFails, diskVars
    <3> QED BY <3>1, <2>1, QuietStep
  <2> QED BY <1>2, <2>2, <2>3 DEF RunFetchFails
<1>3. CASE RunCompare(p)
  <2>1. Shrinks BY <1>3, <1>k, SameIsShrinks DEF RunCompare
  <2>2. CASE Return(p, p \notin gone) BY <1>k, <2>1, <2>2, ReturnMovesOn, QuietStep
  <2>3. CASE Goto(p, "write") /\ UNCHANGED callVars
    <3>1. MovesOn(p) BY <1>k, <2>3, GotoMovesOn DEF callVars, Pcs, Kinds
    <3> QED BY <2>1, <3>1, QuietStep
  <2> QED BY <1>3, <2>2, <2>3 DEF RunCompare
<1>4. CASE RunWrite(p) BY <1>4, WriteStep
<1>5. CASE RunWriteFails(p)
  BY <1>5, <1>k, SameIsShrinks, ReturnMovesOn, QuietStep DEF RunWriteFails
<1>6. CASE RunInsert(p) BY <1>6, InsertStep
<1>7. CASE RunInsertFails(p) BY <1>7, InsertFailsStep
<1>8. CASE RunRetain(p)
  <2>1. Shrinks BY <1>8, <1>k, SameIsShrinks DEF RunRetain
  <2>2. RetentionDrop(rule) \in SUBSET Ids BY DEF RetentionDrop, Rows
  <2>3. drop' \in [Procs -> SUBSET Ids] BY <1>8, <1>k, <2>2 DEF RunRetain, Kinds
  <2>4. PICK l \in {"drop", "get"} : Goto(p, l) BY <1>8 DEF RunRetain
  <2>5. MovesOn(p) BY <1>8, <1>k, <2>3, <2>4, GotoMovesOn DEF RunRetain, Pcs
  <2> QED BY <2>1, <2>5, QuietStep
<1>9. CASE RunGet(p)
  <2>1. Shrinks BY <1>9, <1>k, SameIsShrinks DEF RunGet
  <2>2. MovesOn(p) BY <1>9, <1>k, ReturnMovesOn DEF RunGet
  <2> QED BY <2>1, <2>2, QuietStep
<1> QED BY <1>1, <1>2, <1>3, <1>4, <1>5, <1>6, <1>7, <1>8, <1>9 DEF Run

\* Every step of remove, for retention or Delete, keeps it.
LEMMA RemoveSteps ==
    ASSUME FileDiscipline, NEW p \in Procs, Remove(p)
    PROVE  FileDiscipline'
<1>k. Kinds BY DEF FileDiscipline
<1>1. CASE DropFile(p) BY <1>1, DropFileStep
<1>2. CASE DropEnd(p)
  <2>1. Shrinks BY <1>2, <1>k, SameIsShrinks DEF DropEnd
  <2>2. CASE p \in Deleters BY <1>2, <1>k, <2>1, <2>2, EndMovesOn, QuietStep DEF DropEnd
  <2>3. CASE p \notin Deleters
    <3>1. MovesOn(p) BY <1>2, <1>k, <2>3, GotoMovesOn DEF DropEnd, Kinds, Pcs
    <3> QED BY <2>1, <3>1, QuietStep
  <2> QED BY <2>2, <2>3
<1>3. CASE \E i \in Ids : DropRow(p, i) BY <1>3, DropRowStep
<1> QED BY <1>1, <1>2, <1>3 DEF Remove

\* A restore writes no file of its own and touches no row.
LEMMA RestoreSteps ==
    ASSUME FileDiscipline, NEW r \in Restorers, Restore(r)
    PROVE  FileDiscipline'
<1>k. Kinds BY DEF FileDiscipline
<1>p. r \in Procs BY DEF Procs
<1>s. Shrinks
  BY <1>k, SameIsShrinks DEF Restore, RestoreOpen, RestoreFail, RestorePre, UploadAccepted,
     UploadDropped, UploadRefused, RestoreAwait, Watch
<1>1. \/ End(r)
      \/ \E l \in {"fetch", "upload", "await", "fail", "watch"} : Goto(r, l) /\ UNCHANGED callVars
  BY DEF Restore, RestoreOpen, RestoreFail, RestorePre, UploadAccepted,
     UploadDropped, UploadRefused, RestoreAwait, Watch
<1>2. CASE End(r) BY <1>k, <1>p, <1>s, <1>2, EndMovesOn, QuietStep
<1>3. ASSUME NEW l \in {"fetch", "upload", "await", "fail", "watch"}, Goto(r, l), UNCHANGED callVars
      PROVE  FileDiscipline'
  <2>1. MovesOn(r) BY <1>k, <1>p, <1>3, GotoMovesOn DEF callVars, Kinds, Pcs
  <2> QED BY <1>p, <1>s, <2>1, QuietStep
<1> QED BY <1>1, <1>2, <1>3

\* Beginning a call, locking, editing policies and deleting the device keep
\* it.
LEMMA PanelSteps ==
    ASSUME FileDiscipline, Panel
    PROVE  FileDiscipline'
<1>k. Kinds BY DEF FileDiscipline
<1>1. ASSUME NEW p \in Callers, RunBegin(p) PROVE FileDiscipline'
  <2>1. p \in Procs /\ Shrinks BY <1>1, <1>k, SameIsShrinks DEF RunBegin, Procs
  <2>2. MovesOn(p) BY <1>1, <1>k, <2>1, GotoMovesOn DEF RunBegin, callVars, Kinds, Pcs
  <2> QED BY <2>1, <2>2, QuietStep
<1>7. ASSUME NEW p \in Callers, RunDue(p) PROVE FileDiscipline'
  <2>1. p \in Procs /\ Shrinks BY <1>7, <1>k, SameIsShrinks DEF RunDue, Procs
  <2>2. MovesOn(p) BY <1>7, <1>k, <2>1, GotoMovesOn DEF RunDue, callVars, Kinds, Pcs
  <2> QED BY <2>1, <2>2, QuietStep
<1>2. ASSUME NEW p \in Deleters, NEW i \in Ids, DeleteRead(p, i) PROVE FileDiscipline'
  <2>1. p \in Procs /\ Shrinks BY <1>2, <1>k, SameIsShrinks DEF DeleteRead, Procs
  <2>2. drop' \in [Procs -> SUBSET Ids] BY <1>2, <1>k DEF DeleteRead, Kinds
  <2>3. MovesOn(p) BY <1>2, <1>k, <2>1, <2>2, GotoMovesOn DEF DeleteRead, Pcs
  <2> QED BY <2>1, <2>3, QuietStep
<1>3. ASSUME NEW r \in Restorers, NEW i \in Ids, RestoreRead(r, i) PROVE FileDiscipline'
  <2>1. r \in Procs /\ Shrinks BY <1>3, <1>k, SameIsShrinks DEF RestoreRead, Procs
  <2>2. MovesOn(r) BY <1>3, <1>k, <2>1, GotoMovesOn DEF RestoreRead, Kinds, Pcs
  <2> QED BY <2>1, <2>2, QuietStep
<1>4. ASSUME NEW i \in Ids, NEW b \in BOOLEAN, SetLock(i, b) PROVE FileDiscipline'
  <2>1. Shrinks BY <1>4, <1>k DEF SetLock, Shrinks, Kinds
  <2> QED BY <1>4, <2>1, IdleStep DEF SetLock
<1>5. ASSUME NEW r \in Rules, SetRule(r) PROVE FileDiscipline'
  <2>1. Shrinks BY <1>5, <1>k, SameIsShrinks DEF SetRule
  <2> QED BY <1>5, <2>1, IdleStep DEF SetRule
<1>6. CASE DeleteDevice
  <2>1. Shrinks BY <1>6, <1>k DEF DeleteDevice, Shrinks, Kinds
  <2> QED BY <1>6, <2>1, IdleStep DEF DeleteDevice
<1> QED BY <1>1, <1>2, <1>3, <1>4, <1>5, <1>6, <1>7 DEF Panel

\* After a restart no call holds a file; a file without a row may stay.
LEMMA RestartStep ==
    ASSUME FileDiscipline, Restart
    PROVE  FileDiscipline'
<1> USE DEF FileDiscipline, Restart, rowVars, diskVars
<1>1. Kinds' BY DEF Kinds, Pcs
<1>2. PathsApart' BY DEF PathsApart
<1>3. PendingFiles' BY DEF PendingFiles
<1>4. DoomedFiles' BY DEF DoomedFiles
<1>5. FilesPresent' BY DEF FilesPresent, Stored
<1> QED BY <1>1, <1>2, <1>3, <1>4, <1>5

\* Every step keeps the discipline, when no context ends early.
LEMMA DisciplineIsKept ==
    ASSUME FileDiscipline, [Next]_vars, story.abandoned = {}
    PROVE  FileDiscipline'
<1>k. Kinds BY DEF FileDiscipline
<1>1. CASE Panel BY <1>1, PanelSteps
<1>2. ASSUME NEW p \in Callers \cup Restorers, Run(p) PROVE FileDiscipline'
  BY <1>2, RunSteps DEF Procs
<1>3. ASSUME NEW p \in Procs, Remove(p) PROVE FileDiscipline' BY <1>3, RemoveSteps
<1>4. ASSUME NEW p \in Procs, Disconnect(p) PROVE FileDiscipline' BY <1>4 DEF Disconnect
<1>5. ASSUME NEW r \in Restorers, Restore(r) PROVE FileDiscipline' BY <1>5, RestoreSteps
<1>6. ASSUME NEW c \in Configs, Edit(c) PROVE FileDiscipline'
  BY <1>6, <1>k, SameIsShrinks, IdleStep DEF Edit
<1>7. CASE Reboot BY <1>7, <1>k, SameIsShrinks, IdleStep DEF Reboot
<1>8. CASE Advance BY <1>8, <1>k, SameIsShrinks, IdleStep DEF Advance
<1>9. CASE Restart BY <1>9, RestartStep
<1>10. CASE UNCHANGED vars BY <1>10, <1>k, SameIsShrinks, IdleStep DEF vars
<1> QED BY <1>1, <1>2, <1>3, <1>4, <1>5, <1>6, <1>7, <1>8, <1>9, <1>10 DEF Next

\* The empty store obeys it.
LEMMA DisciplineAtStart ==
    ASSUME Init
    PROVE  FileDiscipline
<1> USE DEF Init
<1>1. Kinds BY DEF Kinds, Pcs
<1>2. PathsApart BY DEF PathsApart
<1>3. PendingFiles BY DEF PendingFiles
<1>4. DoomedFiles BY DEF DoomedFiles
<1>5. FilesPresent BY DEF FilesPresent, Stored
<1> QED BY <1>1, <1>2, <1>3, <1>4, <1>5 DEF FileDiscipline

\* Nobody writes the story.
LEMMA StoryStays ==
    ASSUME [Next]_vars
    PROVE  story' = story
<1> USE DEF envVars
<1>1. CASE Panel
  BY <1>1 DEF Panel, RunBegin, RunDue, DeleteRead, RestoreRead, SetLock, SetRule, DeleteDevice
<1>2. ASSUME NEW p \in Callers \cup Restorers, Run(p) PROVE story' = story
  BY <1>2 DEF Run, RunFetch, RunFetchFails, RunCompare, RunWrite, RunWriteFails, RunInsert,
              RunInsertFails, RunRetain, RunGet
<1>3. ASSUME NEW p \in Procs, Remove(p) \/ Disconnect(p) PROVE story' = story
  BY <1>3 DEF Remove, DropRow, DropFile, DropEnd, Disconnect
<1>4. ASSUME NEW r \in Restorers, Restore(r) PROVE story' = story
  BY <1>4 DEF Restore, RestoreOpen, RestoreFail, RestorePre, UploadAccepted, UploadDropped,
              UploadRefused, RestoreAwait, Watch
<1>5. ASSUME NEW c \in Configs, Edit(c) PROVE story' = story BY <1>5 DEF Edit
<1>6. CASE Reboot \/ Advance \/ Restart BY <1>6 DEF Reboot, Advance, Restart
<1>7. CASE UNCHANGED vars BY <1>7 DEF vars
<1> QED BY <1>1, <1>2, <1>3, <1>4, <1>5, <1>6, <1>7 DEF Next

\* Every stored backup can be read: Run writes the file before the row and
\* remove deletes the row before the file, so no interleaving of backups,
\* retention, deletions, restores, device removal and crashes leaves a stored
\* row without its file, whatever the number of calls, backups and rules, when
\* no request is abandoned.
THEOREM BackupsAreReadable == Spec => []RowHasFile
<1> DEFINE Inv == story.abandoned = {} => FileDiscipline
<1>1. Init => Inv BY DisciplineAtStart
<1>2. Inv /\ [Next]_vars => Inv' BY DisciplineIsKept, StoryStays
<1>3. Inv => RowHasFile BY DEF FileDiscipline, RowHasFile
<1> HIDE DEF Inv
<1> QED BY <1>1, <1>2, <1>3, PTL DEF Spec

-----------------------------------------------------------------------------
(* Types, when a row or a file number is left for every call that may need  *)
(* one, and every configuration on its way is one.                           *)

\* TypeOK by what an action changes.
RowsTyped ==
    /\ exists \in BOOLEAN /\ lastId \in 0..MaxBackups
    /\ status \in [Ids -> {"none", "ok", "failed"}]
    /\ cfg \in [Ids -> Configs \cup {NoConfig}]
    /\ at \in [Ids -> 0..MaxClock]
    /\ locked \in [Ids -> BOOLEAN]
\* The rows of restore_jobs.
JobsTyped ==
    /\ job \in [Restorers -> {"none", "running", "waiting", "succeeded", "failed", "deleted"}]
    /\ jobOf \in [Restorers -> 0..MaxBackups]
\* The files and the rows that name them.
DiskTyped == path \in [Ids -> Nat] /\ files \subseteq Nat /\ lastFile \in 0..MaxBackups
\* The device.
DeviceTyped == config \in Configs /\ up \in BOOLEAN /\ applied \subseteq Restorers
\* The local variables of the calls.
CallsTyped ==
    /\ got \in [Procs -> Configs \cup {NoConfig}]
    /\ file \in [Procs -> Nat]
    /\ stamp \in [Procs -> 0..MaxClock]
    /\ drop \in [Procs -> SUBSET Ids]
    /\ made \in [Procs -> 0..MaxBackups]
    /\ want \in [Procs -> Configs \cup {NoConfig}]
    /\ gone \subseteq Procs
\* Clock, rule, story and what the properties observe.
EnvTyped ==
    /\ story \in Stories /\ rule \in Rules /\ lastRun \in 0..MaxClock /\ passes \in Nat
    /\ clock \in 0..MaxClock /\ crashes \in 0..story.crashes

\* The calls at one of some places.
With(f, S) == {p \in Procs : f[p] \in S}

\* Where a call may still insert a row; where it may still write a file.
InsertPcs == {"fetch", "compare", "write", "insert", "open"}
\* The steps of a call before its INSERT, at which it has taken no row.
WritePcs == {"fetch", "compare", "write", "open"}

\* There is a row and a file left for each of them.
Room ==
    /\ IsFiniteSet(With(pc, InsertPcs)) /\ lastId + Cardinality(With(pc, InsertPcs)) <= MaxBackups
    /\ IsFiniteSet(With(pc, WritePcs)) /\ lastFile + Cardinality(With(pc, WritePcs)) <= MaxBackups

\* What is stored, what Run has fetched and what Restore uploads is a
\* configuration.
Known ==
    /\ \A i \in Ids : status[i] = "ok" => cfg[i] \in Configs
    /\ \A p \in Procs : pc[p] \in {"compare", "write", "insert"} => got[p] \in Configs
    /\ \A r \in Restorers : pc[r] # "idle" => want[r] \in Configs /\ jobOf[r] \in Ids

\* The inductive invariant.
Typed == TypeOK /\ Room /\ Known

\* TypeOK is its parts, before a step and after it.
LEMMA TypeParts ==
    /\ TypeOK => /\ RowsTyped /\ JobsTyped /\ DiskTyped /\ DeviceTyped /\ pc \in [Procs -> Pcs]
                 /\ CallsTyped /\ EnvTyped
    /\ /\ RowsTyped' /\ JobsTyped' /\ DiskTyped' /\ DeviceTyped' /\ pc' \in [Procs -> Pcs]
       /\ CallsTyped' /\ EnvTyped'
       => TypeOK'
BY DEF TypeOK, RowsTyped, JobsTyped, DiskTyped, DeviceTyped, CallsTyped, EnvTyped

\* What stays keeps its type.
LEMMA SameTyped ==
    /\ RowsTyped /\ UNCHANGED rowVars => RowsTyped'
    /\ JobsTyped /\ UNCHANGED jobVars => JobsTyped'
    /\ DiskTyped /\ UNCHANGED diskVars => DiskTyped'
    /\ DeviceTyped /\ UNCHANGED devVars => DeviceTyped'
    /\ CallsTyped /\ UNCHANGED callVars => CallsTyped'
    /\ EnvTyped /\ UNCHANGED envVars => EnvTyped'
BY DEF RowsTyped, rowVars, JobsTyped, jobVars, DiskTyped, diskVars, DeviceTyped, devVars,
       CallsTyped, callVars, EnvTyped, envVars

\* The calls at some places before, f, and after p went to l, g.
Counts(f, g, p, l, S) ==
    /\ IsFiniteSet(With(g, S)) /\ Cardinality(With(f, S)) \in Nat /\ Cardinality(With(g, S)) \in Nat
    /\ l \notin S => Cardinality(With(g, S)) <= Cardinality(With(f, S))
    /\ f[p] \in S /\ l \notin S => Cardinality(With(g, S)) + 1 = Cardinality(With(f, S))
    /\ f[p] \in S => Cardinality(With(g, S)) <= Cardinality(With(f, S))
    /\ Cardinality(With(g, S)) <= Cardinality(With(f, S)) + 1

\* A call that moves joins or leaves the calls at some places.
LEMMA WithMoves ==
    ASSUME NEW f \in [Procs -> Pcs], NEW p \in Procs, NEW l \in Pcs, NEW S, IsFiniteSet(With(f, S))
    PROVE  Counts(f, [f EXCEPT ![p] = l], p, l, S)
<1> DEFINE g == [f EXCEPT ![p] = l]
<1> SUFFICES Counts(f, g, p, l, S) OBVIOUS
<1> USE DEF Counts
<1> DEFINE n == Cardinality(With(f, S))
           m == Cardinality(With(g, S))
<1>1. With(g, S) = IF l \in S THEN With(f, S) \cup {p} ELSE With(f, S) \ {p} BY DEF With
<1> HIDE DEF g
<1>2. p \in With(f, S) <=> f[p] \in S BY DEF With
<1>3. n \in Nat BY FS_CardinalityType
<1>4. CASE l \in S
  <2>1. With(g, S) = With(f, S) \cup {p} BY <1>1, <1>4
  <2>s. IsFiniteSet(With(f, S) \cup {p}) BY FS_AddElement
  <2>2. IsFiniteSet(With(g, S)) BY <2>1, <2>s
  <2>3. m = IF p \in With(f, S) THEN n ELSE n + 1 BY <2>1, FS_AddElement
  <2>4. m = IF f[p] \in S THEN n ELSE n + 1 BY <1>2, <2>3
  <2> HIDE DEF n, m
  <2>5. m \in Nat /\ (f[p] \in S => m <= n) /\ m <= n + 1 BY <1>3, <2>4
  <2> QED BY <1>3, <1>4, <2>2, <2>5 DEF n, m
<1>5. CASE l \notin S
  <2>1. With(g, S) = With(f, S) \ {p} BY <1>1, <1>5
  <2>2. IsFiniteSet(With(g, S)) BY <2>1, FS_RemoveElement
  <2>3. m = IF p \in With(f, S) THEN n - 1 ELSE n BY <2>1, FS_RemoveElement
  <2>4. m = IF f[p] \in S THEN n - 1 ELSE n BY <1>2, <2>3
  <2>5. m \in Nat BY <2>2, FS_CardinalityType
  <2> HIDE DEF n, m
  <2>6. m <= n /\ (f[p] \in S => m + 1 = n) /\ m <= n + 1 BY <1>3, <2>4, <2>5
  <2> QED BY <1>3, <1>5, <2>2, <2>5, <2>6 DEF n, m
<1> QED BY <1>4, <1>5

\* A call that begins when MayInsert says so, or goes on, keeps the room.
LEMMA RoomMoves ==
    ASSUME TypeOK, Room, NEW p \in Procs, NEW l \in Pcs, Goto(p, l),
           NEW a \in {0, 1}, lastId' = lastId + a, NEW b \in {0, 1}, lastFile' = lastFile + b,
           \/ a = 0 /\ b = 0 /\ MayInsert
           \/ /\ l \in InsertPcs => pc[p] \in InsertPcs /\ a = 0
              /\ a = 1 => pc[p] \in InsertPcs
              /\ l \in WritePcs => pc[p] \in WritePcs /\ b = 0
              /\ b = 1 => pc[p] \in WritePcs
    PROVE  Room' /\ lastId' \in 0..MaxBackups /\ lastFile' \in 0..MaxBackups
<1> DEFINE i == Cardinality(With(pc, InsertPcs))
           j == Cardinality(With(pc', InsertPcs))
           v == Cardinality(With(pc, WritePcs))
           w == Cardinality(With(pc', WritePcs))
<1>t. pc \in [Procs -> Pcs] /\ lastId \in Nat /\ lastFile \in Nat /\ MaxBackups \in Nat
  BY BackupConstants DEF TypeOK
<1>g. pc' = [pc EXCEPT ![p] = l] BY DEF Goto
<1>f. IsFiniteSet(With(pc, InsertPcs)) /\ IsFiniteSet(With(pc, WritePcs)) BY DEF Room
<1>c. Counts(pc, pc', p, l, InsertPcs) /\ Counts(pc, pc', p, l, WritePcs)
  BY <1>t, <1>g, <1>f, WithMoves
<1>1. /\ IsFiniteSet(With(pc', InsertPcs)) /\ i \in Nat /\ j \in Nat
      /\ l \notin InsertPcs => j <= i
      /\ pc[p] \in InsertPcs /\ l \notin InsertPcs => j + 1 = i
      /\ pc[p] \in InsertPcs => j <= i
      /\ j <= i + 1
  BY <1>c DEF Counts
<1>2. /\ IsFiniteSet(With(pc', WritePcs)) /\ v \in Nat /\ w \in Nat
      /\ l \notin WritePcs => w <= v
      /\ pc[p] \in WritePcs /\ l \notin WritePcs => w + 1 = v
      /\ pc[p] \in WritePcs => w <= v
      /\ w <= v + 1
  BY <1>c DEF Counts
<1>3. v <= i
  <2>1. With(pc, WritePcs) \subseteq With(pc, InsertPcs) BY DEF With, WritePcs, InsertPcs
  <2> QED BY <1>f, <2>1, FS_Subset
<1>4. MayInsert => lastId + i < MaxBackups /\ lastFile + i < MaxBackups
  <2>1. Inserting = With(pc, InsertPcs) BY DEF Inserting, With, InsertPcs
  <2> QED BY <2>1 DEF MayInsert
<1>5. lastId + i <= MaxBackups /\ lastFile + v <= MaxBackups BY DEF Room
<1> HIDE DEF i, j, v, w
<1>6. lastId' + j <= MaxBackups
  <2>1. CASE a = 0 /\ b = 0 /\ MayInsert BY <1>1, <1>4, <1>t, <2>1
  <2>2. CASE ~MayInsert \/ a = 1 \/ b = 1 BY <1>1, <1>5, <1>t, <2>2
  <2> QED BY <2>1, <2>2
<1>7. lastFile' + w <= MaxBackups
  <2>1. CASE a = 0 /\ b = 0 /\ MayInsert BY <1>2, <1>3, <1>1, <1>4, <1>t, <2>1
  <2>2. CASE ~MayInsert \/ a = 1 \/ b = 1 BY <1>2, <1>5, <1>t, <2>2
  <2> QED BY <2>1, <2>2
<1>8. lastId' \in 0..MaxBackups /\ lastFile' \in 0..MaxBackups BY <1>1, <1>2, <1>6, <1>7, <1>t
<1>9. Room' BY <1>1, <1>2, <1>6, <1>7 DEF Room, i, j, v, w
<1> QED BY <1>8, <1>9

\* A call ends, or goes to where it inserts no row any more.
Steps(p) ==
    /\ \E l \in Pcs \ InsertPcs : Goto(p, l)
    /\ CallsTyped'
    /\ \A q \in Procs \ {p} : got'[q] = got[q] /\ want'[q] = want[q]
    /\ pc'[p] = "idle" \/ p \notin Restorers \/ (pc[p] # "idle" /\ want'[p] = want[p])

\* Ending a call is such a step.
LEMMA EndSteps ==
    ASSUME TypeOK, NEW p \in Procs, End(p)
    PROVE  Steps(p)
<1>0. CallsTyped /\ pc \in [Procs -> Pcs] BY TypeParts
<1>1. Goto(p, "idle") /\ "idle" \in Pcs \ InsertPcs /\ pc'[p] = "idle" BY <1>0 DEF End, Goto, Pcs, InsertPcs
<1>2. CallsTyped' BY <1>0, BackupConstants DEF End, CallsTyped
<1>3. \A q \in Procs \ {p} : got'[q] = got[q] /\ want'[q] = want[q] BY <1>0 DEF End, CallsTyped
<1> QED BY <1>1, <1>2, <1>3 DEF Steps

\* So is going on.
LEMMA GoSteps ==
    ASSUME TypeOK, NEW p \in Procs, NEW l \in Pcs \ InsertPcs, Goto(p, l), CallsTyped',
           got' = got, want' = want, p \notin Restorers \/ pc[p] # "idle"
    PROVE  Steps(p)
BY DEF Steps

\* And returning from Run.
LEMMA ReturnSteps ==
    ASSUME TypeOK, NEW p \in Procs, pc[p] # "idle", NEW ok, Return(p, ok)
    PROVE  Steps(p)
<1>1. CASE p \in Restorers
  <2>1. UNCHANGED callVars BY <1>1 DEF Return
  <2>2. PICK l \in {"pre", "fail"} : Goto(p, l) BY <1>1 DEF Return
  <2>3. CallsTyped' BY <2>1, TypeParts, SameTyped
  <2> QED BY <2>1, <2>2, <2>3, GoSteps DEF callVars, Pcs, InsertPcs
<1>2. CASE p \notin Restorers BY <1>2, EndSteps DEF Return
<1> QED BY <1>1, <1>2

\* It keeps the types and the room when the rest does.
LEMMA StepsTyped ==
    ASSUME Typed, NEW p \in Procs, Steps(p), RowsTyped', JobsTyped', DiskTyped', DeviceTyped', EnvTyped',
           UNCHANGED <<lastId, lastFile, jobOf>>,
           \A i \in Ids : status'[i] = "ok" => status[i] = "ok" /\ cfg'[i] = cfg[i]
    PROVE  Typed'
<1>t. TypeOK /\ Room /\ Known /\ pc \in [Procs -> Pcs] /\ lastId \in Nat /\ lastFile \in Nat
  BY DEF Typed, TypeOK
<1>1. PICK l \in Pcs \ InsertPcs : Goto(p, l) BY DEF Steps
<1>2. pc' \in [Procs -> Pcs] BY <1>t, <1>1 DEF Goto
<1>3. TypeOK' BY <1>2, TypeParts DEF Steps
<1>4. Room'
  <2>1. lastId' = lastId + 0 /\ lastFile' = lastFile + 0 BY <1>t
  <2>2. l \notin WritePcs BY <1>1 DEF InsertPcs, WritePcs
  <2> QED BY <1>t, <1>1, <2>1, <2>2, RoomMoves
<1>5. Known'
  <2>1. \A i \in Ids : status'[i] = "ok" => cfg'[i] \in Configs BY <1>t DEF Known
  <2>2. \A q \in Procs : pc'[q] \in {"compare", "write", "insert"} => got'[q] \in Configs
    BY <1>t, <1>1 DEF Known, Goto, Steps, InsertPcs
  <2>3. \A r \in Restorers : pc'[r] # "idle" => want'[r] \in Configs /\ jobOf'[r] \in Ids
    BY <1>t, <1>1 DEF Known, Goto, Steps, Procs
  <2> QED BY <2>1, <2>2, <2>3 DEF Known
<1> QED BY <1>3, <1>4, <1>5 DEF Typed

\* An INSERT has its row, and stores a configuration.
LEMMA InsertTyped ==
    ASSUME Typed, NEW p \in Procs, pc[p] \in InsertPcs, Steps(p), NEW s \in {"ok", "failed"},
           NEW c \in Configs \cup {NoConfig}, s = "ok" => c \in Configs,
           NEW t \in 0..MaxClock, NEW f \in Nat, Insert(s, c, t, f),
           UNCHANGED <<jobVars, lastFile, devVars, envVars>>, files' \subseteq files
    PROVE  Typed' /\ lastId + 1 \in 0..MaxBackups
<1>t. TypeOK /\ Room /\ Known /\ pc \in [Procs -> Pcs] /\ lastId \in Nat /\ lastFile \in Nat
  BY DEF Typed, TypeOK
<1>p. RowsTyped /\ JobsTyped /\ DiskTyped /\ DeviceTyped /\ EnvTyped BY <1>t, TypeParts
<1>1. PICK l \in Pcs \ InsertPcs : Goto(p, l) BY DEF Steps
<1>2. pc' \in [Procs -> Pcs] BY <1>t, <1>1 DEF Goto
<1>3. Room' /\ lastId' \in 0..MaxBackups
  <2>1. lastId' = lastId + 1 /\ lastFile' = lastFile + 0 BY <1>t DEF Insert
  <2>2. l \notin WritePcs BY <1>1 DEF InsertPcs, WritePcs
  <2> QED BY <1>t, <1>1, <2>1, <2>2, RoomMoves
<1>4. RowsTyped' BY <1>p, <1>3 DEF RowsTyped, Insert
<1>5. DiskTyped' BY <1>p DEF DiskTyped, Insert
<1>6. JobsTyped' /\ DeviceTyped' /\ EnvTyped' BY <1>p, SameTyped
<1>7. TypeOK' BY <1>2, <1>4, <1>5, <1>6, TypeParts DEF Steps
<1>8. Known'
  <2>1. \A i \in Ids : status'[i] = "ok" => cfg'[i] \in Configs BY <1>t, <1>p DEF Known, Insert, RowsTyped
  <2>2. \A q \in Procs : pc'[q] \in {"compare", "write", "insert"} => got'[q] \in Configs
    BY <1>t, <1>1 DEF Known, Goto, Steps, InsertPcs
  <2>3. \A r \in Restorers : pc'[r] # "idle" => want'[r] \in Configs /\ jobOf'[r] \in Ids
    BY <1>t, <1>1 DEF Known, Goto, Steps, Procs, jobVars
  <2> QED BY <2>1, <2>2, <2>3 DEF Known
<1>9. lastId + 1 = lastId' BY DEF Insert
<1> QED BY <1>3, <1>7, <1>8, <1>9 DEF Typed

\* Steps that change no row, no job, no file name and no device.
LEMMA QuietTyped ==
    ASSUME Typed, NEW p \in Procs, Steps(p), UNCHANGED <<rowVars, jobVars, devVars, envVars, path, lastFile>>,
           files' \subseteq files
    PROVE  Typed'
<1>p. RowsTyped /\ JobsTyped /\ DiskTyped /\ DeviceTyped /\ EnvTyped BY TypeParts DEF Typed
<1>1. RowsTyped' /\ JobsTyped' /\ DeviceTyped' /\ EnvTyped' BY <1>p, SameTyped
<1>2. DiskTyped' BY <1>p DEF DiskTyped
<1> QED BY <1>1, <1>2, StepsTyped DEF rowVars, jobVars

\* A call of Run goes on towards its INSERT.
LEMMA OnTyped ==
    ASSUME Typed, NEW p \in Procs, NEW l \in {"fetch", "compare", "write"}, Goto(p, l),
           pc[p] \in WritePcs \/ (MayInsert /\ p \notin Restorers), CallsTyped', want' = want,
           \A q \in Procs \ {p} : got'[q] = got[q], l # "fetch" => got'[p] \in Configs,
           UNCHANGED <<rowVars, jobOf, diskVars>>, JobsTyped', DeviceTyped', EnvTyped'
    PROVE  Typed'
<1>t. TypeOK /\ Room /\ Known /\ pc \in [Procs -> Pcs] /\ lastId \in Nat /\ lastFile \in Nat
  BY DEF Typed, TypeOK
<1>0. l \in Pcs BY DEF Pcs
<1>1. pc' \in [Procs -> Pcs] BY <1>t, <1>0 DEF Goto
<1>2. RowsTyped' /\ DiskTyped' BY <1>t, TypeParts, SameTyped
<1>3. TypeOK' BY <1>1, <1>2, TypeParts
<1>4. Room'
  <2>1. lastId' = lastId + 0 /\ lastFile' = lastFile + 0 BY <1>t DEF rowVars, diskVars
  <2>2. l \in InsertPcs /\ l \in WritePcs BY DEF InsertPcs, WritePcs
  <2>3. pc[p] \in WritePcs => pc[p] \in InsertPcs BY DEF InsertPcs, WritePcs
  <2> QED BY <1>t, <1>0, <2>1, <2>2, <2>3, RoomMoves
<1>5. Known'
  <2>1. \A i \in Ids : status'[i] = "ok" => cfg'[i] \in Configs BY <1>t DEF Known, rowVars
  <2>2. \A q \in Procs : pc'[q] \in {"compare", "write", "insert"} => got'[q] \in Configs
    BY <1>t DEF Known, Goto
  <2>3. \A r \in Restorers : pc'[r] # "idle" => want'[r] \in Configs /\ jobOf'[r] \in Ids
    BY <1>t DEF Known, Goto, Procs, WritePcs
  <2> QED BY <2>1, <2>2, <2>3 DEF Known
<1> QED BY <1>3, <1>4, <1>5 DEF Typed

\* Every step of Run keeps the types.
LEMMA RunTyped ==
    ASSUME Typed, NEW p \in Callers \cup Restorers, Run(p)
    PROVE  Typed'
<1>t. TypeOK /\ Room /\ Known /\ p \in Procs /\ pc \in [Procs -> Pcs] BY DEF Typed, TypeOK, Procs
<1>p. RowsTyped /\ JobsTyped /\ DiskTyped /\ DeviceTyped /\ CallsTyped /\ EnvTyped BY <1>t, TypeParts
<1>c. clock \in 0..MaxClock /\ config \in Configs BY <1>p DEF EnvTyped, DeviceTyped
<1>1. CASE RunFetch(p)
  <2>1. PICK l \in {"write", "compare"} : Goto(p, l) BY <1>1 DEF RunFetch
  <2>2. CallsTyped' /\ (\A q \in Procs \ {p} : got'[q] = got[q]) /\ got'[p] \in Configs
    BY <1>1, <1>p, <1>c, <1>t DEF RunFetch, CallsTyped
  <2>3. JobsTyped' /\ DeviceTyped' /\ EnvTyped' BY <1>1, <1>p, SameTyped DEF RunFetch
  <2> QED BY <1>1, <1>t, <2>1, <2>2, <2>3, OnTyped DEF RunFetch, jobVars, WritePcs
<1>2. CASE RunFetchFails(p)
  <2>1. Steps(p) BY <1>2, <1>t, ReturnSteps DEF RunFetchFails
  <2>2. CASE UNCHANGED <<rowVars, path>> BY <1>2, <1>t, <2>1, <2>2, QuietTyped DEF RunFetchFails
  <2>3. CASE Insert("failed", NoConfig, clock, 0)
    BY <1>2, <1>t, <1>c, <2>1, <2>3, InsertTyped DEF RunFetchFails, InsertPcs
  <2> QED BY <1>2, <2>2, <2>3 DEF RunFetchFails
<1>3. CASE RunCompare(p)
  <2>1. CASE Return(p, p \notin gone)
    <3>1. Steps(p) BY <1>3, <1>t, <2>1, ReturnSteps DEF RunCompare
    <3> QED BY <1>3, <1>t, <3>1, QuietTyped DEF RunCompare, diskVars
  <2>2. CASE Goto(p, "write") /\ UNCHANGED callVars
    <3>1. CallsTyped' /\ JobsTyped' /\ DeviceTyped' /\ EnvTyped' BY <1>3, <1>p, <2>2, SameTyped DEF RunCompare
    <3>2. got'[p] \in Configs BY <1>3, <1>t, <2>2 DEF RunCompare, Known, callVars
    <3> QED BY <1>3, <1>t, <2>2, <3>1, <3>2, OnTyped DEF RunCompare, callVars, jobVars, WritePcs
  <2> QED BY <1>3, <2>1, <2>2 DEF RunCompare
<1>4. CASE RunWrite(p)
  <2>0. lastFile \in Nat /\ lastId \in Nat BY <1>p DEF DiskTyped, RowsTyped
  <2>1. pc' \in [Procs -> Pcs] BY <1>4, <1>t DEF RunWrite, Goto, Pcs
  <2>2. RowsTyped' /\ JobsTyped' /\ DeviceTyped' /\ EnvTyped' BY <1>4, <1>p, SameTyped DEF RunWrite
  <2>3. Room' /\ lastFile' \in 0..MaxBackups
    <3>1. Goto(p, "insert") /\ "insert" \in Pcs /\ lastId' = lastId + 0 /\ lastFile' = lastFile + 1
      BY <1>4, <2>0 DEF RunWrite, Pcs, rowVars
    <3>2. pc[p] \in WritePcs /\ pc[p] \in InsertPcs /\ "insert" \notin WritePcs
      BY <1>4 DEF RunWrite, WritePcs, InsertPcs
    <3> QED BY <1>t, <3>1, <3>2, RoomMoves
  <2>4. DiskTyped' BY <1>4, <1>p, <2>0, <2>3 DEF RunWrite, DiskTyped, NewName
  <2>m. file' = [file EXCEPT ![p] = lastFile + 1] /\ file \in [Procs -> Nat]
    BY <1>4, <1>p DEF RunWrite, NewName, CallsTyped
  <2>n. file' \in [Procs -> Nat] BY <1>t, <2>m, <2>0, SMTT(30)
  <2>5. CallsTyped' BY <1>4, <1>p, <1>c, <2>n DEF RunWrite, CallsTyped
  <2>6. TypeOK' BY <2>1, <2>2, <2>4, <2>5, TypeParts
  <2>7. Known' BY <1>4, <1>t DEF Known, RunWrite, Goto, rowVars, jobVars, Procs
  <2> QED BY <2>3, <2>6, <2>7 DEF Typed
<1>5. CASE RunWriteFails(p)
  <2>1. Steps(p) BY <1>5, <1>t, ReturnSteps DEF RunWriteFails
  <2> QED BY <1>5, <1>t, <2>1, QuietTyped DEF RunWriteFails, diskVars
<1>g. pc[p] = "insert" => got[p] \in Configs /\ stamp[p] \in 0..MaxClock /\ file[p] \in Nat
  BY <1>t, <1>p DEF Known, CallsTyped
<1>6. CASE RunInsert(p)
  <2>1. Insert("ok", got[p], stamp[p], file[p]) /\ pc[p] \in InsertPcs /\ pc[p] # "idle"
    BY <1>6 DEF RunInsert, InsertPcs
  <2>2. lastId + 1 \in 0..MaxBackups
    <3> DEFINE n == Cardinality(With(pc, InsertPcs))
    <3>1. p \in With(pc, InsertPcs) BY <1>t, <2>1 DEF With
    <3>f. IsFiniteSet(With(pc, InsertPcs)) /\ With(pc, InsertPcs) # {} BY <1>t, <3>1 DEF Room
    <3>2. n \in Nat /\ n # 0 BY <3>f, FS_CardinalityType, FS_EmptySet
    <3>3. lastId + n <= MaxBackups /\ lastId \in Nat /\ MaxBackups \in Nat
      BY <1>t, <1>p, BackupConstants DEF Room, RowsTyped
    <3> HIDE DEF n
    <3> QED BY <3>2, <3>3
  <2>3. CallsTyped' BY <1>6, <1>p, <2>2 DEF RunInsert, CallsTyped
  <2>4. Steps(p) BY <1>6, <1>t, <2>1, <2>3, GoSteps DEF RunInsert, Pcs, InsertPcs
  <2> QED BY <1>6, <1>t, <1>g, <2>1, <2>4, InsertTyped DEF RunInsert
<1>7. CASE RunInsertFails(p)
  <2>1. Steps(p) BY <1>7, <1>t, ReturnSteps DEF RunInsertFails
  <2>2. CASE UNCHANGED <<rowVars, path>> BY <1>7, <1>t, <2>1, <2>2, QuietTyped DEF RunInsertFails
  <2>3. CASE Insert("ok", got[p], stamp[p], file[p])
    BY <1>7, <1>t, <1>g, <2>1, <2>3, InsertTyped DEF RunInsertFails, InsertPcs
  <2> QED BY <1>7, <2>2, <2>3 DEF RunInsertFails
<1>8. CASE RunRetain(p)
  <2>1. RetentionDrop(rule) \in SUBSET Ids BY DEF RetentionDrop, Rows
  <2>2. CallsTyped' BY <1>8, <1>p, <2>1 DEF RunRetain, CallsTyped
  <2>3. PICK l \in {"drop", "get"} : Goto(p, l) BY <1>8 DEF RunRetain
  <2>4. Steps(p) BY <1>8, <1>t, <2>2, <2>3, GoSteps DEF RunRetain, Pcs, InsertPcs
  <2> QED BY <1>8, <1>t, <2>4, QuietTyped DEF RunRetain, diskVars
<1>9. CASE RunGet(p)
  <2>1. Steps(p) BY <1>9, <1>t, ReturnSteps DEF RunGet
  <2> QED BY <1>9, <1>t, <2>1, QuietTyped DEF RunGet, diskVars
<1> QED BY <1>1, <1>2, <1>3, <1>4, <1>5, <1>6, <1>7, <1>8, <1>9 DEF Run

\* Every step of remove keeps them.
LEMMA RemoveTyped ==
    ASSUME Typed, NEW p \in Procs, Remove(p)
    PROVE  Typed'
<1>t. TypeOK /\ Room /\ Known /\ pc \in [Procs -> Pcs] BY DEF Typed, TypeOK
<1>p. RowsTyped /\ JobsTyped /\ DiskTyped /\ DeviceTyped /\ CallsTyped /\ EnvTyped BY <1>t, TypeParts
<1>1. CASE DropFile(p)
  <2>1. CallsTyped' BY <1>1, <1>p, SameTyped DEF DropFile
  <2>2. Steps(p) BY <1>1, <1>t, <2>1, GoSteps DEF DropFile, Pcs, InsertPcs, callVars
  <2> QED BY <1>1, <1>t, <2>2, QuietTyped DEF DropFile
<1>2. CASE DropEnd(p)
  <2>1. CASE End(p) BY <1>2, <1>t, <2>1, EndSteps, QuietTyped DEF DropEnd, diskVars
  <2>2. CASE p \notin Deleters
    <3>1. CallsTyped' BY <1>2, <1>p, <2>2 DEF DropEnd, CallsTyped
    <3>2. Steps(p) BY <1>2, <1>t, <2>2, <3>1, GoSteps DEF DropEnd, Pcs, InsertPcs
    <3> QED BY <1>2, <1>t, <3>2, QuietTyped DEF DropEnd, diskVars
  <2> QED BY <1>2, <2>1, <2>2 DEF DropEnd
<1>3. ASSUME NEW i \in Ids, DropRow(p, i) PROVE Typed'
  <2> USE <1>3 DEF DropRow
  <2>1. CallsTyped' BY <1>p DEF CallsTyped, DiskTyped
  <2>2. Steps(p) BY <1>t, <2>1, GoSteps DEF Pcs, InsertPcs
  <2>3. RowsTyped' BY <1>p, BackupConstants DEF RowsTyped
  <2>4. JobsTyped' BY <1>p DEF JobsTyped
  <2>5. DiskTyped' /\ DeviceTyped' /\ EnvTyped' BY <1>p, SameTyped
  <2>6. \A j \in Ids : status'[j] = "ok" => status[j] = "ok" /\ cfg'[j] = cfg[j] BY <1>p DEF RowsTyped
  <2> QED BY <1>t, <2>2, <2>3, <2>4, <2>5, <2>6, StepsTyped DEF diskVars
<1> QED BY <1>1, <1>2, <1>3 DEF Remove

\* finish writes a status of a job.
LEMMA FinishTyped ==
    ASSUME JobsTyped, NEW r \in Restorers, NEW s \in {"waiting", "succeeded", "failed"}, Finish(r, s), jobOf' = jobOf
    PROVE  JobsTyped'
BY DEF JobsTyped, Finish

\* Every step of a restore keeps them; what the device accepts is a
\* configuration.
LEMMA RestoreTyped ==
    ASSUME Typed, NEW r \in Restorers, Restore(r)
    PROVE  Typed'
<1>t. TypeOK /\ Room /\ Known /\ r \in Procs /\ pc \in [Procs -> Pcs] BY DEF Typed, TypeOK, Procs
<1>p. RowsTyped /\ JobsTyped /\ DiskTyped /\ DeviceTyped /\ CallsTyped /\ EnvTyped BY <1>t, TypeParts
<1>e. ASSUME NEW l \in Pcs \ InsertPcs, Goto(r, l) /\ UNCHANGED callVars, pc[r] # "idle" PROVE Steps(r)
  <2>1. CallsTyped' BY <1>e, <1>p, SameTyped
  <2> QED BY <1>e, <1>t, <2>1, GoSteps DEF callVars
<1>s. ASSUME Steps(r), UNCHANGED <<rowVars, jobOf, diskVars, envVars>>, JobsTyped', DeviceTyped' PROVE Typed'
  <2>1. RowsTyped' /\ DiskTyped' /\ EnvTyped' BY <1>s, <1>p, SameTyped
  <2> QED BY <1>s, <1>t, <2>1, StepsTyped DEF rowVars, diskVars
<1>1. CASE RestoreOpen(r)
  <2>1. JobsTyped' BY <1>1, <1>p DEF RestoreOpen, JobsTyped
  <2>2. DeviceTyped' /\ EnvTyped' BY <1>1, <1>p, SameTyped DEF RestoreOpen
  <2>3. CASE End(r) BY <1>1, <1>s, <1>t, <2>1, <2>2, <2>3, EndSteps DEF RestoreOpen
  <2>4. CASE Goto(r, "fetch") /\ UNCHANGED callVars
    <3>1. CallsTyped' BY <1>p, <2>4, SameTyped
    <3> QED BY <1>1, <1>t, <2>1, <2>2, <2>4, <3>1, OnTyped DEF RestoreOpen, callVars, WritePcs
  <2> QED BY <1>1, <2>3, <2>4 DEF RestoreOpen
<1>2. CASE RestoreFail(r)
  <2>1. JobsTyped' /\ DeviceTyped' BY <1>2, <1>p, FinishTyped, SameTyped DEF RestoreFail
  <2> QED BY <1>2, <1>s, <1>t, <2>1, EndSteps DEF RestoreFail
<1>3. CASE RestorePre(r)
  <2>1. JobsTyped' /\ DeviceTyped' BY <1>3, <1>p, SameTyped DEF RestorePre
  <2>2. Steps(r)
    <3>1. CASE End(r) BY <1>t, <3>1, EndSteps
    <3>2. CASE Goto(r, "upload") /\ UNCHANGED callVars BY <1>3, <1>e, <3>2 DEF RestorePre, Pcs, InsertPcs
    <3> QED BY <1>3, <3>1, <3>2 DEF RestorePre
  <2> QED BY <1>3, <1>s, <2>1, <2>2 DEF RestorePre, jobVars
<1>4. CASE UploadAccepted(r)
  <2>1. want[r] \in Configs BY <1>4, <1>t DEF UploadAccepted, Known
  <2>2. JobsTyped' BY <1>4, <1>p, SameTyped DEF UploadAccepted
  <2>3. DeviceTyped' BY <1>4, <1>p, <2>1 DEF UploadAccepted, DeviceTyped
  <2>4. Steps(r) BY <1>4, <1>e DEF UploadAccepted, Pcs, InsertPcs
  <2> QED BY <1>4, <1>s, <2>2, <2>3, <2>4 DEF UploadAccepted, jobVars
<1>5. CASE UploadDropped(r) \/ UploadRefused(r)
  <2>1. JobsTyped' /\ DeviceTyped' BY <1>5, <1>p, SameTyped DEF UploadDropped, UploadRefused
  <2>2. Steps(r) BY <1>5, <1>e DEF UploadDropped, UploadRefused, Pcs, InsertPcs
  <2> QED BY <1>5, <1>s, <2>1, <2>2 DEF UploadDropped, UploadRefused, jobVars
<1>6. CASE RestoreAwait(r)
  <2>1. JobsTyped'
    <3>1. CASE Finish(r, "waiting") BY <1>6, <1>p, <3>1, FinishTyped DEF RestoreAwait
    <3>2. CASE UNCHANGED job BY <1>6, <1>p, <3>2 DEF RestoreAwait, JobsTyped
    <3> QED BY <1>6, <3>1, <3>2 DEF RestoreAwait
  <2>2. DeviceTyped' BY <1>6, <1>p, SameTyped DEF RestoreAwait
  <2>3. Steps(r)
    <3>1. CASE End(r) BY <1>t, <3>1, EndSteps
    <3>2. CASE Goto(r, "watch") /\ UNCHANGED callVars BY <1>6, <1>e, <3>2 DEF RestoreAwait, Pcs, InsertPcs
    <3> QED BY <1>6, <3>1, <3>2 DEF RestoreAwait
  <2> QED BY <1>6, <1>s, <2>1, <2>2, <2>3 DEF RestoreAwait
<1>7. CASE Watch(r)
  <2>1. JobsTyped' /\ DeviceTyped' BY <1>7, <1>p, FinishTyped, SameTyped DEF Watch
  <2> QED BY <1>7, <1>s, <1>t, <2>1, EndSteps DEF Watch
<1> QED BY <1>1, <1>2, <1>3, <1>4, <1>5, <1>6, <1>7 DEF Restore

\* A step that moves no call.
LEMMA StillTyped ==
    ASSUME Typed, UNCHANGED <<pc, got, want, lastId, lastFile, jobOf>>, RowsTyped', JobsTyped', DiskTyped',
           DeviceTyped', CallsTyped', EnvTyped',
           \A i \in Ids : status'[i] = "ok" => status[i] = "ok" /\ cfg'[i] = cfg[i]
    PROVE  Typed'
<1>t. TypeOK /\ Room /\ Known /\ pc \in [Procs -> Pcs] BY DEF Typed, TypeOK
<1>1. TypeOK' BY <1>t, TypeParts
<1>2. Room' BY <1>t DEF Room
<1>3. Known' BY <1>t DEF Known
<1> QED BY <1>1, <1>2, <1>3 DEF Typed

\* What users and the scheduler begin keeps them.
LEMMA PanelTyped ==
    ASSUME Typed, Panel
    PROVE  Typed'
<1>t. TypeOK /\ Room /\ Known /\ pc \in [Procs -> Pcs] BY DEF Typed, TypeOK
<1>p. RowsTyped /\ JobsTyped /\ DiskTyped /\ DeviceTyped /\ CallsTyped /\ EnvTyped BY <1>t, TypeParts
<1>1. ASSUME NEW p \in Callers, RunBegin(p) PROVE Typed'
  <2>1. CallsTyped' /\ JobsTyped' /\ DeviceTyped' /\ EnvTyped' BY <1>1, <1>p, SameTyped DEF RunBegin
  <2>2. p \in Procs /\ p \notin Restorers BY BackupConstants DEF Procs
  <2> QED BY <1>1, <2>1, <2>2, OnTyped DEF RunBegin, callVars, jobVars
<1>2. ASSUME NEW p \in Callers, RunDue(p) PROVE Typed'
  <2>1. CallsTyped' /\ JobsTyped' /\ DeviceTyped' BY <1>2, <1>p, SameTyped DEF RunDue
  <2>2. EnvTyped' BY <1>2, <1>p DEF RunDue, EnvTyped, Stamp
  <2>3. p \in Procs /\ p \notin Restorers BY BackupConstants DEF Procs
  <2> QED BY <1>2, <2>1, <2>2, <2>3, OnTyped DEF RunDue, callVars, jobVars
<1>3. ASSUME NEW p \in Deleters, NEW i \in Ids, DeleteRead(p, i) PROVE Typed'
  <2>1. p \in Procs /\ p \notin Restorers BY BackupConstants DEF Procs
  <2>2. CallsTyped' BY <1>3, <1>p DEF DeleteRead, CallsTyped
  <2>3. Steps(p) BY <1>3, <1>t, <2>1, <2>2, GoSteps DEF DeleteRead, Pcs, InsertPcs
  <2> QED BY <1>3, <2>1, <2>3, QuietTyped DEF DeleteRead, diskVars
<1>4. ASSUME NEW r \in Restorers, NEW i \in Ids, RestoreRead(r, i) PROVE Typed'
  <2>0. r \in Procs /\ "open" \in Pcs /\ lastId \in Nat /\ lastFile \in Nat /\ i \in 0..MaxBackups
    BY <1>t DEF Procs, Pcs, TypeOK, Ids
  <2>1. cfg[i] \in Configs BY <1>4, <1>t DEF RestoreRead, Known, Stored
  <2>2. pc' \in [Procs -> Pcs] BY <1>4, <1>t, <2>0 DEF RestoreRead, Goto
  <2>3. RowsTyped' /\ DiskTyped' /\ DeviceTyped' /\ EnvTyped' BY <1>4, <1>p, SameTyped DEF RestoreRead
  <2>4. JobsTyped' BY <1>4, <1>p, <2>0 DEF RestoreRead, JobsTyped
  <2>5. CallsTyped' BY <1>4, <1>p, <2>1 DEF RestoreRead, CallsTyped
  <2>6. TypeOK' BY <2>2, <2>3, <2>4, <2>5, TypeParts
  <2>7. Room'
    <3>1. lastId' = lastId + 0 /\ lastFile' = lastFile + 0 BY <1>4, <2>0 DEF RestoreRead, rowVars, diskVars
    <3>2. Goto(r, "open") /\ MayInsert BY <1>4 DEF RestoreRead
    <3> QED BY <1>t, <2>0, <3>1, <3>2, RoomMoves
  <2>8. Known'
    BY <1>4, <1>t, <1>p, <2>0, <2>1 DEF Known, RestoreRead, Goto, rowVars, JobsTyped, CallsTyped, Procs
  <2> QED BY <2>6, <2>7, <2>8 DEF Typed
<1>5. ASSUME NEW i \in Ids, NEW b \in BOOLEAN, SetLock(i, b) PROVE Typed'
  <2>1. RowsTyped' BY <1>5, <1>p DEF SetLock, RowsTyped
  <2>2. JobsTyped' /\ DiskTyped' /\ DeviceTyped' /\ CallsTyped' /\ EnvTyped' BY <1>5, <1>p, SameTyped DEF SetLock
  <2> QED BY <1>5, <2>1, <2>2, StillTyped DEF SetLock, jobVars, diskVars, callVars
<1>6. ASSUME NEW r \in Rules, SetRule(r) PROVE Typed'
  <2>1. RowsTyped' /\ JobsTyped' /\ DiskTyped' /\ DeviceTyped' /\ CallsTyped' BY <1>6, <1>p, SameTyped DEF SetRule
  <2>2. EnvTyped' BY <1>6, <1>p DEF SetRule, EnvTyped
  <2> QED BY <1>6, <2>1, <2>2, StillTyped DEF SetRule, rowVars, jobVars, diskVars, callVars
<1>7. CASE DeleteDevice
  <2>1. RowsTyped' BY <1>7, <1>p DEF DeleteDevice, RowsTyped
  <2>2. JobsTyped' BY <1>7, <1>p DEF DeleteDevice, JobsTyped
  <2>3. DiskTyped' /\ DeviceTyped' /\ CallsTyped' /\ EnvTyped' BY <1>7, <1>p, SameTyped DEF DeleteDevice
  <2> QED BY <1>7, <2>1, <2>2, <2>3, StillTyped DEF DeleteDevice, diskVars, callVars
<1> QED BY <1>1, <1>2, <1>3, <1>4, <1>5, <1>6, <1>7 DEF Panel

\* So do contexts that end, the device, the clock and a restart.
LEMMA WorldTyped ==
    ASSUME Typed, \/ \E p \in Procs : Disconnect(p)
                  \/ \E c \in Configs : Edit(c)
                  \/ Reboot \/ Advance \/ Restart \/ UNCHANGED vars
    PROVE  Typed'
<1>t. TypeOK /\ Room /\ Known /\ pc \in [Procs -> Pcs] BY DEF Typed, TypeOK
<1>p. RowsTyped /\ JobsTyped /\ DiskTyped /\ DeviceTyped /\ CallsTyped /\ EnvTyped BY <1>t, TypeParts
<1>1. ASSUME NEW p \in Procs, Disconnect(p) PROVE Typed'
  <2>1. RowsTyped' /\ JobsTyped' /\ DiskTyped' /\ DeviceTyped' /\ EnvTyped' BY <1>1, <1>p, SameTyped DEF Disconnect
  <2>2. CallsTyped' BY <1>1, <1>p DEF Disconnect, CallsTyped
  <2> QED BY <1>1, <2>1, <2>2, StillTyped DEF Disconnect, rowVars, jobVars, diskVars
<1>2. ASSUME (\E c \in Configs : Edit(c)) \/ Reboot PROVE Typed'
  <2>1. RowsTyped' /\ JobsTyped' /\ DiskTyped' /\ CallsTyped' /\ EnvTyped' BY <1>2, <1>p, SameTyped DEF Edit, Reboot
  <2>2. DeviceTyped' BY <1>2, <1>p DEF Edit, Reboot, DeviceTyped
  <2> QED BY <1>2, <2>1, <2>2, StillTyped DEF Edit, Reboot, rowVars, jobVars, diskVars, callVars
<1>3. CASE Advance
  <2>1. RowsTyped' /\ JobsTyped' /\ DiskTyped' /\ DeviceTyped' /\ CallsTyped' BY <1>3, <1>p, SameTyped DEF Advance
  <2>2. EnvTyped'
    <3>1. story.clock \in 0..MaxClock BY <1>p, BackupConstants DEF EnvTyped, Story
    <3> QED BY <1>3, <1>p, <3>1, BackupConstants DEF Advance, EnvTyped
  <2> QED BY <1>3, <2>1, <2>2, StillTyped DEF Advance, rowVars, jobVars, diskVars, callVars
<1>4. CASE Restart
  <2>1. RowsTyped' /\ DiskTyped' /\ DeviceTyped' BY <1>4, <1>p, SameTyped DEF Restart
  <2>2. JobsTyped' BY <1>4, <1>p DEF Restart, JobsTyped, RecoverJob
  <2>3. EnvTyped'
    <3>1. story.crashes \in Nat BY <1>p, BackupConstants DEF EnvTyped, Story
    <3> QED BY <1>4, <1>p, <3>1 DEF Restart, EnvTyped
  <2>4. CallsTyped' BY <1>4, BackupConstants DEF Restart, CallsTyped
  <2>5. pc' \in [Procs -> Pcs] /\ \A p \in Procs : pc'[p] = "idle" BY <1>4 DEF Restart, Pcs
  <2>6. TypeOK' BY <2>1, <2>2, <2>3, <2>4, <2>5, TypeParts
  <2>7. Room'
    <3>1. With(pc', InsertPcs) = {} /\ With(pc', WritePcs) = {} BY <2>5 DEF With, InsertPcs, WritePcs
    <3>2. IsFiniteSet({}) /\ Cardinality({}) = 0 BY FS_EmptySet
    <3>3. lastId' + 0 <= MaxBackups /\ lastFile' + 0 <= MaxBackups
      BY <1>4, <1>p, BackupConstants DEF RowsTyped, DiskTyped, Restart, rowVars, diskVars
    <3> QED BY <3>1, <3>2, <3>3 DEF Room
  <2>8. Known' BY <1>4, <1>t, <2>5 DEF Known, Restart, rowVars, Procs
  <2> QED BY <2>6, <2>7, <2>8 DEF Typed
<1>5. CASE UNCHANGED vars
  <2>1. RowsTyped' /\ JobsTyped' /\ DiskTyped' /\ DeviceTyped' /\ CallsTyped' /\ EnvTyped' BY <1>5, <1>p, SameTyped DEF vars
  <2> QED BY <1>5, <2>1, StillTyped DEF vars, rowVars, jobVars, diskVars, callVars
<1> QED BY <1>1, <1>2, <1>3, <1>4, <1>5

\* A new store is typed.
LEMMA InitTyped == Init => Typed
<1> SUFFICES ASSUME Init PROVE Typed OBVIOUS
<1> USE DEF Init
<1>0. story \in Story /\ \A p \in Procs : pc[p] = "idle" BY BackupConstants
<1>1. TypeOK
  <2>1. story.crashes \in Nat /\ story.rules \subseteq Rules BY <1>0 DEF Story
  <2> QED BY <1>0, <2>1, BackupConstants DEF TypeOK, Pcs
<1>2. Room
  <2>1. With(pc, InsertPcs) = {} /\ With(pc, WritePcs) = {} BY <1>0 DEF With, InsertPcs, WritePcs
  <2>2. IsFiniteSet({}) /\ Cardinality({}) = 0 BY FS_EmptySet
  <2>3. lastId + 0 <= MaxBackups /\ lastFile + 0 <= MaxBackups BY BackupConstants
  <2> QED BY <2>1, <2>2, <2>3 DEF Room
<1>3. Known BY <1>0 DEF Known, Procs
<1> QED BY <1>1, <1>2, <1>3 DEF Typed

\* Types hold, and rows, files and configurations are there when needed.
LEMMA TypedAlways == Spec => []Typed
<1>1. Typed /\ [Next]_vars => Typed'
  <2> SUFFICES ASSUME Typed, [Next]_vars PROVE Typed' OBVIOUS
  <2> QED BY PanelTyped, RunTyped, RemoveTyped, RestoreTyped, WorldTyped DEF Next
<1> QED BY InitTyped, <1>1, PTL DEF Spec

-----------------------------------------------------------------------------
(* Retention: what a call is about to remove. *)

\* Every row some call is about to remove was there. Where users delete none, a
\* newer backup is stored; where no policy applies either, only failures go.
Drops ==
    /\ rule \in story.rules
    /\ \A i \in Ids : i > lastId => status[i] = "none"
    /\ \A p \in Procs : \A i \in drop[p] : i <= lastId
    /\ story.calls \cap Deleters = {} =>
          \A p \in Procs : \A i \in drop[p] : status[i] = "ok" => \E j \in Stored : Newer(j, i)
    /\ BackupsStay => \A p \in Procs : \A i \in drop[p] : status[i] # "ok"

\* A step that changes no row and adds nothing to remove.
Spares == UNCHANGED <<status, at, lastId, story>> /\ rule' \in story.rules /\ \A p \in Procs : drop'[p] \subseteq drop[p]

\* Such a step keeps Drops.
LEMMA SparesDrops ==
    ASSUME Drops, Spares
    PROVE  Drops'
<1> USE DEF Drops, Spares
<1>1. \A i \in Ids : i > lastId' => status'[i] = "none" OBVIOUS
<1>2. \A p \in Procs : \A i \in drop'[p] : i <= lastId' OBVIOUS
<1>3. story'.calls \cap Deleters = {} =>
          \A p \in Procs : \A i \in drop'[p] : status'[i] = "ok" => \E j \in Stored' : Newer(j, i)'
  BY DEF Stored, Newer
<1>4. BackupsStay' => \A p \in Procs : \A i \in drop'[p] : status'[i] # "ok" BY DEF BackupsStay
<1> QED BY <1>1, <1>2, <1>3, <1>4

\* A new row is at the end.
LEMMA InsertDrops ==
    ASSUME Typed, Drops, NEW s, NEW c, NEW t, NEW f, Insert(s, c, t, f), UNCHANGED <<story, rule>>,
           \A p \in Procs : drop'[p] \subseteq drop[p]
    PROVE  Drops'
<1>t. /\ drop \in [Procs -> SUBSET Ids] /\ lastId \in Nat /\ Ids \subseteq Nat
      /\ status \in [Ids -> {"none", "ok", "failed"}] /\ at \in [Ids -> 0..MaxClock]
  BY IdsAreNumbers DEF Typed, TypeOK
<1> USE DEF Drops
<1>1. lastId' = lastId + 1 /\ \A i \in Ids : i # lastId + 1 => status'[i] = status[i] /\ at'[i] = at[i]
  BY <1>t DEF Insert
<1>2. \A p \in Procs : \A i \in drop'[p] : i \in Ids /\ i \in drop[p] /\ i # lastId + 1 /\ i <= lastId
  <2> SUFFICES ASSUME NEW p \in Procs, NEW i \in drop'[p]
               PROVE  i \in Ids /\ i \in drop[p] /\ i # lastId + 1 /\ i <= lastId
    OBVIOUS
  <2>1. i \in drop[p] OBVIOUS
  <2>2. i \in Ids /\ i \in Nat BY <1>t, <2>1
  <2>3. i <= lastId /\ lastId \in Nat BY <1>t, <2>1
  <2>4. i # lastId + 1 BY ONLY <2>2, <2>3
  <2> QED BY <2>1, <2>2, <2>3, <2>4
<1>3. \A i \in Ids : i > lastId' => status'[i] = "none" BY <1>t, <1>1
<1>4. ASSUME NEW p \in Procs, NEW i \in drop'[p] PROVE i <= lastId'
  <2>1. i \in Ids /\ i <= lastId BY <1>2
  <2>2. i \in Nat /\ lastId \in Nat /\ lastId' = lastId + 1 BY <1>t, <1>1, <2>1
  <2> QED BY ONLY <2>1, <2>2
<1>5. ASSUME story.calls \cap Deleters = {}, NEW p \in Procs, NEW i \in drop'[p], status'[i] = "ok"
      PROVE  \E j \in Stored' : Newer(j, i)'
  <2>1. i \in drop[p] /\ i \in Ids /\ status[i] = "ok" /\ at'[i] = at[i] BY <1>1, <1>2, <1>5
  <2>2. PICK j \in Stored : Newer(j, i) BY <1>5, <2>1
  <2>3. j \in Ids /\ status[j] = "ok" BY <2>2 DEF Stored
  <2>4. j # lastId + 1 BY <1>t, <2>3
  <2>5. status'[j] = "ok" /\ at'[j] = at[j] BY <1>1, <2>3, <2>4
  <2> QED BY <2>1, <2>2, <2>3, <2>5 DEF Newer, Stored
<1>6. BackupsStay' => \A p \in Procs : \A i \in drop'[p] : status'[i] # "ok"
  BY <1>1, <1>2 DEF BackupsStay
<1> QED BY <1>3, <1>4, <1>5, <1>6

\* Newer is transitive.
LEMMA NewerOrder ==
    ASSUME TypeOK, NEW i \in Ids, NEW j \in Ids, NEW k \in Ids
    PROVE  (Newer(i, j) /\ Newer(j, k) => Newer(i, k)) /\ ~Newer(i, i)
<1>1. at[i] \in Int /\ at[j] \in Int /\ at[k] \in Int /\ i \in Int /\ j \in Int /\ k \in Int
  BY IdsAreNumbers DEF TypeOK
<1> QED BY <1>1 DEF Newer

\* applyRetention spares the newest stored backup, and all of them without a
\* rule.
LEMMA RetentionSpares ==
    ASSUME Typed, Drops
    PROVE  \A i \in RetentionDrop(rule) :
              /\ i \in Ids /\ i <= lastId
              /\ status[i] = "ok" => (\E j \in Stored : Newer(j, i)) /\ rule # NoRule
<1> SUFFICES ASSUME NEW i \in RetentionDrop(rule)
             PROVE  /\ i \in Ids /\ i <= lastId
                    /\ status[i] = "ok" => (\E j \in Stored : Newer(j, i)) /\ rule # NoRule
  OBVIOUS
<1>1. i \in Ids /\ status[i] # "none" BY DEF RetentionDrop, Rows
<1>2. i <= lastId BY <1>1, IdsAreNumbers DEF Drops, Typed, TypeOK
<1>3. ASSUME status[i] = "ok" PROVE (\E j \in Stored : Newer(j, i)) /\ rule # NoRule
  <2>1. /\ Cardinality({j \in Stored : Newer(j, i)}) + 1 # 1
        /\ Expired(rule, i, Cardinality({j \in Stored : Newer(j, i)}) + 1)
    BY <1>3 DEF RetentionDrop
  <2>2. {j \in Stored : Newer(j, i)} # {}
    <3>1. Cardinality({}) = 0 BY FS_EmptySet
    <3> QED BY <2>1, <3>1
  <2> QED BY <2>1, <2>2 DEF Expired
<1> QED BY <1>1, <1>2, <1>3

\* Run adds what retention finds, and inserts at the end.
LEMMA RunDrops ==
    ASSUME Typed, Drops, NEW p \in Callers \cup Restorers, Run(p)
    PROVE  Drops'
<1>t. TypeOK /\ p \in Procs /\ rule \in story.rules /\ drop \in [Procs -> SUBSET Ids] BY DEF Typed, TypeOK, Procs, Drops
<1>b. \A ok : Return(p, ok) => \A q \in Procs : drop'[q] \subseteq drop[q]
  BY <1>t DEF Return, End, callVars
<1>1. CASE RunFetch(p) \/ RunCompare(p) \/ RunWrite(p) \/ RunWriteFails(p) \/ RunGet(p)
  <2>1. \A q \in Procs : drop'[q] \subseteq drop[q]
    BY <1>1, <1>b DEF RunFetch, RunCompare, RunWrite, RunWriteFails, RunGet, callVars
  <2>2. UNCHANGED <<status, at, lastId, story, rule>>
    BY <1>1 DEF RunFetch, RunCompare, RunWrite, RunWriteFails, RunGet, rowVars, envVars
  <2> QED BY <1>t, <2>1, <2>2, SparesDrops DEF Spares
<1>2. CASE RunFetchFails(p) \/ RunInsert(p) \/ RunInsertFails(p)
  <2>1. \A q \in Procs : drop'[q] \subseteq drop[q] BY <1>2, <1>b DEF RunFetchFails, RunInsert, RunInsertFails
  <2>2. UNCHANGED <<story, rule>> BY <1>2 DEF RunFetchFails, RunInsert, RunInsertFails, envVars
  <2>3. CASE UNCHANGED rowVars BY <1>t, <2>1, <2>2, <2>3, SparesDrops DEF Spares, rowVars
  <2>4. ASSUME NEW s, NEW c, NEW t, NEW f, Insert(s, c, t, f) PROVE Drops' BY <2>1, <2>2, <2>4, InsertDrops
  <2> QED BY <1>2, <2>3, <2>4 DEF RunFetchFails, RunInsert, RunInsertFails
<1>3. CASE RunRetain(p)
  <2>1. UNCHANGED <<status, at, lastId, story, rule>> BY <1>3 DEF RunRetain, rowVars, envVars
  <2>2. CASE drop' = drop BY <1>t, <2>1, <2>2, SparesDrops DEF Spares
  <2>3. CASE drop' = [drop EXCEPT ![p] = RetentionDrop(rule)]
    <3>1. \A q \in Procs : \A i \in drop'[q] : i \in drop[q] \/ i \in RetentionDrop(rule) BY <1>t, <2>3
    <3>2. \A q \in Procs : \A i \in drop'[q] : i <= lastId' BY <2>1, <3>1, RetentionSpares DEF Drops
    <3>3. story.calls \cap Deleters = {} =>
             \A q \in Procs : \A i \in drop'[q] : status[i] = "ok" => \E j \in Stored : Newer(j, i)
      BY <3>1, RetentionSpares DEF Drops
    <3>4. BackupsStay => \A q \in Procs : \A i \in drop'[q] : status[i] # "ok"
      BY <1>t, <3>1, RetentionSpares DEF Drops, BackupsStay
    <3>5. story'.calls \cap Deleters = {} =>
             \A q \in Procs : \A i \in drop'[q] : status'[i] = "ok" => \E j \in Stored' : Newer(j, i)'
      BY <2>1, <3>3 DEF Stored, Newer
    <3>6. BackupsStay' => \A q \in Procs : \A i \in drop'[q] : status'[i] # "ok" BY <2>1, <3>4 DEF BackupsStay
    <3> QED BY <1>t, <2>1, <3>2, <3>5, <3>6 DEF Drops
  <2> QED BY <1>3, <2>2, <2>3 DEF RunRetain
<1> QED BY <1>1, <1>2, <1>3 DEF Run

\* remove takes a row away: when it was the newer one of another row to go, a
\* still newer one is stored.
LEMMA RemoveDrops ==
    ASSUME Typed, Drops, NEW p \in Procs, Remove(p)
    PROVE  Drops'
<1>t. /\ TypeOK /\ rule \in story.rules /\ drop \in [Procs -> SUBSET Ids]
      /\ status \in [Ids -> {"none", "ok", "failed"}]
  BY DEF Typed, TypeOK, Drops
<1>1. CASE DropFile(p) \/ DropEnd(p)
  <2>1. \A q \in Procs : drop'[q] \subseteq drop[q] BY <1>1, <1>t DEF DropFile, DropEnd, End, callVars
  <2>2. UNCHANGED <<status, at, lastId, story, rule>> BY <1>1 DEF DropFile, DropEnd, rowVars, envVars
  <2> QED BY <1>t, <2>1, <2>2, SparesDrops DEF Spares
<1>2. ASSUME NEW i \in Ids, DropRow(p, i) PROVE Drops'
  <2>1. \A q \in Procs : drop'[q] \subseteq drop[q] BY <1>2, <1>t DEF DropRow
  <2>2. UNCHANGED <<at, lastId, story, rule>> BY <1>2 DEF DropRow, envVars
  <2>3. \A k \in Ids : status'[k] = IF k = i THEN "none" ELSE status[k] BY <1>2, <1>t DEF DropRow
  <2>4. i \in drop[p] BY <1>2 DEF DropRow, Newest
  <2>5. \A k \in Ids : k > lastId' => status'[k] = "none" BY <2>2, <2>3 DEF Drops
  <2>6. \A q \in Procs : \A k \in drop'[q] : k <= lastId' BY <2>1, <2>2 DEF Drops
  <2>7. ASSUME story.calls \cap Deleters = {}, NEW q \in Procs, NEW k \in drop'[q], status'[k] = "ok"
        PROVE  \E j \in Stored' : Newer(j, k)'
    <3>1. k \in drop[q] /\ k \in Ids /\ status[k] = "ok" BY <1>t, <2>1, <2>3, <2>7
    <3>2. PICK j \in Stored : Newer(j, k) BY <2>7, <3>1 DEF Drops
    <3>3. j \in Ids /\ status[j] = "ok" BY <3>2 DEF Stored
    <3>4. CASE j # i BY <2>2, <2>3, <3>2, <3>3, <3>4 DEF Stored, Newer
    <3>5. CASE j = i
      <4>1. PICK h \in Stored : Newer(h, j) BY <2>4, <2>7, <3>3, <3>5 DEF Drops
      <4>2. h \in Ids /\ status[h] = "ok" BY <4>1 DEF Stored
      <4>3. h # i /\ Newer(h, k) BY <1>t, <3>1, <3>2, <3>3, <3>5, <4>1, <4>2, NewerOrder
      <4> QED BY <2>2, <2>3, <4>2, <4>3 DEF Stored, Newer
    <3> QED BY <3>4, <3>5
  <2>8. BackupsStay' => \A q \in Procs : \A k \in drop'[q] : status'[k] # "ok"
    BY <1>t, <2>1, <2>2, <2>3 DEF Drops, BackupsStay
  <2> QED BY <1>t, <2>2, <2>5, <2>6, <2>7, <2>8 DEF Drops
<1> QED BY <1>1, <1>2 DEF Remove

\* The rest removes nothing, but for Delete and the device's own deletion.
LEMMA OtherDrops ==
    ASSUME Typed, Drops, \/ Panel
                         \/ \E r \in Restorers : Restore(r)
                         \/ \E p \in Procs : Disconnect(p)
                         \/ \E c \in Configs : Edit(c)
                         \/ Reboot \/ Advance \/ Restart \/ UNCHANGED vars
    PROVE  Drops'
<1>t. /\ TypeOK /\ rule \in story.rules /\ drop \in [Procs -> SUBSET Ids]
  BY DEF Typed, TypeOK, Drops
<1>1. ASSUME NEW p \in Deleters, NEW i \in Ids, DeleteRead(p, i) PROVE Drops'
  <2>1. UNCHANGED <<status, at, lastId, story, rule>> BY <1>1 DEF DeleteRead, rowVars, envVars
  <2>2. \A q \in Procs : \A k \in drop'[q] : k \in drop[q] \/ k = i BY <1>1, <1>t DEF DeleteRead
  <2>3. i <= lastId BY <1>1, IdsAreNumbers DEF DeleteRead, Rows, Drops, Typed, TypeOK
  <2>4. story.calls \cap Deleters # {} BY <1>1 DEF DeleteRead
  <2> QED BY <1>t, <2>1, <2>2, <2>3, <2>4 DEF Drops, BackupsStay
<1>2. CASE DeleteDevice
  <2>1. UNCHANGED <<at, lastId, story, rule, drop>> BY <1>2 DEF DeleteDevice, envVars, callVars
  <2>2. \A i \in Ids : status'[i] = "none" BY <1>2 DEF DeleteDevice
  <2>3. \A q \in Procs : \A k \in drop'[q] : k \in Ids /\ k <= lastId' BY <1>t, <2>1 DEF Drops
  <2> QED BY <1>t, <2>1, <2>2, <2>3 DEF Drops
<1>3. CASE \/ \E p \in Callers : RunBegin(p) \/ RunDue(p)
           \/ \E i \in Ids : \/ \E r \in Restorers : RestoreRead(r, i)
                             \/ \E b \in BOOLEAN : SetLock(i, b)
           \/ \E r \in Rules : SetRule(r)
  <2>1. UNCHANGED <<status, at, lastId, story, drop>> /\ rule' \in story.rules
    BY <1>3, <1>t DEF RunBegin, RunDue, RestoreRead, SetLock, SetRule, rowVars, envVars, callVars
  <2> QED BY <2>1, SparesDrops DEF Spares
<1>4. ASSUME NEW r \in Restorers, Restore(r) PROVE Drops'
  <2>1. \A q \in Procs : drop'[q] \subseteq drop[q]
    BY <1>4, <1>t DEF Restore, RestoreOpen, RestoreFail, RestorePre, UploadAccepted, UploadDropped,
       UploadRefused, RestoreAwait, Watch, End, callVars
  <2>2. UNCHANGED <<status, at, lastId, story, rule>>
    BY <1>4 DEF Restore, RestoreOpen, RestoreFail, RestorePre, UploadAccepted, UploadDropped,
       UploadRefused, RestoreAwait, Watch, rowVars, envVars
  <2> QED BY <1>t, <2>1, <2>2, SparesDrops DEF Spares
<1>5. CASE (\E p \in Procs : Disconnect(p)) \/ (\E c \in Configs : Edit(c)) \/ Reboot \/ Advance \/ UNCHANGED vars
  <2>1. UNCHANGED <<status, at, lastId, story, rule, drop>>
    BY <1>5 DEF Disconnect, Edit, Reboot, Advance, vars, rowVars, envVars, callVars
  <2> QED BY <1>t, <2>1, SparesDrops DEF Spares
<1>6. CASE Restart
  <2>1. UNCHANGED <<status, at, lastId, story, rule>> /\ \A p \in Procs : drop'[p] = {}
    BY <1>6 DEF Restart, rowVars
  <2> QED BY <1>t, <2>1, SparesDrops DEF Spares
<1> QED BY <1>1, <1>2, <1>3, <1>4, <1>5, <1>6 DEF Panel

\* What calls are about to remove, in every behaviour.
LEMMA DropsAlways == Spec => []Drops
<1>1. Init => Drops BY DEF Init, Drops
<1>2. Typed /\ Drops /\ [Next]_vars => Drops'
  <2> SUFFICES ASSUME Typed, Drops, [Next]_vars PROVE Drops' OBVIOUS
  <2> QED BY RunDrops, RemoveDrops, OtherDrops DEF Next
<1> QED BY <1>1, <1>2, TypedAlways, PTL DEF Spec

-----------------------------------------------------------------------------
(* Restores and their jobs. *)

\* Where Restore has its safety backup.
SavedPcs == {"retain", "drop", "unlink", "get", "pre", "upload"}

\* A restore and its job agree; where backups stay and the device is there, so
\* are the backup it restores, its job and its safety backup.
Attended(r) ==
    /\ pc[r] # "compare"
    /\ Restoring(r) => job[r] \in Active \cup {"deleted"}
    /\ job[r] \in Active => exists /\ (Restoring(r) \/ r \in story.abandoned \/ ~BackupsStay)
    /\ BackupsStay /\ exists =>
          /\ pc[r] # "idle" => status[jobOf[r]] = "ok"
          /\ Restoring(r) => job[r] \in Active
          /\ pc[r] \in SavedPcs => made[r] \in Ids /\ status[made[r]] = "ok" /\ cfg[made[r]] = got[r]

\* Every restore is so; one job is active, and one restore works.
Restores ==
    /\ gone \subseteq story.abandoned
    /\ \A r \in Restorers : Attended(r)
    /\ \A r, s \in Restorers : job[r] \in Active /\ job[s] \in Active => r = s
    /\ BackupsStay => RestoreExclusive

\* What a step does to the rows: where backups stay, stored ones do until the
\* device goes.
RowsStay ==
    /\ story' = story /\ (exists' => exists)
    /\ BackupsStay /\ exists' => \A i \in Ids : status[i] = "ok" => status'[i] = "ok" /\ cfg'[i] = cfg[i]

\* Every step is so.
LEMMA StepsLeaveRows ==
    ASSUME Typed, Drops, [Next]_vars
    PROVE  RowsStay
<1>t. /\ lastId \in Nat /\ Ids \subseteq Nat
      /\ status \in [Ids -> {"none", "ok", "failed"}] /\ cfg \in [Ids -> Configs \cup {NoConfig}]
  BY IdsAreNumbers DEF Typed, TypeOK
<1>s. story' = story BY StoryStays
<1>u. UNCHANGED rowVars => RowsStay BY <1>s DEF RowsStay, rowVars
<1>i. ASSUME NEW s, NEW c, NEW t, NEW f, Insert(s, c, t, f) PROVE RowsStay
  <2>1. \A i \in Ids : status[i] = "ok" => i # lastId + 1 BY <1>t DEF Drops
  <2> QED BY <1>i, <1>s, <1>t, <2>1 DEF Insert, RowsStay
<1>1. ASSUME NEW p \in Procs, Run(p) PROVE RowsStay
  BY <1>1, <1>u, <1>i DEF Run, RunFetch, RunFetchFails, RunCompare, RunWrite, RunWriteFails, RunInsert,
                          RunInsertFails, RunRetain, RunGet, rowVars
<1>2. ASSUME NEW p \in Procs, Remove(p) PROVE RowsStay
  <2>1. ASSUME NEW i \in Ids, DropRow(p, i) PROVE RowsStay
    <3>1. i \in drop[p] BY <2>1 DEF DropRow, Newest
    <3>2. BackupsStay => status[i] # "ok" BY <3>1 DEF Drops
    <3> QED BY <2>1, <1>s, <1>t, <3>2 DEF DropRow, RowsStay
  <2> QED BY <1>2, <1>u, <2>1 DEF Remove, DropFile, DropEnd
<1>3. ASSUME NEW r \in Restorers, Restore(r) PROVE RowsStay
  BY <1>3, <1>u DEF Restore, RestoreOpen, RestoreFail, RestorePre, UploadAccepted, UploadDropped,
                    UploadRefused, RestoreAwait, Watch
<1>4. CASE Panel
  <2>1. ASSUME NEW i \in Ids, NEW b \in BOOLEAN, SetLock(i, b) PROVE RowsStay
    BY <2>1, <1>s DEF SetLock, RowsStay
  <2>2. CASE DeleteDevice BY <2>2, <1>s DEF DeleteDevice, RowsStay
  <2> QED BY <1>4, <1>u, <2>1, <2>2 DEF Panel, RunBegin, RunDue, DeleteRead, RestoreRead, SetRule
<1>5. CASE \/ \E p \in Procs : Disconnect(p)
           \/ \E c \in Configs : Edit(c)
           \/ Reboot \/ Advance \/ Restart \/ UNCHANGED vars
  BY <1>5, <1>u DEF Disconnect, Edit, Reboot, Advance, Restart, vars
<1> QED BY <1>1, <1>2, <1>3, <1>4, <1>5 DEF Next, Procs

\* A step of others: at most it takes the job along with its backup.
LEMMA AttendedByOthers ==
    ASSUME Typed, NEW r \in Restorers, Attended(r), RowsStay,
           pc'[r] = pc[r], jobOf'[r] = jobOf[r], made'[r] = made[r], got'[r] = got[r],
           \/ job'[r] = job[r] /\ exists' = exists
           \/ job'[r] = "none" /\ job[r] = "none"
           \/ job'[r] = "deleted" /\ (BackupsStay /\ exists' => ~Restoring(r))
    PROVE  Attended(r)'
<1>k. pc[r] # "idle" => jobOf[r] \in Ids BY DEF Typed, Known
<1>1. pc'[r] # "compare" BY DEF Attended
<1>2. Restoring(r)' => job'[r] \in Active \cup {"deleted"} BY DEF Attended, Restoring, Active
<1>b. BackupsStay' <=> BackupsStay BY DEF RowsStay, BackupsStay
<1>3. job'[r] \in Active => exists' /\ (Restoring(r)' \/ r \in story'.abandoned \/ ~BackupsStay')
  BY <1>b DEF Attended, Restoring, Active, RowsStay
<1>4. ASSUME BackupsStay', exists'
      PROVE  /\ pc'[r] # "idle" => status'[jobOf'[r]] = "ok"
             /\ Restoring(r)' => job'[r] \in Active
             /\ pc'[r] \in SavedPcs => made'[r] \in Ids /\ status'[made'[r]] = "ok" /\ cfg'[made'[r]] = got'[r]
  <2>1. BackupsStay /\ exists BY <1>4, <1>b DEF RowsStay
  <2>2. pc'[r] # "idle" => status'[jobOf'[r]] = "ok" BY <1>k, <1>4, <2>1 DEF Attended, RowsStay
  <2>3. Restoring(r)' => job'[r] \in Active BY <1>4, <2>1 DEF Attended, Restoring, Active
  <2>4. pc'[r] \in SavedPcs => made'[r] \in Ids /\ status'[made'[r]] = "ok" /\ cfg'[made'[r]] = got'[r]
    BY <1>4, <2>1 DEF Attended, RowsStay
  <2> QED BY <2>2, <2>3, <2>4
<1> QED BY <1>1, <1>2, <1>3, <1>4 DEF Attended

\* A step of a restore under way, with its job as active as before.
LEMMA AttendedGoes ==
    ASSUME Typed, NEW r \in Restorers, Attended(r), RowsStay, Restoring(r), exists' = exists,
           pc'[r] \notin {"idle", "open", "compare"}, jobOf'[r] = jobOf[r],
           job'[r] \in Active <=> job[r] \in Active, job[r] = "deleted" => job'[r] = "deleted",
           pc'[r] \in SavedPcs => \/ pc[r] \in SavedPcs /\ made'[r] = made[r] /\ got'[r] = got[r]
                                  \/ made'[r] \in Ids /\ status'[made'[r]] = "ok" /\ cfg'[made'[r]] = got'[r]
    PROVE  Attended(r)'
<1>k. pc[r] # "idle" /\ jobOf[r] \in Ids BY DEF Typed, Known, Restoring
<1>r. Restoring(r)' BY DEF Restoring
<1>b. BackupsStay' <=> BackupsStay BY DEF RowsStay, BackupsStay
<1>2. job'[r] \in Active \cup {"deleted"} BY DEF Attended
<1>3. job'[r] \in Active => exists' BY DEF Attended
<1>4. ASSUME BackupsStay', exists'
      PROVE  /\ status'[jobOf'[r]] = "ok"
             /\ job'[r] \in Active
             /\ pc'[r] \in SavedPcs => made'[r] \in Ids /\ status'[made'[r]] = "ok" /\ cfg'[made'[r]] = got'[r]
  <2>1. BackupsStay /\ exists BY <1>4, <1>b
  <2>2. status'[jobOf'[r]] = "ok" BY <1>k, <1>4, <2>1 DEF Attended, RowsStay
  <2>3. job'[r] \in Active BY <2>1 DEF Attended
  <2>4. pc'[r] \in SavedPcs => made'[r] \in Ids /\ status'[made'[r]] = "ok" /\ cfg'[made'[r]] = got'[r]
    BY <1>4, <2>1 DEF Attended, RowsStay
  <2> QED BY <2>2, <2>3, <2>4
<1> QED BY <1>r, <1>2, <1>3, <1>4 DEF Attended

\* A restore that ends leaves its job active only when it may.
LEMMA AttendedReturns ==
    ASSUME NEW r \in Restorers, RowsStay, pc'[r] = "idle", exists' = exists,
           job'[r] \in Active => exists /\ (r \in story.abandoned \/ ~BackupsStay)
    PROVE  Attended(r)'
<1>1. ~Restoring(r)' BY DEF Restoring
<1>b. BackupsStay' <=> BackupsStay BY DEF RowsStay, BackupsStay
<1>2. pc'[r] \notin SavedPcs BY DEF SavedPcs
<1> QED BY <1>1, <1>b, <1>2 DEF Attended, RowsStay

\* A step that activates no job and begins no restore.
LEMMA RestoresNarrow ==
    ASSUME Restores, RowsStay, gone' \subseteq story.abandoned, \A r \in Restorers : Attended(r)',
           \A r \in Restorers : job'[r] \in Active => job[r] \in Active,
           \A r \in Restorers : Restoring(r)' => Restoring(r)
    PROVE  Restores'
<1>b. BackupsStay' <=> BackupsStay BY DEF RowsStay, BackupsStay
<1>1. gone' \subseteq story'.abandoned BY DEF RowsStay
<1>2. \A r, s \in Restorers : job'[r] \in Active /\ job'[s] \in Active => r = s BY DEF Restores
<1>3. BackupsStay' => RestoreExclusive' BY <1>b DEF Restores, RestoreExclusive
<1> QED BY <1>1, <1>2, <1>3 DEF Restores

\* A step of one call.
Only(p) ==
    /\ \A q \in Procs \ {p} : pc'[q] = pc[q] /\ made'[q] = made[q] /\ got'[q] = got[q]
    /\ gone' \subseteq gone

\* Ending and returning from Run are.
LEMMA EndOnly ==
    ASSUME TypeOK, NEW p \in Procs
    PROVE  /\ End(p) => Only(p) /\ pc'[p] = "idle"
           /\ \A l : Goto(p, l) /\ UNCHANGED <<made, got, gone>> => Only(p) /\ pc'[p] = l
           /\ \A ok : Return(p, ok) =>
                 /\ Only(p)
                 /\ p \in Restorers => /\ pc'[p] = IF ok THEN "pre" ELSE "fail"
                                       /\ made'[p] = made[p] /\ got'[p] = got[p]
<1>t. pc \in [Procs -> Pcs] /\ DOMAIN made = Procs /\ DOMAIN got = Procs BY DEF TypeOK
<1>1. End(p) => Only(p) /\ pc'[p] = "idle" BY <1>t DEF TypeOK, End, Goto, Only
<1>2. \A l : Goto(p, l) /\ UNCHANGED <<made, got, gone>> => Only(p) /\ pc'[p] = l BY <1>t DEF Goto, Only
<1>3. ASSUME NEW ok, Return(p, ok)
      PROVE  /\ Only(p)
             /\ p \in Restorers => /\ pc'[p] = IF ok THEN "pre" ELSE "fail"
                                   /\ made'[p] = made[p] /\ got'[p] = got[p]
  <2>1. CASE p \notin Restorers BY <1>1, <1>3, <2>1 DEF Return
  <2>2. CASE p \in Restorers
    <3>1. Goto(p, IF ok THEN "pre" ELSE "fail") /\ UNCHANGED <<made, got, gone>>
      BY <1>3, <2>2 DEF Return, callVars
    <3> QED BY <1>2, <3>1
  <2> QED BY <2>1, <2>2
<1> QED BY <1>1, <1>2, <1>3

\* Run works for one call, and leaves jobs alone.
LEMMA RunOnly ==
    ASSUME Typed, NEW p \in Callers \cup Restorers, Run(p)
    PROVE  Only(p) /\ UNCHANGED <<job, jobOf, exists>> /\ pc[p] \notin {"idle", "open"}
<1>t. TypeOK /\ p \in Procs /\ DOMAIN made = Procs /\ DOMAIN got = Procs BY DEF Typed, TypeOK, Procs
<1>1. UNCHANGED <<job, jobOf, exists>> /\ pc[p] \notin {"idle", "open"}
  BY DEF Run, RunFetch, RunFetchFails, RunCompare, RunWrite, RunWriteFails, RunInsert, RunInsertFails,
         RunRetain, RunGet, jobVars, rowVars, Insert
<1>g. ASSUME NEW l, Goto(p, l), gone' = gone,
             \A q \in Procs \ {p} : made'[q] = made[q] /\ got'[q] = got[q]
      PROVE  Only(p)
  <2>1. pc \in [Procs -> Pcs] BY <1>t DEF TypeOK
  <2> QED BY <1>g, <2>1 DEF Goto, Only
<1>2. CASE RunFetch(p)
  <2>1. got' = [got EXCEPT ![p] = config] /\ made' = made /\ gone' = gone BY <1>2 DEF RunFetch
  <2>2. \E l : Goto(p, l) BY <1>2 DEF RunFetch
  <2> QED BY <1>1, <1>t, <1>g, <2>1, <2>2
<1>3. CASE RunInsert(p)
  <2>1. made' = [made EXCEPT ![p] = lastId + 1] /\ got' = got /\ gone' = gone BY <1>3 DEF RunInsert
  <2>2. Goto(p, "retain") BY <1>3 DEF RunInsert
  <2> QED BY <1>1, <1>t, <1>g, <2>1, <2>2
<1>4. CASE RunWrite(p) \/ RunRetain(p)
  <2>1. made' = made /\ got' = got /\ gone' = gone BY <1>4 DEF RunWrite, RunRetain
  <2>2. \E l : Goto(p, l) BY <1>4 DEF RunWrite, RunRetain
  <2> QED BY <1>1, <1>g, <2>1, <2>2
<1>5. CASE RunFetchFails(p) \/ RunWriteFails(p) \/ RunInsertFails(p) \/ RunGet(p)
  <2>1. \E ok : Return(p, ok) BY <1>5 DEF RunFetchFails, RunWriteFails, RunInsertFails, RunGet
  <2> QED BY <1>1, <1>t, <2>1, EndOnly
<1>6. CASE RunCompare(p)
  <2>1. (\E ok : Return(p, ok)) \/ (Goto(p, "write") /\ UNCHANGED callVars) BY <1>6 DEF RunCompare
  <2> QED BY <1>1, <1>t, <1>g, <2>1, EndOnly DEF callVars
<1> QED BY <1>1, <1>2, <1>3, <1>4, <1>5, <1>6 DEF Run

\* Run of a restore: it leaves its safety backup behind or fails.
LEMMA RunAttended ==
    ASSUME Typed, NEW r \in Restorers, Attended(r), RowsStay, Run(r)
    PROVE  Attended(r)'
<1>t. TypeOK /\ r \in Procs /\ r \in Callers \cup Restorers BY DEF Typed, Procs
<1>f. \A f : f = made \/ f = got => DOMAIN f = Procs BY <1>t DEF TypeOK
<1>o. UNCHANGED <<job, jobOf, exists>> /\ Restoring(r) BY <1>t, RunOnly DEF Restoring
<1>w. ASSUME pc'[r] \in {"write", "insert", "fail"} PROVE Attended(r)'
  <2>1. pc'[r] \notin SavedPcs /\ pc'[r] \notin {"idle", "open", "compare"} BY <1>w DEF SavedPcs
  <2> QED BY <1>o, <2>1, AttendedGoes
<1>s. ASSUME pc'[r] \in {"drop", "get", "pre"}, pc[r] \in SavedPcs, made'[r] = made[r], got'[r] = got[r]
      PROVE  Attended(r)'
  <2>1. pc'[r] \notin {"idle", "open", "compare"} BY <1>s
  <2> QED BY <1>o, <1>s, <2>1, AttendedGoes
<1>1. CASE RunFetch(r)
  <2>1. pc'[r] = "write" BY <1>1, <1>t DEF RunFetch, Goto, TypeOK
  <2> QED BY <1>w, <2>1
<1>2. CASE RunFetchFails(r)
  <2>1. pc'[r] = "fail" BY <1>2, <1>t, EndOnly DEF RunFetchFails
  <2> QED BY <1>w, <2>1
<1>3. CASE RunCompare(r) BY <1>3 DEF RunCompare, Attended
<1>4. CASE RunWrite(r)
  <2>1. pc'[r] = "insert" BY <1>4, <1>t DEF RunWrite, Goto, TypeOK
  <2> QED BY <1>w, <2>1
<1>5. CASE RunWriteFails(r)
  <2>1. pc'[r] = "fail" BY <1>5, <1>t, EndOnly DEF RunWriteFails
  <2> QED BY <1>w, <2>1
<1>6. CASE RunInsert(r)
  <2>0. pc'[r] = "retain" /\ made'[r] = lastId + 1 /\ got'[r] = got[r]
    BY <1>6, <1>t DEF RunInsert, Goto, TypeOK
  <2>1. lastId' \in 0..MaxBackups BY RunTyped, <1>t DEF Typed, TypeOK
  <2>2. lastId' = lastId + 1 /\ lastId \in Nat BY <1>6, <1>t DEF RunInsert, Insert, TypeOK
  <2>3. lastId + 1 \in Ids BY <2>1, <2>2, BackupConstants DEF Ids
  <2>4. status'[lastId + 1] = "ok" /\ cfg'[lastId + 1] = got[r]
    BY <1>6, <1>t, <2>3 DEF RunInsert, Insert, TypeOK
  <2>5. pc'[r] \notin {"idle", "open", "compare"} BY <2>0
  <2> QED BY <1>o, <2>0, <2>3, <2>4, <2>5, AttendedGoes
<1>7. CASE RunInsertFails(r)
  <2>1. pc'[r] = "fail" BY <1>7, <1>t, EndOnly DEF RunInsertFails
  <2> QED BY <1>w, <2>1
<1>8. CASE RunRetain(r)
  <2>1. pc'[r] \in {"drop", "get"} /\ UNCHANGED <<made, got>> BY <1>8, <1>t DEF RunRetain, Goto, TypeOK
  <2> QED BY <1>8, <1>s, <2>1 DEF RunRetain, SavedPcs
<1>9. CASE RunGet(r)
  <2>1. pc'[r] \in {"pre", "fail"} /\ made'[r] = made[r] /\ got'[r] = got[r] BY <1>9, <1>t, EndOnly DEF RunGet
  <2> QED BY <1>9, <1>s, <1>w, <2>1 DEF RunGet, SavedPcs
<1> QED BY <1>1, <1>2, <1>3, <1>4, <1>5, <1>6, <1>7, <1>8, <1>9 DEF Run

\* Steps of Run keep the restores in order.
LEMMA RunRestores ==
    ASSUME Typed, Restores, RowsStay, NEW p \in Callers \cup Restorers, Run(p)
    PROVE  Restores'
<1>o. Only(p) /\ UNCHANGED <<job, jobOf, exists>> /\ pc[p] \notin {"idle", "open"} BY RunOnly
<1>1. ASSUME NEW r \in Restorers PROVE Attended(r)'
  <2>1. CASE r = p BY <2>1, RunAttended DEF Restores
  <2>2. CASE r # p BY <2>2, <1>o, AttendedByOthers DEF Only, Procs, Restores
  <2> QED BY <2>1, <2>2
<1>2. gone' \subseteq story.abandoned BY <1>o DEF Only, Restores
<1>3. \A r \in Restorers : Restoring(r)' => Restoring(r) BY <1>o DEF Only, Restoring, Procs
<1> QED BY <1>o, <1>1, <1>2, <1>3, RestoresNarrow

\* So do those of remove: a job goes with the backup it restores only where
\* backups are removed.
LEMMA RemoveRestores ==
    ASSUME Typed, Drops, Restores, RowsStay, NEW p \in Procs, Remove(p)
    PROVE  Restores'
<1>t. /\ TypeOK /\ DOMAIN pc = Procs /\ DOMAIN made = Procs /\ DOMAIN got = Procs
      /\ job \in [Restorers -> {"none", "running", "waiting", "succeeded", "failed", "deleted"}]
  BY DEF Typed, TypeOK
<1>1. CASE DropFile(p) \/ DropEnd(p)
  <2>1. Only(p) /\ UNCHANGED <<job, jobOf, exists>> /\ pc[p] \in {"drop", "unlink"}
    BY <1>1, <1>t, EndOnly DEF DropFile, DropEnd, jobVars, rowVars, callVars
  <2>2. ASSUME p \in Restorers PROVE pc'[p] \in {"drop", "get"} /\ UNCHANGED <<made, got>>
    BY <1>1, <1>t, <2>2, BackupConstants DEF DropFile, DropEnd, Goto, callVars
  <2>3. ASSUME NEW r \in Restorers PROVE Attended(r)'
    <3>1. CASE r = p
      <4>1. pc'[r] \notin {"idle", "open", "compare"} /\ Restoring(r) /\ pc[r] \in SavedPcs
        BY <2>1, <2>2, <3>1 DEF Restoring, SavedPcs
      <4> QED BY <2>1, <2>2, <3>1, <4>1, AttendedGoes DEF Restores
    <3>2. CASE r # p BY <2>1, <3>2, AttendedByOthers DEF Only, Procs, Restores
    <3> QED BY <3>1, <3>2
  <2>4. gone' \subseteq story.abandoned BY <2>1 DEF Only, Restores
  <2>5. \A r \in Restorers : Restoring(r)' => Restoring(r) BY <2>1 DEF Only, Restoring, Procs
  <2> QED BY <2>1, <2>3, <2>4, <2>5, RestoresNarrow
<1>2. ASSUME NEW i \in Ids, DropRow(p, i) PROVE Restores'
  <2>1. /\ Only(p) /\ UNCHANGED <<jobOf, exists, made, got>> /\ pc[p] = "drop" /\ pc'[p] = "unlink"
    BY <1>2, <1>t, EndOnly DEF DropRow
  <2>2. BackupsStay => status[i] # "ok" BY <1>2 DEF DropRow, Newest, Drops
  <2>3. ASSUME NEW r \in Restorers
        PROVE  \/ job'[r] = job[r]
               \/ job'[r] = "deleted" /\ job[r] # "none" /\ jobOf[r] = i
    BY <1>2 DEF DropRow
  <2>4. ASSUME NEW r \in Restorers, BackupsStay, exists', Restoring(r) PROVE job'[r] = job[r]
    <3>1. exists BY <2>1, <2>4
    <3>2. status[jobOf[r]] = "ok" BY <2>4, <3>1 DEF Restores, Attended, Restoring
    <3> QED BY <2>2, <2>3, <2>4, <3>2
  <2>5. ASSUME NEW r \in Restorers PROVE Attended(r)'
    <3>1. CASE r = p
      <4>1. pc'[r] \notin {"idle", "open", "compare"} /\ Restoring(r) /\ pc[r] \in SavedPcs
        BY <2>1, <3>1 DEF Restoring, SavedPcs
      <4>2. CASE job'[r] = job[r] BY <2>1, <3>1, <4>1, <4>2, AttendedGoes DEF Restores
      <4>3. CASE job'[r] # job[r]
        <5>1. job'[r] = "deleted" BY <2>3, <4>3
        <5>2. ~(BackupsStay /\ exists') BY <2>4, <4>1, <4>3
        <5>3. BackupsStay' <=> BackupsStay BY DEF RowsStay, BackupsStay
        <5> QED BY <4>1, <5>1, <5>2, <5>3 DEF Attended, Active
      <4> QED BY <4>2, <4>3
    <3>2. CASE r # p
      <4>1. pc'[r] = pc[r] BY <2>1, <3>2 DEF Only, Procs
      <4> QED BY <2>1, <2>3, <2>4, <4>1, AttendedByOthers DEF Restores
    <3> QED BY <3>1, <3>2
  <2>6. gone' \subseteq story.abandoned BY <2>1 DEF Only, Restores
  <2>7. \A r \in Restorers : Restoring(r)' => Restoring(r) BY <2>1 DEF Only, Restoring, Procs
  <2>8. \A r \in Restorers : job'[r] \in Active => job[r] \in Active BY <2>3 DEF Active
  <2> QED BY <2>5, <2>6, <2>7, <2>8, RestoresNarrow
<1> QED BY <1>1, <1>2 DEF Remove

\* Opening a job is the one step that begins a restore: the unique index lets
\* it pass when no other job is active, and then no other restore works.
LEMMA OpenRestores ==
    ASSUME Typed, Restores, RowsStay, NEW r \in Restorers, RestoreOpen(r)
    PROVE  Restores'
<1>t. /\ TypeOK /\ r \in Procs
      /\ job \in [Restorers -> {"none", "running", "waiting", "succeeded", "failed", "deleted"}]
  BY BackupConstants DEF Typed, TypeOK, Procs
<1>c. UNCHANGED <<exists, jobOf, status, cfg>> /\ pc[r] = "open" BY DEF RestoreOpen, rowVars
<1>b. BackupsStay' <=> BackupsStay BY DEF RowsStay, BackupsStay
<1>o. /\ Only(r)
      /\ \/ End(r) /\ pc'[r] = "idle"
         \/ r \notin gone /\ pc'[r] = "fetch" /\ job' = [job EXCEPT ![r] = "running"]
  BY <1>t, EndOnly DEF RestoreOpen, callVars
<1>j. \/ job' = job
      \/ exists /\ DeviceFree /\ job' = [job EXCEPT ![r] = "running"] /\ (pc'[r] = "idle" => r \in gone)
  BY <1>o, <1>t, EndOnly DEF RestoreOpen, callVars
<1>1. \A s \in Restorers : s # r => job'[s] = job[s] BY <1>j, <1>t
<1>2. ASSUME NEW s \in Restorers, s # r PROVE Attended(s)'
  BY <1>1, <1>2, <1>c, <1>o, AttendedByOthers DEF Only, Procs, Restores
<1>3. Attended(r)'
  <2>1. CASE pc'[r] = "idle"
    <3>1. job'[r] \in Active => exists /\ (r \in story.abandoned \/ ~BackupsStay)
      <4>1. CASE job' = job BY <4>1, <1>c DEF Restores, Attended, Restoring
      <4>2. CASE job' # job BY <4>2, <1>j, <2>1 DEF Restores
      <4> QED BY <4>1, <4>2
    <3> QED BY <1>c, <2>1, <3>1, AttendedReturns
  <2>2. CASE pc'[r] # "idle"
    <3>1. pc'[r] = "fetch" /\ job'[r] = "running" BY <1>o, <1>t, <2>2
    <3>2. exists
      <4>1. CASE job' = job BY <1>c, <3>1, <4>1 DEF Restores, Attended, Active
      <4>2. CASE job' # job BY <1>j, <4>2
      <4> QED BY <4>1, <4>2
    <3>3. BackupsStay => status'[jobOf'[r]] = "ok" BY <1>c, <3>2 DEF Restores, Attended
    <3> QED BY <1>b, <1>c, <3>1, <3>2, <3>3 DEF Attended, Restoring, Active, SavedPcs
  <2> QED BY <2>1, <2>2
<1>4. \A s, q \in Restorers : job'[s] \in Active /\ job'[q] \in Active => s = q
  <2>1. CASE job' = job BY <2>1 DEF Restores
  <2>2. CASE job' # job
    <3>1. \A s \in Restorers : job[s] \notin Active BY <1>j, <2>2 DEF DeviceFree
    <3> QED BY <1>1, <3>1
  <2> QED BY <2>1, <2>2
<1>5. BackupsStay' => RestoreExclusive'
  <2> SUFFICES ASSUME BackupsStay, NEW s \in Restorers, NEW q \in Restorers, Restoring(s)', Restoring(q)'
               PROVE  s = q
    BY <1>b DEF RestoreExclusive
  <2>1. \A u \in Restorers : u # r /\ Restoring(u)' => Restoring(u) BY <1>o DEF Only, Restoring, Procs
  <2>2. ASSUME NEW u \in Restorers, u # r, Restoring(u)', Restoring(r)' PROVE FALSE
    <3>1. Restoring(u) BY <2>1, <2>2
    <3>2. job'[r] = "running" /\ pc'[r] = "fetch" BY <1>o, <1>t, <2>2 DEF Restoring
    <3>3. exists BY <1>3, <3>2, <1>c DEF Attended, Active
    <3>4. job[u] \in Active BY <3>1, <3>3 DEF Restores, Attended
    <3>5. job'[u] \in Active BY <1>1, <2>2, <3>4
    <3> QED BY <1>4, <2>2, <3>2, <3>5 DEF Active
  <2>3. Restoring(s) /\ Restoring(q) => s = q BY DEF Restores, RestoreExclusive
  <2> QED BY <2>1, <2>2, <2>3
<1>6. gone' \subseteq story'.abandoned BY <1>o DEF Only, Restores, RowsStay
<1> QED BY <1>2, <1>3, <1>4, <1>5, <1>6 DEF Restores

\* The other steps of a restore: it goes on, or ends with its job.
LEMMA RestoreRestores ==
    ASSUME Typed, Restores, RowsStay, NEW r \in Restorers, Restore(r)
    PROVE  Restores'
<1>t. /\ TypeOK /\ r \in Procs
      /\ job \in [Restorers -> {"none", "running", "waiting", "succeeded", "failed", "deleted"}]
  BY DEF Typed, TypeOK, Procs
<1>1. CASE RestoreOpen(r) BY <1>1, OpenRestores
<1>2. CASE ~RestoreOpen(r)
  <2>c. UNCHANGED <<exists, jobOf>> /\ Restoring(r) /\ Attended(r)
    BY <1>2 DEF Restore, RestoreFail, RestorePre, UploadAccepted, UploadDropped, UploadRefused, RestoreAwait,
                Watch, rowVars, jobVars, Restoring, Restores
  <2>o. Only(r)
    <3>1. End(r) \/ \E l : Goto(r, l) /\ UNCHANGED callVars
      BY <1>2 DEF Restore, RestoreFail, RestorePre, UploadAccepted, UploadDropped, UploadRefused, RestoreAwait, Watch
    <3> QED BY <1>t, <3>1, EndOnly DEF callVars
  <2>f. ASSUME NEW v \in {"waiting", "succeeded", "failed"}, Finish(r, v)
        PROVE  /\ \A s \in Restorers \ {r} : job'[s] = job[s]
               /\ job[r] = "deleted" => job'[r] = "deleted"
               /\ job[r] \in Active => job'[r] = v
    BY <2>f, <1>t DEF Finish, Active
  <2>j. /\ \A s \in Restorers \ {r} : job'[s] = job[s]
        /\ job'[r] \in Active => job[r] \in Active
    <3>1. CASE job' = job BY <3>1
    <3>2. ASSUME NEW v \in {"waiting", "succeeded", "failed"}, Finish(r, v)
          PROVE  /\ \A s \in Restorers \ {r} : job'[s] = job[s]
                 /\ job'[r] \in Active => job[r] \in Active
      BY <2>c, <2>f, <3>2 DEF Attended, Active
    <3> QED BY <1>2, <3>1, <3>2 DEF Restore, RestoreFail, RestorePre, UploadAccepted, UploadDropped,
            UploadRefused, RestoreAwait, Watch, jobVars
  <2>g. ASSUME NEW l \in {"upload", "await", "fail", "watch"}, Goto(r, l), UNCHANGED callVars,
               job'[r] \in Active <=> job[r] \in Active, job[r] = "deleted" => job'[r] = "deleted",
               l = "upload" => pc[r] \in SavedPcs
        PROVE  Attended(r)'
    <3>1. pc'[r] = l BY <2>g, <1>t DEF Goto, TypeOK
    <3>2. pc'[r] \in SavedPcs => pc[r] \in SavedPcs /\ made'[r] = made[r] /\ got'[r] = got[r]
      BY <2>g, <3>1 DEF SavedPcs, callVars
    <3>3. pc'[r] \notin {"idle", "open", "compare"} BY <3>1
    <3> QED BY <2>c, <2>g, <3>2, <3>3, AttendedGoes
  <2>e. ASSUME End(r), job'[r] \in Active => job[r] \in Active /\ (r \in gone \/ ~BackupsStay) PROVE Attended(r)'
    <3>1. pc'[r] = "idle" BY <2>e, <1>t, EndOnly
    <3>2. job'[r] \in Active => exists /\ (r \in story.abandoned \/ ~BackupsStay)
      BY <2>c, <2>e DEF Restores, Attended
    <3> QED BY <2>c, <3>1, <3>2, AttendedReturns
  <2>1. ASSUME RestoreFail(r) PROVE Attended(r)'
    <3>1. job'[r] \notin Active BY <2>1, <2>c, <2>f, <1>t DEF RestoreFail, Attended, Active
    <3> QED BY <2>1, <2>e, <3>1 DEF RestoreFail
  <2>2. ASSUME RestorePre(r) PROVE Attended(r)'
    <3>1. CASE End(r)
      <4>1. job[r] \in Active /\ BackupsStay => status[made[r]] = "ok"
        BY <2>2, <2>c DEF RestorePre, Attended, SavedPcs
      <4>2. job' = job /\ (r \in gone \/ (status[made[r]] = "none" /\ job[r] # "deleted") \/ Goto(r, "upload"))
        BY <2>2 DEF RestorePre, jobVars
      <4>3. ~Goto(r, "upload") BY <3>1, <1>t DEF End, Goto, TypeOK
      <4> QED BY <2>e, <3>1, <4>1, <4>2, <4>3
    <3>2. CASE Goto(r, "upload") /\ UNCHANGED callVars
      <4>1. job' = job /\ pc[r] \in SavedPcs BY <2>2 DEF RestorePre, jobVars, SavedPcs
      <4> QED BY <2>g, <3>2, <4>1
    <3> QED BY <2>2, <3>1, <3>2 DEF RestorePre
  <2>3. ASSUME UploadAccepted(r) \/ UploadDropped(r) \/ UploadRefused(r) PROVE Attended(r)'
    <3>1. job' = job /\ UNCHANGED callVars BY <2>3 DEF UploadAccepted, UploadDropped, UploadRefused, jobVars
    <3>2. Goto(r, "await") \/ Goto(r, "fail") BY <2>3 DEF UploadAccepted, UploadDropped, UploadRefused
    <3> QED BY <2>g, <3>1, <3>2
  <2>4. ASSUME RestoreAwait(r) PROVE Attended(r)'
    <3>1. CASE r \in gone /\ End(r) BY <2>e, <2>j, <3>1
    <3>2. CASE Finish(r, "waiting") /\ Goto(r, "watch") /\ UNCHANGED callVars
      <4>1. job[r] \in Active => job'[r] = "waiting" BY <2>f, <3>2
      <4>2. job[r] = "deleted" => job'[r] = "deleted" BY <2>f, <3>2
      <4>3. job'[r] \in Active <=> job[r] \in Active BY <2>j, <4>1 DEF Active
      <4> QED BY <2>g, <3>2, <4>2, <4>3
    <3> QED BY <2>4, <3>1, <3>2 DEF RestoreAwait
  <2>5. ASSUME Watch(r) PROVE Attended(r)'
    <3>1. \E v \in {"succeeded", "failed"} : Finish(r, v) BY <2>5 DEF Watch
    <3>2. job'[r] \notin Active BY <3>1, <2>c, <2>f DEF Attended, Active
    <3> QED BY <2>5, <2>e, <3>2 DEF Watch
  <2>6. Attended(r)' BY <1>2, <2>1, <2>2, <2>3, <2>4, <2>5 DEF Restore
  <2>7. ASSUME NEW s \in Restorers PROVE Attended(s)'
    <3>1. CASE s = r BY <2>6, <3>1
    <3>2. CASE s # r BY <2>c, <2>o, <2>j, <3>2, AttendedByOthers DEF Only, Procs, Restores
    <3> QED BY <3>1, <3>2
  <2>8. \A s \in Restorers : Restoring(s)' => Restoring(s) BY <2>c, <2>o DEF Only, Restoring, Procs
  <2>9. gone' \subseteq story.abandoned BY <2>o DEF Only, Restores
  <2>10. \A s \in Restorers : job'[s] \in Active => job[s] \in Active BY <2>j
  <2> QED BY <2>7, <2>8, <2>9, <2>10, RestoresNarrow
<1> QED BY <1>1, <1>2

\* A step that moves no restore.
LEMMA StillRestores ==
    ASSUME Typed, Restores, RowsStay, UNCHANGED <<job, jobOf, exists>>, gone' \subseteq story.abandoned,
           \A r \in Restorers : pc'[r] = pc[r] /\ made'[r] = made[r] /\ got'[r] = got[r]
    PROVE  Restores'
<1>1. \A r \in Restorers : Attended(r)' BY AttendedByOthers DEF Restores
<1>2. \A r \in Restorers : Restoring(r)' => Restoring(r) BY DEF Restoring
<1> QED BY <1>1, <1>2, RestoresNarrow

\* What users and the scheduler begin keeps the restores in order.
LEMMA PanelRestores ==
    ASSUME Typed, Restores, RowsStay, Panel
    PROVE  Restores'
<1>t. /\ TypeOK /\ pc \in [Procs -> Pcs] /\ gone \subseteq story.abandoned
      /\ job \in [Restorers -> {"none", "running", "waiting", "succeeded", "failed", "deleted"}]
      /\ jobOf \in [Restorers -> 0..MaxBackups]
  BY DEF Typed, TypeOK, Restores
<1>1. ASSUME NEW p \in Procs \ Restorers, NEW l, Goto(p, l), UNCHANGED <<job, jobOf, exists, made, got, gone>>
      PROVE  Restores'
  <2>1. \A r \in Restorers : pc'[r] = pc[r] BY <1>1, <1>t DEF Goto, Procs
  <2> QED BY <1>1, <1>t, <2>1, StillRestores
<1>2. ASSUME NEW p \in Callers, RunBegin(p) \/ RunDue(p) PROVE Restores'
  <2>1. p \in Procs \ Restorers BY BackupConstants DEF Procs
  <2> QED BY <1>1, <1>2, <2>1 DEF RunBegin, RunDue, jobVars, rowVars, callVars
<1>3. ASSUME NEW p \in Deleters, NEW i \in Ids, DeleteRead(p, i) PROVE Restores'
  <2>1. p \in Procs \ Restorers BY BackupConstants DEF Procs
  <2> QED BY <1>1, <1>3, <2>1 DEF DeleteRead, jobVars, rowVars
<1>4. ASSUME NEW r \in Restorers, NEW i \in Ids, RestoreRead(r, i) PROVE Restores'
  <2>1. /\ UNCHANGED <<job, exists, status, cfg, made, got, gone>> /\ job[r] = "none" /\ status[i] = "ok"
    BY <1>4 DEF RestoreRead, rowVars, Stored
  <2>2. /\ pc'[r] = "open" /\ jobOf'[r] = i
        /\ \A s \in Restorers \ {r} : pc'[s] = pc[s] /\ jobOf'[s] = jobOf[s]
    BY <1>4, <1>t DEF RestoreRead, Goto, Procs
  <2>3. ASSUME NEW s \in Restorers PROVE Attended(s)'
    <3>1. CASE s # r BY <2>1, <2>2, <3>1, AttendedByOthers DEF Restores
    <3>2. CASE s = r BY <2>1, <2>2, <3>2 DEF Attended, Restoring, Active, SavedPcs
    <3> QED BY <3>1, <3>2
  <2>4. \A s \in Restorers : Restoring(s)' => Restoring(s) BY <2>2 DEF Restoring
  <2> QED BY <1>t, <2>1, <2>3, <2>4, RestoresNarrow
<1>5. ASSUME NEW i \in Ids, NEW b \in BOOLEAN, SetLock(i, b) PROVE Restores'
  BY <1>5, <1>t, StillRestores DEF SetLock, jobVars, callVars
<1>6. ASSUME NEW r \in Rules, SetRule(r) PROVE Restores'
  BY <1>6, <1>t, StillRestores DEF SetRule, jobVars, callVars, rowVars
<1>7. CASE DeleteDevice
  <2>1. UNCHANGED <<jobOf, pc, made, got, gone>> /\ ~exists' BY <1>7 DEF DeleteDevice, callVars
  <2>2. \A r \in Restorers : job'[r] = "deleted" \/ (job'[r] = "none" /\ job[r] = "none")
    BY <1>7 DEF DeleteDevice
  <2>3. \A r \in Restorers : Attended(r)' BY <2>1, <2>2, AttendedByOthers DEF Restores
  <2>4. \A r \in Restorers : job'[r] \notin Active BY <2>2 DEF Active
  <2>5. \A r \in Restorers : Restoring(r)' => Restoring(r) BY <2>1 DEF Restoring
  <2> QED BY <1>t, <2>1, <2>3, <2>4, <2>5, RestoresNarrow
<1> QED BY <1>2, <1>3, <1>4, <1>5, <1>6, <1>7 DEF Panel

\* So do contexts that end, the device, the clock and a restart, whose
\* recovery fails the jobs nobody is left to finish.
LEMMA WorldRestores ==
    ASSUME Typed, Restores, RowsStay, \/ \E p \in Procs : Disconnect(p)
                                      \/ \E c \in Configs : Edit(c)
                                      \/ Reboot \/ Advance \/ Restart \/ UNCHANGED vars
    PROVE  Restores'
<1>t. gone \subseteq story.abandoned BY DEF Restores
<1>1. CASE \E p \in Procs : Disconnect(p)
  <2>1. gone' \subseteq story.abandoned /\ UNCHANGED <<job, jobOf, exists, pc, made, got>>
    BY <1>1, <1>t DEF Disconnect, jobVars, rowVars
  <2> QED BY <2>1, StillRestores
<1>2. CASE (\E c \in Configs : Edit(c)) \/ Reboot \/ Advance \/ UNCHANGED vars
  <2>1. UNCHANGED <<job, jobOf, exists, pc, made, got, gone>>
    BY <1>2 DEF Edit, Reboot, Advance, vars, jobVars, rowVars, callVars
  <2> QED BY <1>t, <2>1, StillRestores
<1>3. CASE Restart
  <2>1. /\ UNCHANGED <<jobOf, exists>> /\ gone' = {} /\ \A r \in Restorers : pc'[r] = "idle"
        /\ \A r \in Restorers : job'[r] \notin Active
    BY <1>3 DEF Restart, RecoverJob, Active, Procs, rowVars
  <2>2. \A r \in Restorers : Attended(r)' BY <2>1, AttendedReturns
  <2>3. \A r \in Restorers : ~Restoring(r)' BY <2>1 DEF Restoring
  <2> QED BY <2>1, <2>2, <2>3, RestoresNarrow
<1> QED BY <1>1, <1>2, <1>3

\* Restores and their jobs agree in every behaviour.
LEMMA RestoresAlways == Spec => []Restores
<1>1. Init => Restores
  <2> SUFFICES ASSUME Init PROVE Restores OBVIOUS
  <2>1. gone = {} /\ \A r \in Restorers : pc[r] = "idle" /\ job[r] = "none" BY DEF Init, Procs
  <2> QED BY <2>1 DEF Restores, Attended, RestoreExclusive, Restoring, Active, SavedPcs
<1>2. Typed /\ Drops /\ Restores /\ [Next]_vars => Restores'
  <2> SUFFICES ASSUME Typed, Drops, Restores, [Next]_vars PROVE Restores' OBVIOUS
  <2>1. RowsStay BY StepsLeaveRows
  <2> QED BY <2>1, RunRestores, RemoveRestores, RestoreRestores, PanelRestores, WorldRestores DEF Next
<1> QED BY <1>1, <1>2, TypedAlways, DropsAlways, PTL DEF Spec

\* The unique index on active jobs and the recovery: an active job, which
\* blocks the device, has a call or a watcher that finishes it, through any
\* crash and failure, unless its request was abandoned or backups are removed
\* beside it.
THEOREM EveryJobIsOwned == Spec => []JobsAreOwned
<1>1. Typed /\ Restores => JobsAreOwned BY DEF Typed, Restores, Attended, JobsAreOwned, ActiveIsOwned
<1> QED BY <1>1, TypedAlways, RestoresAlways, PTL

\* Where neither users nor policies remove backups, one restore works on the
\* device at a time, also when requests are abandoned, the process restarts or
\* the device is deleted meanwhile.
THEOREM OneRestoreAtATime == Spec => [](BackupsStay => RestoreExclusive)
<1>1. Restores => (BackupsStay => RestoreExclusive) BY DEF Restores
<1> QED BY <1>1, RestoresAlways, PTL

\* Only remove goes from "drop" to "unlink".
LEMMA UnlinkIsDropRow ==
    ASSUME Typed, [Next]_vars, NEW p \in Procs, pc[p] = "drop", pc'[p] = "unlink"
    PROVE  \E k \in Ids : DropRow(p, k)
<1>t. TypeOK /\ pc \in [Procs -> Pcs] BY DEF Typed, TypeOK
<1>1. ASSUME NEW q \in Callers \cup Restorers, Run(q) PROVE FALSE
  <2>1. Only(q) /\ q \in Procs BY <1>1, RunOnly DEF Procs
  <2>2. q = p BY <2>1 DEF Only
  <2> QED BY <1>1, <2>2 DEF Run, RunFetch, RunFetchFails, RunCompare, RunWrite, RunWriteFails, RunInsert,
                           RunInsertFails, RunRetain, RunGet
<1>2. ASSUME NEW q \in Procs, Remove(q) PROVE \E k \in Ids : DropRow(p, k)
  <2>1. ASSUME DropFile(q) \/ DropEnd(q) PROVE FALSE
    <3>1. pc'[q] \in {"drop", "idle", "get"} /\ \A x \in Procs \ {q} : pc'[x] = pc[x]
      BY <2>1, <1>t DEF DropFile, DropEnd, End, Goto
    <3> QED BY <3>1
  <2>2. ASSUME NEW k \in Ids, DropRow(q, k) PROVE DropRow(p, k)
    <3>1. \A x \in Procs \ {q} : pc'[x] = pc[x] BY <2>2, <1>t DEF DropRow, Goto
    <3> QED BY <2>2, <3>1
  <2> QED BY <1>2, <2>1, <2>2 DEF Remove
<1>3. ASSUME NEW r \in Restorers, Restore(r) PROVE FALSE
  <2>1. pc[r] # "drop" /\ \E l : Goto(r, l)
    BY <1>3 DEF Restore, RestoreOpen, RestoreFail, RestorePre, UploadAccepted, UploadDropped,
       UploadRefused, RestoreAwait, Watch, End
  <2> QED BY <1>t, <2>1 DEF Goto, Procs
<1>4. ASSUME Panel PROVE FALSE
  <2>1. pc' = pc \/ \E x \in Procs, l \in {"fetch", "drop", "open"} : Goto(x, l)
    BY <1>4 DEF Panel, RunBegin, RunDue, DeleteRead, RestoreRead, SetLock, SetRule, DeleteDevice, Procs
  <2> QED BY <1>t, <2>1 DEF Goto
<1>5. ASSUME \/ \E q \in Procs : Disconnect(q)
             \/ \E c \in Configs : Edit(c)
             \/ Reboot \/ Advance \/ Restart \/ UNCHANGED vars
      PROVE  FALSE
  BY <1>5 DEF Disconnect, Edit, Reboot, Advance, Restart, vars
<1> QED BY <1>1, <1>2, <1>3, <1>4, <1>5 DEF Next

\* Only an accepted upload adds to what the device accepted.
LEMMA AppliedIsUpload ==
    ASSUME [Next]_vars, NEW r, r \in applied' \ applied
    PROVE  r \in Restorers /\ UploadAccepted(r)
<1> USE DEF devVars
<1>1. ASSUME NEW q \in Callers \cup Restorers, Run(q) PROVE applied' = applied
  BY <1>1 DEF Run, RunFetch, RunFetchFails, RunCompare, RunWrite, RunWriteFails, RunInsert,
              RunInsertFails, RunRetain, RunGet
<1>2. ASSUME NEW q \in Procs, Remove(q) \/ Disconnect(q) PROVE applied' = applied
  BY <1>2 DEF Remove, DropFile, DropEnd, DropRow, Disconnect
<1>3. ASSUME NEW q \in Restorers, Restore(q), ~UploadAccepted(q) PROVE applied' = applied
  BY <1>3 DEF Restore, RestoreOpen, RestoreFail, RestorePre, UploadDropped, UploadRefused, RestoreAwait, Watch
<1>4. ASSUME NEW q \in Restorers, UploadAccepted(q) PROVE r = q BY <1>4 DEF UploadAccepted
<1>5. ASSUME Panel PROVE applied' = applied
  BY <1>5 DEF Panel, RunBegin, RunDue, DeleteRead, RestoreRead, SetLock, SetRule, DeleteDevice
<1>6. ASSUME \/ \E c \in Configs : Edit(c)
             \/ Reboot \/ Advance \/ Restart \/ UNCHANGED vars
      PROVE  applied' = applied
  BY <1>6 DEF Edit, Reboot, Advance, Restart, vars
<1> QED BY <1>1, <1>2, <1>3, <1>4, <1>5, <1>6 DEF Next

\* The way back stays open: retention removes a stored backup only while a
\* newer one is stored, however many calls of Run retain from stale lists at
\* once, and a device takes a restore only when what it ran is stored.
THEOREM TheWayBackStays == Spec => NothingIsLost
<1> DEFINE Outdone == \A p \in Callers \cup Restorers, i \in Stored :
                         /\ story.calls \cap Deleters = {}
                         /\ pc[p] = "drop" /\ pc'[p] = "unlink" /\ status'[i] = "none"
                         => \E j \in Stored : Newer(j, i)
           Saved == \A r \in Restorers :
                       BackupsStay /\ exists /\ r \in applied' \ applied
                       => \E i \in Stored : cfg[i] = got[r] /\ got[r] # NoConfig
<1>1. Typed /\ Drops /\ [Next]_vars => Outdone
  <2> SUFFICES ASSUME Typed, Drops, [Next]_vars, NEW p \in Callers \cup Restorers, NEW i \in Stored,
                      story.calls \cap Deleters = {}, pc[p] = "drop", pc'[p] = "unlink", status'[i] = "none"
               PROVE  \E j \in Stored : Newer(j, i)
    OBVIOUS
  <2>1. p \in Procs /\ i \in Ids /\ status[i] = "ok" BY DEF Procs, Stored
  <2>2. PICK k \in Ids : DropRow(p, k) BY <2>1, UnlinkIsDropRow
  <2>3. k = i BY <2>1, <2>2 DEF DropRow, Typed, TypeOK
  <2>4. i \in drop[p] BY <2>2, <2>3 DEF DropRow, Newest
  <2> QED BY <2>1, <2>4 DEF Drops
<1>2. Typed /\ Restores /\ [Next]_vars => Saved
  <2> SUFFICES ASSUME Typed, Restores, [Next]_vars, NEW r \in Restorers, BackupsStay, exists, r \in applied' \ applied
               PROVE  \E i \in Stored : cfg[i] = got[r] /\ got[r] # NoConfig
    OBVIOUS
  <2>1. UploadAccepted(r) BY AppliedIsUpload
  <2>2. made[r] \in Ids /\ status[made[r]] = "ok" /\ cfg[made[r]] = got[r]
    BY <2>1 DEF UploadAccepted, Restores, Attended, SavedPcs
  <2>3. got[r] \in Configs BY <2>2 DEF Typed, Known
  <2> QED BY <2>2, <2>3, BackupConstants DEF Stored
<1>3. Typed /\ Drops /\ Restores /\ [Next]_vars => [Outdone]_vars /\ [Saved]_vars BY <1>1, <1>2
<1>4. (Spec => [][Outdone]_vars) /\ (Spec => [][Saved]_vars)
  <2> HIDE DEF Outdone, Saved
  <2> QED BY <1>3, TypedAlways, DropsAlways, RestoresAlways, PTL DEF Spec
<1> QED BY <1>4 DEF NothingIsLost, RetentionKeepsNewest, SafetyNet

-----------------------------------------------------------------------------
(* The schedule. *)

\* The slots up to t; there are as many as runs up to the last one.
SlotsTo(t) == {n \in story.slots : n <= t}
\* No more passes than slots up to the last one, which is not ahead of the clock.
Slots == lastRun <= clock /\ passes <= Cardinality(SlotsTo(lastRun))

\* Slots are finitely many, and there are more of them later.
LEMMA SlotsGrow ==
    ASSUME TypeOK, NEW t \in Nat, NEW u \in Nat, t <= u
    PROVE  /\ IsFiniteSet(SlotsTo(u)) /\ Cardinality(SlotsTo(t)) \in Nat /\ Cardinality(SlotsTo(u)) \in Nat
           /\ Cardinality(SlotsTo(t)) <= Cardinality(SlotsTo(u))
           /\ (\E n \in story.slots : t < n /\ n <= u) => Cardinality(SlotsTo(t)) < Cardinality(SlotsTo(u))
<1>1. story.slots \subseteq 1..MaxClock /\ MaxClock \in Nat BY BackupConstants DEF TypeOK, Story
<1>2. IsFiniteSet(1..MaxClock) BY <1>1, FS_Interval
<1>3. SlotsTo(u) \subseteq 1..MaxClock BY <1>1 DEF SlotsTo
<1>4. IsFiniteSet(SlotsTo(u)) BY <1>2, <1>3, FS_Subset
<1>5. SlotsTo(t) \subseteq SlotsTo(u) BY <1>1 DEF SlotsTo
<1>6. /\ IsFiniteSet(SlotsTo(t)) /\ Cardinality(SlotsTo(t)) <= Cardinality(SlotsTo(u))
      /\ Cardinality(SlotsTo(u)) = Cardinality(SlotsTo(t)) => SlotsTo(t) = SlotsTo(u)
  BY <1>4, <1>5, FS_Subset
<1>7. Cardinality(SlotsTo(t)) \in Nat /\ Cardinality(SlotsTo(u)) \in Nat BY <1>4, <1>6, FS_CardinalityType
<1>8. ASSUME NEW n \in story.slots, t < n, n <= u PROVE SlotsTo(t) # SlotsTo(u)
  <2>1. n \in SlotsTo(u) /\ n \notin SlotsTo(t) BY <1>1, <1>8 DEF SlotsTo
  <2> QED BY <2>1
<1> QED BY <1>4, <1>6, <1>7, <1>8

\* The slot RunDue finds is after the last run.
LEMMA DueIsLater ==
    ASSUME TypeOK, NEW n \in story.slots, NextRunAt(n), lastRun <= clock
    PROVE  lastRun < n
<1>1. story.slots \subseteq 1..MaxClock BY BackupConstants DEF TypeOK, Story
<1>2. lastRun \in Nat /\ clock \in Nat /\ Day \in Nat /\ n \in Nat BY <1>1, BackupConstants DEF TypeOK
<1>3. PICK m \in story.slots :
         /\ SlotAfter(lastRun, m)
         /\ IF m < clock - Day THEN SlotAfter(clock - 1, n) ELSE n = m
  BY DEF NextRunAt
<1>4. m \in Nat /\ lastRun < m BY <1>1, <1>3 DEF SlotAfter
<1>5. CASE m < clock - Day BY <1>2, <1>3, <1>4, <1>5 DEF SlotAfter
<1>6. CASE ~(m < clock - Day) BY <1>3, <1>4, <1>6
<1> QED BY <1>5, <1>6

\* Every step keeps it: a scheduled run takes a slot no run before it took.
LEMMA SlotsKept ==
    ASSUME TypeOK, Slots, [Next]_vars
    PROVE  Slots'
<1>t. lastRun \in Nat /\ clock \in Nat /\ passes \in Nat BY DEF TypeOK
<1>u. UNCHANGED <<story, lastRun, passes, clock>> => Slots' BY DEF Slots, SlotsTo
<1>1. ASSUME NEW p \in Callers, RunDue(p) PROVE Slots'
  <2>1. lastRun' = clock /\ passes' = passes + 1 /\ clock' = clock /\ story' = story BY <1>1 DEF RunDue, Stamp
  <2>2. PICK n \in story.slots : NextRunAt(n) /\ n <= clock BY <1>1 DEF RunDue
  <2>3. lastRun < n BY <2>2, DueIsLater DEF Slots
  <2> DEFINE a == Cardinality(SlotsTo(lastRun))
             b == Cardinality(SlotsTo(clock))
  <2>4. a \in Nat /\ b \in Nat /\ a < b BY <1>t, <2>2, <2>3, SlotsGrow DEF Slots
  <2>5. passes <= a BY DEF Slots
  <2>6. Cardinality(SlotsTo(lastRun))' = b BY <2>1 DEF SlotsTo
  <2> HIDE DEF a, b
  <2>7. passes + 1 <= b BY <1>t, <2>4, <2>5
  <2> QED BY <1>t, <2>1, <2>6, <2>7 DEF Slots
<1>2. CASE Advance
  <2>1. UNCHANGED <<story, lastRun, passes>> /\ clock' = clock + 1 BY <1>2 DEF Advance
  <2> QED BY <1>t, <2>1 DEF Slots, SlotsTo
<1>3. ASSUME Panel, \A p \in Callers : ~RunDue(p) PROVE Slots'
  BY <1>3, <1>u DEF Panel, RunBegin, DeleteRead, RestoreRead, SetLock, SetRule, DeleteDevice, envVars
<1>4. ASSUME NEW q \in Callers \cup Restorers, Run(q) PROVE Slots'
  BY <1>4, <1>u DEF Run, RunFetch, RunFetchFails, RunCompare, RunWrite, RunWriteFails, RunInsert,
              RunInsertFails, RunRetain, RunGet, envVars
<1>5. ASSUME NEW q \in Procs, Remove(q) \/ Disconnect(q) PROVE Slots'
  BY <1>5, <1>u DEF Remove, DropFile, DropEnd, DropRow, Disconnect, envVars
<1>6. ASSUME NEW q \in Restorers, Restore(q) PROVE Slots'
  BY <1>6, <1>u DEF Restore, RestoreOpen, RestoreFail, RestorePre, UploadAccepted, UploadDropped, UploadRefused,
                    RestoreAwait, Watch, envVars
<1>7. ASSUME (\E c \in Configs : Edit(c)) \/ Reboot \/ Restart \/ UNCHANGED vars PROVE Slots'
  BY <1>7, <1>u DEF Edit, Reboot, Restart, vars, envVars
<1> QED BY <1>1, <1>2, <1>3, <1>4, <1>5, <1>6, <1>7 DEF Next

\* RunDue serves a slot at most once, whatever it missed while a run took long
\* or the process was down: there are never more scheduled runs than slots.
THEOREM SlotsAreServedOnce == Spec => []OncePerSlot
<1>1. Init => Slots
  <2> SUFFICES ASSUME Init PROVE Slots OBVIOUS
  <2>1. TypeOK BY InitTyped DEF Typed
  <2>2. 0 <= Cardinality(SlotsTo(0)) BY <2>1, SlotsGrow
  <2> QED BY <2>2 DEF Slots, Init
<1>2. TypeOK /\ Slots /\ [Next]_vars => Slots' BY SlotsKept
<1>3. TypeOK /\ Slots => OncePerSlot
  <2> SUFFICES ASSUME TypeOK, Slots PROVE OncePerSlot OBVIOUS
  <2>1. lastRun \in Nat /\ clock \in Nat /\ passes \in Nat BY DEF TypeOK
  <2> DEFINE a == Cardinality(SlotsTo(lastRun))
             b == Cardinality(SlotsTo(clock))
  <2>2. a \in Nat /\ b \in Nat /\ a <= b BY <2>1, SlotsGrow DEF Slots
  <2>3. passes <= a BY DEF Slots
  <2> HIDE DEF a, b
  <2>4. passes <= b BY <2>1, <2>2, <2>3
  <2> QED BY <2>4 DEF OncePerSlot, SlotsTo, b
<1>4. Spec => []TypeOK
  <2>1. Typed => TypeOK BY DEF Typed
  <2> QED BY <2>1, TypedAlways, PTL
<1> QED BY <1>1, <1>2, <1>3, <1>4, PTL DEF Spec
=============================================================================
