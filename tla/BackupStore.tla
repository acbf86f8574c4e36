---------------------------- MODULE BackupStore ----------------------------
(***************************************************************************)
(* The backups of one device (internal/backup): Run stores the running     *)
(* configuration as an encrypted file and a row, retention and users       *)
(* remove rows and files, and Restore uploads a stored configuration after *)
(* a safety backup and watches the device come back.                       *)
(*                                                                         *)
(* Rows live in PostgreSQL, files on disk; both survive a crash.  A call   *)
(* is a process; one action is one statement, one file operation or one    *)
(* exchange with the device.                                               *)
(***************************************************************************)
EXTENDS Integers, FiniteSets

CONSTANTS
    Callers,       \* calls of Run: the panel, the scheduler, a change
    Deleters,      \* calls of Delete
    Restorers,     \* calls of Restore, each used once: also the id of its job
    Configs,       \* configurations, equal when their fingerprints are
    Rules,         \* retention rules policies may give the device
    NoRule,        \* no enabled policy covers the device
    FailedAge,     \* failed rows older than this go (30 days)
    ScanLimit,     \* rows retention looks at (1000)
    Day,           \* a slot missed by more than this is given up (24 hours)
    Stories,       \* initial states: records of Story
    MaxBackups,    \* bound on the rows ever inserted
    MaxClock       \* bound on the clock

Ids == 1..MaxBackups
Procs == Callers \cup Deleters \cup Restorers
NoConfig == "no configuration"

\* keep_count and keep_days of a policy; 0 is no limit.
Rule == [count : Nat, age : Nat]

\* Who may call, the rules there are, the times the policy's schedule names, the
\* rows users lock, the calls whose request context may end before the handler
\* does, whether the device may be deleted, and bounds on clock and restarts.
Story == [calls : SUBSET Procs, rules : SUBSET Rules, slots : SUBSET (1..MaxClock), lockable : SUBSET Ids,
          abandoned : SUBSET Procs, deviceGoes : BOOLEAN, clock : 0..MaxClock, crashes : Nat]

ASSUME BackupConstants ==
    /\ Callers \cap Deleters = {} /\ Callers \cap Restorers = {} /\ Deleters \cap Restorers = {}
    /\ NoConfig \notin Configs
    /\ Rules \subseteq Rule \cup {NoRule} /\ NoRule \notin Rule
    /\ FailedAge \in Nat /\ ScanLimit \in Nat /\ Day \in Nat
    /\ MaxBackups \in Nat /\ MaxClock \in Nat
    /\ Stories \subseteq Story

VARIABLES
    \* PostgreSQL
    exists,     \* the device's row
    status,     \* backups.status, "none" where there is no row
    cfg,        \* backups.sha256
    at,         \* backups.at
    locked,     \* backups.locked
    lastId,     \* the sequence of backups.id
    job,        \* restore_jobs.status, "none" where there is no row
    jobOf,      \* restore_jobs.backup_id
    rule,       \* the rule of the most specific enabled policy
    lastRun,    \* backup_policies.last_run_at, created_at before the first run
    \* disk; a file is named by the number of its write
    path,       \* backups.path: of a row, kept after it is gone
    files,      \* the files there are
    lastFile,   \* how many were written
    \* the device
    config,     \* its running configuration
    up,         \* it answers
    applied,    \* restores whose file it accepted
    \* calls in the process, and their local variables
    pc,         \* where a call is
    got,        \* the configuration Run fetched
    file,       \* the file Run wrote, or that is about to be removed
    stamp,      \* the time Run read for its row
    drop,       \* rows a call is about to remove
    made,       \* the row Run is about to return
    want,       \* the configuration Restore uploads
    gone,       \* calls whose request context has ended
    story, clock, crashes,
    passes      \* observation: scheduled runs so far

rowVars  == <<exists, status, cfg, at, locked, lastId>>
jobVars  == <<job, jobOf>>
diskVars == <<path, files, lastFile>>
devVars  == <<config, up, applied>>
callVars == <<got, file, stamp, drop, made, want, gone>>
envVars  == <<story, rule, lastRun, passes, clock, crashes>>
vars == <<rowVars, jobVars, diskVars, devVars, pc, callVars, envVars>>

Pcs == {"idle", "fetch", "compare", "write", "insert", "retain", "drop", "unlink", "get",
        "open", "pre", "upload", "await", "watch", "fail"}
Active == {"running", "waiting"}

Init ==
    /\ story \in Stories
    /\ exists = TRUE
    /\ status = [i \in Ids |-> "none"] /\ cfg = [i \in Ids |-> NoConfig] /\ at = [i \in Ids |-> 0]
    /\ locked = [i \in Ids |-> FALSE] /\ lastId = 0
    /\ job = [r \in Restorers |-> "none"] /\ jobOf = [r \in Restorers |-> 0]
    /\ rule \in story.rules /\ lastRun = 0 /\ passes = 0
    /\ path = [i \in Ids |-> 0] /\ files = {} /\ lastFile = 0
    /\ config \in Configs /\ up = TRUE /\ applied = {}
    /\ pc = [p \in Procs |-> "idle"]
    /\ got = [p \in Procs |-> NoConfig] /\ file = [p \in Procs |-> 0]
    /\ stamp = [p \in Procs |-> 0] /\ drop = [p \in Procs |-> {}] /\ made = [p \in Procs |-> 0]
    /\ want = [p \in Procs |-> NoConfig]
    /\ gone = {} /\ clock = 0 /\ crashes = 0

-----------------------------------------------------------------------------
(* Helpers. *)

Goto(p, l) == pc' = [pc EXCEPT ![p] = l]

\* A call ends, and its variables with it.
End(p) ==
    /\ Goto(p, "idle")
    /\ got' = [got EXCEPT ![p] = NoConfig] /\ want' = [want EXCEPT ![p] = NoConfig]
    /\ file' = [file EXCEPT ![p] = 0] /\ stamp' = [stamp EXCEPT ![p] = 0]
    /\ drop' = [drop EXCEPT ![p] = {}] /\ made' = [made EXCEPT ![p] = 0]
    /\ gone' = gone \ {p}

\* Run returns to its caller: to Restore, or to a handler that answers.
Return(p, ok) ==
    IF p \in Restorers THEN Goto(p, IF ok THEN "pre" ELSE "fail") /\ UNCHANGED callVars
                       ELSE End(p)

Rows == {i \in Ids : status[i] # "none"}
Stored == {i \in Ids : status[i] = "ok"}

\* ORDER BY at DESC, id DESC.
Newer(i, j) == at[i] > at[j] \/ (at[i] = at[j] /\ i > j)
Newest(i, S) == i \in S /\ \A j \in S \ {i} : Newer(i, j)

\* Calls of Run that may still insert a row: MaxBackups is not exceeded.
Inserting == {p \in Procs : pc[p] \in {"fetch", "compare", "write", "insert", "open"}}
MayInsert == lastId + Cardinality(Inserting) < MaxBackups /\ lastFile + Cardinality(Inserting) < MaxBackups

Insert(s, c, t, f) ==
    /\ lastId' = lastId + 1
    /\ status' = [status EXCEPT ![lastId + 1] = s]
    /\ cfg' = [cfg EXCEPT ![lastId + 1] = c]
    /\ at' = [at EXCEPT ![lastId + 1] = t]
    /\ path' = [path EXCEPT ![lastId + 1] = f]
    /\ UNCHANGED <<exists, locked>>

-----------------------------------------------------------------------------
(* Run. *)

RunBegin(p) ==
    /\ p \in Callers \cap story.calls /\ pc[p] = "idle"
    /\ exists /\ MayInsert
    /\ Goto(p, "fetch")
    /\ UNCHANGED <<rowVars, jobVars, diskVars, devVars, callVars, envVars>>

\* BackupConfig succeeds; a safety backup is stored without comparing.
RunFetch(p) ==
    /\ pc[p] = "fetch" /\ up /\ p \notin gone
    /\ got' = [got EXCEPT ![p] = config]
    /\ Goto(p, IF p \in Restorers THEN "write" ELSE "compare")
    /\ UNCHANGED <<rowVars, jobVars, diskVars, devVars, file, stamp, drop, made, want, gone, envVars>>

\* It fails, or the device is gone or not licensed. The failure is recorded
\* if it can be; an error of that INSERT is only logged.
RunFetchFails(p) ==
    /\ pc[p] = "fetch"
    /\ \/ exists /\ Insert("failed", NoConfig, clock, 0)
       \/ UNCHANGED <<rowVars, path>>
    /\ Return(p, FALSE)
    /\ UNCHANGED <<jobVars, files, lastFile, devVars, envVars>>

\* Equal to the latest stored one: that one is returned.
RunCompare(p) ==
    /\ pc[p] = "compare"
    /\ IF p \in gone \/ \E i \in Stored : Newest(i, Stored) /\ cfg[i] = got[p]
       THEN Return(p, p \notin gone)
       ELSE Goto(p, "write") /\ UNCHANGED callVars
    /\ UNCHANGED <<rowVars, jobVars, diskVars, devVars, envVars>>

\* Mutant: a file is named by the time alone.
NameByTime == clock + 1

\* The time and a random part: no two writes share a name.
NewName == lastFile + 1

\* The file is complete before its row: a temporary name, then a rename.
RunWrite(p) ==
    /\ pc[p] = "write"
    /\ lastFile' = lastFile + 1 /\ files' = files \cup {NewName}
    /\ file' = [file EXCEPT ![p] = NewName]
    /\ stamp' = [stamp EXCEPT ![p] = clock]
    /\ Goto(p, "insert")
    /\ UNCHANGED <<rowVars, jobVars, path, devVars, got, drop, made, want, gone, envVars>>

RunWriteFails(p) ==
    /\ pc[p] = "write"
    /\ Return(p, FALSE)
    /\ UNCHANGED <<rowVars, jobVars, diskVars, devVars, envVars>>

RunInsert(p) ==
    /\ pc[p] = "insert" /\ exists /\ p \notin gone
    /\ Insert("ok", got[p], stamp[p], file[p])
    /\ made' = [made EXCEPT ![p] = lastId + 1]
    /\ Goto(p, "retain")
    /\ UNCHANGED <<jobVars, files, lastFile, devVars, got, file, stamp, drop, want, gone, envVars>>

\* The INSERT reports an error, and the file is removed. It was not applied
\* when the device is gone; when the context ended it may have been.
RunInsertFails(p) ==
    /\ pc[p] = "insert" /\ (~exists \/ p \in gone)
    /\ \/ UNCHANGED <<rowVars, path>>
       \/ exists /\ Insert("ok", got[p], stamp[p], file[p])
    /\ files' = files \ {file[p]}
    /\ Return(p, FALSE)
    /\ UNCHANGED <<jobVars, lastFile, devVars, envVars>>

\* Rows after the first are beyond the count, or older than the age, of r.
Expired(r, i, n) ==
    /\ r # NoRule
    /\ \/ r.count > 0 /\ n > r.count
       \/ r.age > 0 /\ clock - at[i] > r.age

\* Mutant: the newest backup goes when it is too old.
RetentionDropAll(r) ==
    LET scanned == {i \in Rows : Cardinality({j \in Rows : Newer(j, i)}) < ScanLimit}
    IN  {i \in scanned : status[i] = "ok" /\ ~locked[i] /\
            Expired(r, i, Cardinality({j \in Stored : Newer(j, i)}) + 1)}

\* applyRetention over the newest ScanLimit rows: the newest stored backup
\* and the locked ones stay, locked ones count, old failures go.
RetentionDrop(r) ==
    LET scanned == {i \in Rows : Cardinality({j \in Rows : Newer(j, i)}) < ScanLimit}
        rank(i) == Cardinality({j \in Stored : Newer(j, i)}) + 1
    IN  {i \in scanned : \/ status[i] = "failed" /\ clock - at[i] > FailedAge
                         \/ status[i] = "ok" /\ ~locked[i] /\ rank(i) # 1 /\ Expired(r, i, rank(i))}

RunRetain(p) ==
    /\ pc[p] = "retain"
    /\ IF exists /\ p \notin gone
       THEN drop' = [drop EXCEPT ![p] = RetentionDrop(rule)] /\ Goto(p, "drop")
       ELSE UNCHANGED drop /\ Goto(p, "get")
    /\ UNCHANGED <<rowVars, jobVars, diskVars, devVars, got, file, stamp, made, want, gone, envVars>>

\* Run reads its row back.
RunGet(p) ==
    /\ pc[p] = "get"
    /\ Return(p, status[made[p]] # "none" /\ p \notin gone)
    /\ UNCHANGED <<rowVars, jobVars, diskVars, devVars, envVars>>

-----------------------------------------------------------------------------
(* The scheduler. *)

\* The schedule's first slot after t.
SlotAfter(t, n) ==
    /\ n \in story.slots /\ n > t
    /\ \A u \in story.slots : u > t => n <= u

\* "A missed run (server down) happens once, not once per missed slot": counted
\* from the last run, and from now when that is more than a day ago.
NextRunAt(n) ==
    \E m \in story.slots :
       /\ SlotAfter(lastRun, m)
       /\ IF m < clock - Day THEN SlotAfter(clock - 1, n) ELSE n = m

\* Mutant: a failed or late run is not counted as the last.
Stamped(t) == IF t \in story.slots THEN t ELSE lastRun

\* last_run_at is the time of the pass, not of the slot.
Stamp(t) == t

\* RunDue: the policy is stamped before its devices are backed up, and the
\* scheduler waits for them.
RunDue(p) ==
    /\ p \in Callers \cap story.calls /\ pc[p] = "idle"
    /\ exists /\ MayInsert
    /\ \E n \in story.slots : NextRunAt(n) /\ n <= clock
    /\ lastRun' = Stamp(clock) /\ passes' = passes + 1
    /\ Goto(p, "fetch")
    /\ UNCHANGED <<rowVars, jobVars, diskVars, devVars, callVars, story, rule, clock, crashes>>

-----------------------------------------------------------------------------
(* remove, for retention and for Delete. *)

\* Deleting the row takes the jobs that restore it along (ON DELETE CASCADE).
DropRow(p, i) ==
    /\ pc[p] = "drop" /\ p \notin gone
    /\ Newest(i, drop[p])
    /\ status' = [status EXCEPT ![i] = "none"]
    /\ cfg' = [cfg EXCEPT ![i] = NoConfig] /\ locked' = [locked EXCEPT ![i] = FALSE]
    /\ job' = [r \in Restorers |-> IF jobOf[r] = i /\ status[i] # "none" /\ job[r] # "none" THEN "deleted" ELSE job[r]]
    /\ drop' = [drop EXCEPT ![p] = @ \ {i}]
    /\ file' = [file EXCEPT ![p] = path[i]]
    /\ Goto(p, "unlink")
    /\ UNCHANGED <<exists, at, lastId, jobOf, diskVars, devVars, got, stamp, made, want, gone, envVars>>

DropFile(p) ==
    /\ pc[p] = "unlink"
    /\ files' = files \ {file[p]}
    /\ Goto(p, "drop")
    /\ UNCHANGED <<rowVars, jobVars, path, lastFile, devVars, callVars, envVars>>

DropEnd(p) ==
    /\ pc[p] = "drop" /\ (drop[p] = {} \/ p \in gone)
    /\ IF p \in Deleters
       THEN End(p)
       ELSE /\ Goto(p, "get") /\ drop' = [drop EXCEPT ![p] = {}]
            /\ UNCHANGED <<got, file, stamp, made, want, gone>>
    /\ UNCHANGED <<rowVars, jobVars, diskVars, devVars, envVars>>

\* Delete reads the row and refuses a locked one.
DeleteRead(p, i) ==
    /\ p \in Deleters \cap story.calls /\ pc[p] = "idle"
    /\ i \in Rows /\ ~locked[i]
    /\ drop' = [drop EXCEPT ![p] = {i}]
    /\ Goto(p, "drop")
    /\ UNCHANGED <<rowVars, jobVars, diskVars, devVars, got, file, stamp, made, want, gone, envVars>>

SetLock(i, b) ==
    /\ i \in Rows \cap story.lockable
    /\ locked' = [locked EXCEPT ![i] = b]
    /\ UNCHANGED <<exists, status, cfg, at, lastId, jobVars, diskVars, devVars, pc, callVars, envVars>>

-----------------------------------------------------------------------------
(* Restore. *)

\* Content reads the row and the file.
RestoreRead(r, i) ==
    /\ r \in story.calls /\ pc[r] = "idle" /\ job[r] = "none" /\ jobOf[r] = 0
    /\ exists /\ i \in Stored /\ path[i] \in files /\ MayInsert
    /\ want' = [want EXCEPT ![r] = cfg[i]]
    /\ jobOf' = [jobOf EXCEPT ![r] = i]
    /\ Goto(r, "open")
    /\ UNCHANGED <<rowVars, job, diskVars, devVars, got, file, stamp, drop, made, gone, envVars>>

\* Mutant: nothing keeps two jobs of a device from being active.
FreeAlways == TRUE

\* The unique index on the device's active jobs.
DeviceFree == \A s \in Restorers : job[s] \notin Active

\* The index and the foreign keys let the INSERT pass; when the context ends
\* it may be applied without an answer.
RestoreOpen(r) ==
    LET open == exists /\ status[jobOf[r]] # "none" /\ DeviceFree
    IN  /\ pc[r] = "open"
        /\ \/ /\ open /\ job' = [job EXCEPT ![r] = "running"]
              /\ IF r \in gone THEN End(r) ELSE Goto(r, "fetch") /\ UNCHANGED callVars
           \/ (~open \/ r \in gone) /\ UNCHANGED job /\ End(r)
        /\ UNCHANGED <<rowVars, jobOf, diskVars, devVars, envVars>>

\* finish: by id, whatever the job's status is; no row, no effect.
Finish(r, s) == job' = [job EXCEPT ![r] = IF @ \in {"none", "deleted"} THEN @ ELSE s]

\* Mutant: a failed safety backup does not end the restore.
RestoreFailOn(r) ==
    /\ pc[r] = "fail"
    /\ Goto(r, "upload")
    /\ UNCHANGED <<rowVars, jobVars, diskVars, devVars, callVars, envVars>>

RestoreFail(r) ==
    /\ pc[r] = "fail"
    /\ Finish(r, "failed") /\ End(r)
    /\ UNCHANGED <<rowVars, jobOf, diskVars, devVars, envVars>>

\* The UPDATE of pre_backup_id fails when the context ended or the safety
\* backup is gone again; Restore then returns and leaves the job.
RestorePre(r) ==
    /\ pc[r] = "pre"
    /\ IF r \in gone \/ (status[made[r]] = "none" /\ job[r] # "deleted")
       THEN End(r)
       ELSE Goto(r, "upload") /\ UNCHANGED callVars
    /\ UNCHANGED <<rowVars, jobVars, diskVars, devVars, envVars>>

\* The device accepts the file and reboots, answered or not.
UploadAccepted(r) ==
    /\ pc[r] = "upload" /\ up
    /\ config' = want[r] /\ up' = FALSE
    /\ applied' = applied \cup {r}
    /\ Goto(r, "await")
    /\ UNCHANGED <<rowVars, jobVars, diskVars, callVars, envVars>>

\* The connection ends before the device has the file; the code cannot tell.
UploadDropped(r) ==
    /\ pc[r] = "upload"
    /\ Goto(r, "await")
    /\ UNCHANGED <<rowVars, jobVars, diskVars, devVars, callVars, envVars>>

UploadRefused(r) ==
    /\ pc[r] = "upload"
    /\ Goto(r, "fail")
    /\ UNCHANGED <<rowVars, jobVars, diskVars, devVars, callVars, envVars>>

\* The job waits for the reboot and the watcher starts, unless the context
\* ended: Restore then returns and leaves the job.
RestoreAwait(r) ==
    /\ pc[r] = "await"
    /\ IF r \in gone
       THEN (UNCHANGED job \/ Finish(r, "waiting")) /\ End(r)
       ELSE Finish(r, "waiting") /\ Goto(r, "watch") /\ UNCHANGED callVars
    /\ UNCHANGED <<rowVars, jobOf, diskVars, devVars, envVars>>

\* watch: a probe succeeds, or the deadline passes.
Watch(r) ==
    /\ pc[r] = "watch"
    /\ \/ exists /\ up /\ Finish(r, "succeeded")
       \/ Finish(r, "failed")
    /\ End(r)
    /\ UNCHANGED <<rowVars, jobOf, diskVars, devVars, envVars>>

-----------------------------------------------------------------------------
(* The rest of the world. *)

\* Saving or deleting policies gives the device another rule.
SetRule(r) ==
    /\ r \in story.rules \ {rule}
    /\ rule' = r
    /\ UNCHANGED <<rowVars, jobVars, diskVars, devVars, pc, callVars, story, lastRun, passes, clock, crashes>>

\* Rows and jobs go with the device; files stay.
DeleteDevice ==
    /\ story.deviceGoes /\ exists
    /\ exists' = FALSE
    /\ status' = [i \in Ids |-> "none"]
    /\ cfg' = [i \in Ids |-> NoConfig] /\ locked' = [i \in Ids |-> FALSE]
    /\ job' = [r \in Restorers |-> IF job[r] = "none" THEN "none" ELSE "deleted"]
    /\ UNCHANGED <<at, lastId, jobOf, diskVars, devVars, pc, callVars, envVars>>

Disconnect(p) ==
    /\ p \in story.abandoned
    /\ pc[p] \notin {"idle", "watch"} /\ p \notin gone
    /\ gone' = gone \cup {p}
    /\ UNCHANGED <<rowVars, jobVars, diskVars, devVars, pc, got, file, stamp, drop, made, want, envVars>>

\* An administrator changes the device; it finishes a reboot.
Edit(c) ==
    /\ up /\ c # config
    /\ config' = c
    /\ UNCHANGED <<rowVars, jobVars, diskVars, up, applied, pc, callVars, envVars>>

Reboot ==
    /\ ~up
    /\ up' = TRUE
    /\ UNCHANGED <<rowVars, jobVars, diskVars, config, applied, pc, callVars, envVars>>

Advance ==
    /\ clock < story.clock
    /\ clock' = clock + 1
    /\ UNCHANGED <<rowVars, jobVars, diskVars, devVars, pc, callVars, story, rule, lastRun, passes, crashes>>

\* Mutant: jobs of the previous process stay active.
RecoverNoJobs(r) == job[r]

\* Mutant: recovery writes the status that changes use.
RecoverInterrupted(r) == IF job[r] \in Active THEN "interrupted" ELSE job[r]

\* RecoverJobs.
RecoverJob(r) == IF job[r] \in Active THEN "failed" ELSE job[r]

\* The process ends and starts again; RecoverJobs runs before anything else.
Restart ==
    /\ crashes < story.crashes
    /\ crashes' = crashes + 1
    /\ job' = [r \in Restorers |-> RecoverJob(r)]
    /\ pc' = [p \in Procs |-> "idle"]
    /\ got' = [p \in Procs |-> NoConfig] /\ want' = [p \in Procs |-> NoConfig]
    /\ file' = [p \in Procs |-> 0] /\ stamp' = [p \in Procs |-> 0]
    /\ drop' = [p \in Procs |-> {}] /\ made' = [p \in Procs |-> 0]
    /\ gone' = {}
    /\ UNCHANGED <<rowVars, jobOf, diskVars, devVars, story, rule, lastRun, passes, clock>>

Run(p) ==
    \/ RunFetch(p) \/ RunFetchFails(p) \/ RunCompare(p) \/ RunWrite(p) \/ RunWriteFails(p)
    \/ RunInsert(p) \/ RunInsertFails(p) \/ RunRetain(p) \/ RunGet(p)

Remove(p) == DropFile(p) \/ DropEnd(p) \/ \E i \in Ids : DropRow(p, i)

Restore(r) ==
    \/ RestoreOpen(r) \/ RestoreFail(r) \/ RestorePre(r) \/ UploadAccepted(r) \/ UploadDropped(r)
    \/ UploadRefused(r) \/ RestoreAwait(r) \/ Watch(r)

Panel ==
    \/ \E p \in Callers : RunBegin(p) \/ RunDue(p)
    \/ \E i \in Ids : \/ \E p \in Deleters : DeleteRead(p, i)
                      \/ \E r \in Restorers : RestoreRead(r, i)
                      \/ \E b \in BOOLEAN : SetLock(i, b)
    \/ \E r \in Rules : SetRule(r)
    \/ DeleteDevice

Next ==
    \/ Panel
    \/ \E p \in Callers \cup Restorers : Run(p)
    \/ \E p \in Procs : Remove(p) \/ Disconnect(p)
    \/ \E r \in Restorers : Restore(r)
    \/ \E c \in Configs : Edit(c)
    \/ Reboot \/ Advance \/ Restart

Spec == Init /\ [][Next]_vars

\* A restore that has begun goes on; nobody owes a call, a reboot or a restart.
Fairness == \A r \in Restorers : WF_vars(Run(r) \/ Remove(r) \/ Restore(r))

FairSpec == Spec /\ Fairness

-----------------------------------------------------------------------------
(* Properties *)

\* Rows, files and calls hold values of their kinds.
TypeOK ==
    /\ exists \in BOOLEAN /\ lastId \in 0..MaxBackups
    /\ status \in [Ids -> {"none", "ok", "failed"}]
    /\ cfg \in [Ids -> Configs \cup {NoConfig}]
    /\ at \in [Ids -> 0..MaxClock]
    /\ locked \in [Ids -> BOOLEAN]
    /\ job \in [Restorers -> {"none", "running", "waiting", "succeeded", "failed", "deleted"}]
    /\ jobOf \in [Restorers -> 0..MaxBackups]
    /\ story \in Stories /\ rule \in Rules /\ lastRun \in 0..MaxClock /\ passes \in Nat
    /\ path \in [Ids -> Nat] /\ files \subseteq Nat /\ lastFile \in 0..MaxBackups
    /\ config \in Configs /\ up \in BOOLEAN /\ applied \subseteq Restorers
    /\ pc \in [Procs -> Pcs]
    /\ got \in [Procs -> Configs \cup {NoConfig}]
    /\ file \in [Procs -> Nat]
    /\ stamp \in [Procs -> 0..MaxClock]
    /\ drop \in [Procs -> SUBSET Ids]
    /\ made \in [Procs -> 0..MaxBackups]
    /\ want \in [Procs -> Configs \cup {NoConfig}]
    /\ gone \subseteq Procs
    /\ clock \in 0..MaxClock /\ crashes \in 0..story.crashes

FilesPresent == \A i \in Stored : path[i] \in files

\* A stored backup can be read: its file is there from before the row is
\* inserted until after it is deleted, whatever removals and crashes meet, as
\* long as requests live as long as their handlers.
RowHasFile == story.abandoned = {} => FilesPresent

\* "The newest backup is always kept": where users delete none meanwhile,
\* retention removes a stored backup only while a newer one is stored, also
\* when two calls of Run retain at once.
RetentionKeepsNewest ==
    [][\A p \in Callers \cup Restorers, i \in Stored :
          /\ story.calls \cap Deleters = {}
          /\ pc[p] = "drop" /\ pc'[p] = "unlink" /\ status'[i] = "none"
          => \E j \in Stored : Newer(j, i)]_vars

\* A call that restores the device, from the job's insert to its finish.
Restoring(r) == pc[r] \notin {"idle", "open"}

\* "a restore is already in progress on this device": one at a time.
RestoreExclusive == \A r, s \in Restorers : r # s => ~(Restoring(r) /\ Restoring(s))

\* Neither a user nor a policy removes a stored backup.
BackupsStay == story.calls \cap Deleters = {} /\ story.rules \subseteq {NoRule}

\* "It first stores a backup of the running configuration, then restores":
\* what the device ran is stored when it accepts another configuration, where
\* backups stay and the device was not deleted.
SafetyNet ==
    [][\A r \in Restorers :
          BackupsStay /\ exists /\ r \in applied' \ applied
          => \E i \in Stored : cfg[i] = got[r] /\ got[r] # NoConfig]_vars

\* An active job, which blocks other restores of the device, has a call or a
\* watcher that will finish it, unless its request was abandoned or its safety
\* backup may have been removed before the job named it.
ActiveIsOwned ==
    \A r \in Restorers : job[r] \in Active => Restoring(r) \/ r \in story.abandoned \/ ~BackupsStay

\* A restore ends, with the same exceptions: its job does not stay active and
\* block the device.
AttendedEnds ==
    \A r \in Restorers :
       (job[r] \in Active /\ r \notin story.abandoned /\ BackupsStay) ~> job[r] \notin Active

\* A slot is served once, however late, and slots missed together are served by
\* one pass: there are never more scheduled runs than slots.
OncePerSlot == passes <= Cardinality({n \in story.slots : n <= clock})

\* Restore jobs are accounted for: they have the statuses the panel and the
\* unique index know, and an active one has somebody who finishes it.
JobsAreOwned == TypeOK /\ ActiveIsOwned

\* What can be needed to get back is there: neither retention nor a restore
\* leaves the device without the backup of what it last ran.
NothingIsLost == RetentionKeepsNewest /\ SafetyNet
=============================================================================
