---------------------------- MODULE ChangeEngine ----------------------------
(***************************************************************************)
(* The change workflow of internal/changes: planned changes are submitted, *)
(* approved by other users than their creator, picked up by a scheduler    *)
(* that ticks every 20 seconds, and executed device by device (canaries    *)
(* first, then the rest on a bounded number of goroutines).                *)
(*                                                                         *)
(* The tables changes, change_targets, change_approvals and devices live   *)
(* in PostgreSQL and survive a crash; the device locks, the cancel flags,  *)
(* the scheduler and the executors live in the one process and do not.     *)
(* One action is one SQL statement or transaction, or one critical section *)
(* of the service's mutex: everything else may happen in between.          *)
(***************************************************************************)
EXTENDS Integers, Sequences, FiniteSets

CONSTANTS
    Changes,      \* ids of changes, handed out in creation order
    Devices,      \* ids of devices
    Users,        \* ids of panel users
    Plans,        \* what Create may be asked for, after normalize
    Cancellable,  \* changes users may ask to cancel while they run
    Deletable,    \* devices users may delete
    Windowed,     \* devices covered by some enabled maintenance window
    ListLimit,    \* rows List returns at most (200 in the code)
    MaxCrashes,   \* bound on process restarts
    DbFaults      \* may a statement fail, applied or not

RunModes == {"window", "at", "now"}

\* The devices of a change, in the order given and without repetition.
DeviceLists == {s \in Seq(Devices) : Len(s) >= 1 /\ \A i, j \in DOMAIN s : s[i] = s[j] => i = j}

\* A validated CreateInput and the approvals requiredFor asked of it.
Plan == [devs : DeviceLists, mode : RunModes, canary : Nat,
         conc : 1..50, maxFail : Nat, backup : BOOLEAN, required : 0..2]

ASSUME ConstantsOK ==
    /\ Changes \subseteq Nat
    /\ IsFiniteSet(Users) /\ IsFiniteSet(Devices)
    /\ Plans \subseteq Plan
    /\ Windowed \subseteq Devices /\ Deletable \subseteq Devices
    /\ Cancellable \subseteq Changes
    /\ ListLimit \in Nat
    /\ MaxCrashes \in Nat
    /\ DbFaults \in BOOLEAN

VARIABLES
    \* PostgreSQL
    devices,      \* rows of devices
    status,       \* changes.status, "none" before Create
    plan,         \* the columns of changes that never change
    mode,         \* changes.run_mode
    creator,      \* changes.created_by
    target,       \* change_targets.status, "none" where there is no row
    decision,     \* change_approvals.decision, "none" where there is no row
    \* time
    inWin,        \* devices for which inWindow holds now
    reached,      \* changes whose run_at has passed
    \* memory of the process
    locked,       \* Service.running: devices under a running change
    cancel,       \* Service.cancel: changes asked to stop
    cancelling,   \* Cancel calls that saw "running" and have not set the flag
    spc,          \* where Run is
    queue,        \* changes Tick listed and has not looked at
    snap,         \* what Tick read with the list: run modes, windows, the time
    held,         \* devices locked for a change, as its goroutine captured them
    epc,          \* where a change's execute is
    todo,         \* loaded targets execute has not reached
    canaries,     \* loaded targets that run first, alone
    failures,     \* execute's failure counter
    verdict,      \* execute's final status
    wpc,          \* where runTarget is for a change and a device
    crashes       \* restarts so far (bounded by MaxCrashes)

dbVars    == <<devices, status, plan, mode, creator, target, decision>>
timeVars  == <<inWin, reached>>
apiVars   == <<cancel, cancelling>>
schedVars == <<spc, queue, snap>>
execVars  == <<epc, todo, canaries, failures, verdict>>
vars == <<dbVars, timeVars, locked, apiVars, schedVars, held, execVars, wpc, crashes>>

Statuses == {"none", "draft", "pending", "approved", "running", "succeeded", "failed",
             "partial", "cancelled", "rejected"}
TargetStatuses == {"none", "pending", "running", "succeeded", "failed", "skipped"}
SchedPcs == {"recoverTargets", "recoverPending", "recoverChanges", "idle", "scan", "start"}
ExecPcs == {"none", "load", "canary", "fan", "acquire", "wait", "skip", "tally", "decide",
            "clear", "finish", "unlock"}
WorkerPcs == {"idle", "launched", "cleared", "marked", "backup", "apply", "ok", "err",
              "uncounted", "succeeded", "failed", "stopped"}

NoPlan == [devs |-> <<>>, mode |-> "window", canary |-> 0, conc |-> 1, maxFail |-> 0,
           backup |-> TRUE, required |-> 0]
NoSnap == [mode |-> [c \in Changes |-> "window"], win |-> {}, reached |-> {}]
NoUser == "nobody"

\* The state of a change without an executor.
IdleWorkers == [d \in Devices |-> "idle"]

Init ==
    /\ devices = Devices
    /\ status = [c \in Changes |-> "none"]
    /\ plan = [c \in Changes |-> NoPlan]
    /\ mode = [c \in Changes |-> "window"]
    /\ creator = [c \in Changes |-> NoUser]
    /\ target = [c \in Changes |-> [d \in Devices |-> "none"]]
    /\ decision = [c \in Changes |-> [u \in Users |-> "none"]]
    /\ inWin = Devices \ Windowed
    /\ reached = {}
    /\ locked = {} /\ cancel = {} /\ cancelling = {}
    /\ spc = "recoverTargets" /\ queue = {} /\ snap = NoSnap
    /\ held = [c \in Changes |-> {}]
    /\ epc = [c \in Changes |-> "none"]
    /\ todo = [c \in Changes |-> {}]
    /\ canaries = [c \in Changes |-> {}]
    /\ failures = [c \in Changes |-> 0]
    /\ verdict = [c \in Changes |-> "failed"]
    /\ wpc = [c \in Changes |-> IdleWorkers]
    /\ crashes = 0

-----------------------------------------------------------------------------
(* The panel's operations. *)

PlanDevs(p) == {p.devs[i] : i \in DOMAIN p.devs}

\* Create checks every device and inserts the change and its targets in one
\* transaction; a device deleted meanwhile makes the foreign key fail it.
Create(c, u, p) ==
    /\ status[c] = "none"
    /\ \A b \in Changes : b < c => status[b] # "none"
    /\ PlanDevs(p) \subseteq devices
    /\ status' = [status EXCEPT ![c] = "draft"]
    /\ plan' = [plan EXCEPT ![c] = p]
    /\ mode' = [mode EXCEPT ![c] = p.mode]
    /\ creator' = [creator EXCEPT ![c] = u]
    /\ target' = [target EXCEPT ![c] = [d \in Devices |-> IF d \in PlanDevs(p) THEN "pending" ELSE "none"]]
    /\ UNCHANGED <<devices, decision, timeVars, locked, apiVars, schedVars, held, execVars, wpc, crashes>>

SetStatus(c, s) == status' = [status EXCEPT ![c] = s]
StatusOnly == UNCHANGED <<devices, plan, mode, creator, target, decision, timeVars, locked,
                          apiVars, schedVars, held, execVars, wpc, crashes>>

Submit(c) ==
    /\ status[c] = "draft"
    /\ SetStatus(c, IF plan[c].required = 0 THEN "approved" ELSE "pending")
    /\ StatusOnly

Approvers(c) == {u \in Users : decision[c][u] = "approve"}

\* Mutant: the creator may approve, too.
MayDecideAnyone(c, u) == decision[c][u] = "none"

MayDecide(c, u) == creator[c] # u /\ decision[c][u] = "none"

\* Decide locks the row, refuses the creator and a second decision of a user
\* (the unique key), and counts the approvals the row just inserted included.
Decide(c, u, approve) ==
    /\ status[c] = "pending"
    /\ MayDecide(c, u)
    /\ decision' = [decision EXCEPT ![c][u] = IF approve THEN "approve" ELSE "reject"]
    /\ IF approve
       THEN SetStatus(c, IF plan[c].required <= Cardinality(Approvers(c) \cup {u}) THEN "approved" ELSE "pending")
       ELSE SetStatus(c, "rejected")
    /\ UNCHANGED <<devices, plan, mode, creator, target, timeVars, locked, apiVars, schedVars,
                   held, execVars, wpc, crashes>>

\* Mutant: targets that were not reached stay pending.
SkipNothing(c) == target[c]

SkipPending(c) == [d \in Devices |-> IF target[c][d] = "pending" THEN "skipped" ELSE target[c][d]]

\* Cancel of a change that has not started: one transaction.
CancelPlanned(c) ==
    /\ status[c] \in {"draft", "pending", "approved"}
    /\ SetStatus(c, "cancelled")
    /\ target' = [target EXCEPT ![c] = SkipPending(c)]
    /\ UNCHANGED <<devices, plan, mode, creator, decision, timeVars, locked, apiVars, schedVars,
                   held, execVars, wpc, crashes>>

\* Cancel of a running change: Get reads the status, then the flag is set
\* under the mutex; the change may have finished in between.
CancelObserve(c) ==
    /\ c \in Cancellable \ cancelling
    /\ status[c] = "running"
    /\ cancelling' = cancelling \cup {c}
    /\ UNCHANGED <<dbVars, timeVars, locked, cancel, schedVars, held, execVars, wpc, crashes>>

CancelFlag(c) ==
    /\ c \in cancelling
    /\ cancelling' = cancelling \ {c}
    /\ cancel' = cancel \cup {c}
    /\ UNCHANGED <<dbVars, timeVars, locked, schedVars, held, execVars, wpc, crashes>>

RunNow(c) ==
    /\ status[c] \in {"approved", "pending", "draft"}
    /\ mode' = [mode EXCEPT ![c] = "now"]
    /\ UNCHANGED <<devices, status, plan, creator, target, decision, timeVars, locked, apiVars,
                   schedVars, held, execVars, wpc, crashes>>

\* Deleting a device removes its targets with it (ON DELETE CASCADE).
DeleteDevice(d) ==
    /\ d \in devices \cap Deletable
    /\ devices' = devices \ {d}
    /\ target' = [c \in Changes |-> [target[c] EXCEPT ![d] = "none"]]
    /\ UNCHANGED <<status, plan, mode, creator, decision, timeVars, locked, apiVars, schedVars,
                   held, execVars, wpc, crashes>>

-----------------------------------------------------------------------------
(* Time: a device's windows open and close, a run_at passes. *)

ToggleWindow(d) ==
    /\ d \in Windowed
    /\ inWin' = IF d \in inWin THEN inWin \ {d} ELSE inWin \cup {d}
    /\ UNCHANGED <<dbVars, reached, locked, apiVars, schedVars, held, execVars, wpc, crashes>>

ReachRunAt(c) ==
    /\ status[c] # "none" /\ plan[c].mode = "at" /\ c \notin reached
    /\ reached' = reached \cup {c}
    /\ UNCHANGED <<dbVars, inWin, locked, apiVars, schedVars, held, execVars, wpc, crashes>>

-----------------------------------------------------------------------------
(* Run: recovery at start, then Tick. *)

\* Mutant: recovery fails every target of an interrupted change.
InterruptAll(c) ==
    [d \in Devices |-> IF status[c] = "running" /\ target[c][d] # "none" THEN "failed" ELSE target[c][d]]

Interrupt(c) == [d \in Devices |-> IF target[c][d] = "running" THEN "failed" ELSE target[c][d]]

\* Recovery, first statement: targets a previous process was working on.
RecoverTargets ==
    /\ spc = "recoverTargets" /\ spc' = "recoverPending"
    /\ \/ target' = [c \in Changes |-> Interrupt(c)]
       \/ DbFaults /\ UNCHANGED target
    /\ UNCHANGED <<devices, status, plan, mode, creator, decision, timeVars, locked, apiVars,
                   queue, snap, held, execVars, wpc, crashes>>

\* Second statement: targets of running changes it had not reached.
RecoverPending ==
    /\ spc = "recoverPending" /\ spc' = "recoverChanges"
    /\ \/ target' = [c \in Changes |-> IF status[c] = "running" THEN SkipPending(c) ELSE target[c]]
       \/ DbFaults /\ UNCHANGED target
    /\ UNCHANGED <<devices, status, plan, mode, creator, decision, timeVars, locked, apiVars,
                   queue, snap, held, execVars, wpc, crashes>>

\* Mutant: recovery forgets the changes.
RecoverNoChanges ==
    /\ spc = "recoverChanges" /\ spc' = "idle"
    /\ UNCHANGED <<dbVars, timeVars, locked, apiVars, queue, snap, held, execVars, wpc, crashes>>

\* Third statement: the running changes themselves.
RecoverChanges ==
    /\ spc = "recoverChanges" /\ spc' = "idle"
    /\ \/ status' = [c \in Changes |-> IF status[c] = "running" THEN "failed" ELSE status[c]]
       \/ DbFaults /\ UNCHANGED status
    /\ UNCHANGED <<devices, plan, mode, creator, target, decision, timeVars, locked, apiVars,
                   queue, snap, held, execVars, wpc, crashes>>

Approved == {c \in Changes : status[c] = "approved"}

\* List(status = approved): the newest ListLimit of them.
Listed == {c \in Approved : Cardinality({b \in Approved : b > c}) < ListLimit}

\* Tick reads the list, the windows and the time; nothing is done about an
\* empty list.
TickList ==
    /\ spc = "idle"
    /\ Listed # {}
    /\ spc' = "scan"
    /\ queue' = Listed
    /\ snap' = [mode |-> mode, win |-> inWin, reached |-> reached]
    /\ UNCHANGED <<dbVars, timeVars, locked, apiVars, held, execVars, wpc, crashes>>

\* Tick's loop goes on with the changes in q, or returns.
Continue(q) ==
    /\ queue' = q
    /\ IF q = {} THEN spc' = "idle" /\ snap' = NoSnap
                 ELSE spc' = "scan" /\ UNCHANGED snap

Oldest(c) == c \in queue /\ \A b \in queue : c <= b

\* Targets with a row; the row is there only while the device is.
TargetDevices(c) == {d \in Devices : target[c][d] # "none"}

DueAt(c) ==
    CASE snap.mode[c] = "now"    -> TRUE
      [] snap.mode[c] = "at"     -> c \in snap.reached
      [] snap.mode[c] = "window" -> TargetDevices(c) \subseteq snap.win

\* Mutant: lock refuses only when every device is taken.
AllTaken(c) == TargetDevices(c) # {} /\ TargetDevices(c) \subseteq locked

\* lock refuses when any of the devices is taken.
Taken(c) == TargetDevices(c) \cap locked # {}

\* A due change whose devices are free: lock takes them all. A device deleted
\* between targetDevices and lock would be taken in vain: no other change can
\* have it, so the two are one step.
TickLock(c) ==
    /\ spc = "scan" /\ Oldest(c)
    /\ DueAt(c)
    /\ ~Taken(c)
    /\ locked' = locked \cup TargetDevices(c)
    /\ held' = [held EXCEPT ![c] = TargetDevices(c)]
    /\ spc' = "start"
    /\ UNCHANGED <<dbVars, timeVars, apiVars, queue, snap, execVars, wpc, crashes>>

TickSkip(c) ==
    /\ spc = "scan" /\ Oldest(c)
    /\ \/ ~DueAt(c)
       \/ Taken(c)
    /\ Continue(queue \ {c})
    /\ UNCHANGED <<dbVars, timeVars, locked, apiVars, held, execVars, wpc, crashes>>

\* Reading the targets failed: the whole tick is given up.
TickAbort ==
    /\ DbFaults
    /\ spc = "scan"
    /\ Continue({})
    /\ UNCHANGED <<dbVars, timeVars, locked, apiVars, held, execVars, wpc, crashes>>

\* The conditional UPDATE found the change still approved; execute starts.
TickStart(c) ==
    /\ spc = "start" /\ Oldest(c)
    /\ status[c] = "approved"
    /\ SetStatus(c, "running")
    /\ epc' = [epc EXCEPT ![c] = "load"]
    /\ Continue(queue \ {c})
    /\ UNCHANGED <<devices, plan, mode, creator, target, decision, timeVars, locked, apiVars,
                   held, todo, canaries, failures, verdict, wpc, crashes>>

\* Mutants: unlock reads the targets again, or is forgotten.
UnlockTargets(c) ==
    /\ locked' = locked \ TargetDevices(c)
    /\ held' = [held EXCEPT ![c] = {}]

UnlockNothing(c) ==
    /\ UNCHANGED locked
    /\ held' = [held EXCEPT ![c] = {}]

Unlock(c) ==
    /\ locked' = locked \ held[c]
    /\ held' = [held EXCEPT ![c] = {}]

\* The UPDATE matched no row: the change was cancelled since it was listed.
TickLost(c) ==
    /\ spc = "start" /\ Oldest(c)
    /\ status[c] # "approved"
    /\ Unlock(c)
    /\ Continue(queue \ {c})
    /\ UNCHANGED <<dbVars, timeVars, apiVars, execVars, wpc, crashes>>

\* The UPDATE failed, perhaps after it was applied: the tick is given up.
TickStartFault(c) ==
    /\ DbFaults
    /\ spc = "start" /\ Oldest(c)
    /\ \/ UNCHANGED status
       \/ status[c] = "approved" /\ SetStatus(c, "running")
    /\ Unlock(c)
    /\ Continue({})
    /\ UNCHANGED <<devices, plan, mode, creator, target, decision, timeVars, apiVars, execVars,
                   wpc, crashes>>

-----------------------------------------------------------------------------
(* execute: one goroutine per running change. *)

At(c, pc) == epc[c] = pc
Goto(c, pc) == epc' = [epc EXCEPT ![c] = pc]
ExecOnly == UNCHANGED <<dbVars, timeVars, locked, apiVars, schedVars, held, crashes>>

InFlight(c) == {d \in Devices : wpc[c][d] \notin {"idle", "succeeded", "failed", "stopped"}}
Stop(c) == failures[c] > plan[c].maxFail \/ c \in cancel

\* Place of a device in the order the creator gave.
Position(c, d) == CHOOSE i \in DOMAIN plan[c].devs : plan[c].devs[i] = d
First(c, d, S) == d \in S /\ \A e \in S : Position(c, d) <= Position(c, e)

\* The canaries are the first of the targets that still have a device.
CanariesOf(c, S) ==
    {d \in S : Cardinality({e \in S : Position(c, e) < Position(c, d)}) < plan[c].canary}

ExecLoad(c) ==
    /\ At(c, "load")
    /\ Goto(c, "canary")
    /\ todo' = [todo EXCEPT ![c] = TargetDevices(c)]
    /\ canaries' = [canaries EXCEPT ![c] = CanariesOf(c, TargetDevices(c))]
    /\ failures' = [failures EXCEPT ![c] = 0]
    /\ ExecOnly /\ UNCHANGED <<verdict, wpc>>

\* The targets could not be read: execute returns and the change stays running.
ExecLoadFault(c) ==
    /\ DbFaults
    /\ At(c, "load")
    /\ Goto(c, "unlock")
    /\ ExecOnly /\ UNCHANGED <<todo, canaries, failures, verdict, wpc>>

\* The canary loop runs the next canary, in this goroutine.
CanaryRun(c, d) ==
    /\ At(c, "canary") /\ InFlight(c) = {}
    /\ ~Stop(c)
    /\ First(c, d, todo[c] \cap canaries[c])
    /\ todo' = [todo EXCEPT ![c] = @ \ {d}]
    /\ wpc' = [wpc EXCEPT ![c][d] = "cleared"]
    /\ ExecOnly /\ UNCHANGED <<epc, canaries, failures, verdict>>

\* Mutant: a failed canary is a failure like any other.
AfterCanariesLimit(c) == IF failures[c] > plan[c].maxFail THEN "skip" ELSE "fan"

AfterCanaries(c) == IF failures[c] > 0 THEN "skip" ELSE "fan"

\* The canary loop ends; a failed canary ends the change.
CanaryEnd(c) ==
    /\ At(c, "canary") /\ InFlight(c) = {}
    /\ Stop(c) \/ todo[c] \cap canaries[c] = {}
    /\ todo' = [todo EXCEPT ![c] = @ \ canaries[c]]
    /\ Goto(c, AfterCanaries(c))
    /\ ExecOnly /\ UNCHANGED <<canaries, failures, verdict, wpc>>

\* The loop over the other targets: stop() first, then a semaphore slot.
FanCheck(c) ==
    /\ At(c, "fan")
    /\ Goto(c, IF todo[c] = {} \/ Stop(c) THEN "wait" ELSE "acquire")
    /\ ExecOnly /\ UNCHANGED <<todo, canaries, failures, verdict, wpc>>

FanLaunch(c, d) ==
    /\ At(c, "acquire")
    /\ Cardinality(InFlight(c)) < plan[c].conc
    /\ First(c, d, todo[c])
    /\ todo' = [todo EXCEPT ![c] = @ \ {d}]
    /\ wpc' = [wpc EXCEPT ![c][d] = "launched"]
    /\ Goto(c, "fan")
    /\ ExecOnly /\ UNCHANGED <<canaries, failures, verdict>>

\* Mutant: execute does not wait for its goroutines.
ExecWaitNot(c) ==
    /\ At(c, "wait")
    /\ Goto(c, "skip")
    /\ ExecOnly /\ UNCHANGED <<todo, canaries, failures, verdict, wpc>>

\* wg.Wait, then what was not reached is skipped.
ExecWait(c) ==
    /\ At(c, "wait") /\ InFlight(c) = {}
    /\ Goto(c, "skip")
    /\ ExecOnly /\ UNCHANGED <<todo, canaries, failures, verdict, wpc>>

ExecSkip(c) ==
    /\ At(c, "skip")
    /\ Goto(c, "tally")
    /\ \/ target' = [target EXCEPT ![c] = SkipPending(c)]
       \/ DbFaults /\ UNCHANGED target
    /\ UNCHANGED <<devices, status, plan, mode, creator, decision, timeVars, locked, apiVars,
                   schedVars, held, todo, canaries, failures, verdict, wpc, crashes>>

\* Mutants: a status of targets given to a change; one success is success.
OutcomeSkipped(c) ==
    IF \A d \in Devices : target[c][d] \in {"none", "skipped"} THEN "skipped" ELSE "failed"

OutcomeAnySuccess(c) ==
    IF \A d \in Devices : target[c][d] # "succeeded" THEN "failed" ELSE "succeeded"

\* The status the counts alone would give; a failed query leaves both at 0.
Outcome(c) ==
    IF \A d \in Devices : target[c][d] # "succeeded" THEN "failed"
    ELSE IF \E d \in Devices : target[c][d] \in {"failed", "skipped"} THEN "partial"
    ELSE "succeeded"

ExecTally(c) ==
    /\ At(c, "tally")
    /\ Goto(c, "decide")
    /\ \/ verdict' = [verdict EXCEPT ![c] = Outcome(c)]
       \/ DbFaults /\ verdict' = [verdict EXCEPT ![c] = "failed"]
    /\ ExecOnly /\ UNCHANGED <<todo, canaries, failures, wpc>>

ExecDecide(c) ==
    /\ At(c, "decide")
    /\ Goto(c, "clear")
    /\ verdict' = [verdict EXCEPT ![c] = IF c \in cancel THEN "cancelled" ELSE @]
    /\ ExecOnly /\ UNCHANGED <<todo, canaries, failures, wpc>>

ExecClear(c) ==
    /\ At(c, "clear")
    /\ Goto(c, "finish")
    /\ cancel' = cancel \ {c}
    /\ UNCHANGED <<dbVars, timeVars, locked, cancelling, schedVars, held, todo, canaries,
                   failures, verdict, wpc, crashes>>

ExecFinish(c) ==
    /\ At(c, "finish")
    /\ Goto(c, "unlock")
    /\ \/ SetStatus(c, verdict[c])
       \/ DbFaults /\ UNCHANGED status
    /\ UNCHANGED <<devices, plan, mode, creator, target, decision, timeVars, locked, apiVars,
                   schedVars, held, todo, canaries, failures, verdict, wpc, crashes>>

\* The deferred unlock; the goroutine and its locals are gone.
ExecUnlock(c) ==
    /\ At(c, "unlock")
    /\ Goto(c, "none")
    /\ Unlock(c)
    /\ todo' = [todo EXCEPT ![c] = {}]
    /\ canaries' = [canaries EXCEPT ![c] = {}]
    /\ failures' = [failures EXCEPT ![c] = 0]
    /\ verdict' = [verdict EXCEPT ![c] = "failed"]
    /\ wpc' = [wpc EXCEPT ![c] = IdleWorkers]
    /\ UNCHANGED <<dbVars, timeVars, apiVars, schedVars, crashes>>

-----------------------------------------------------------------------------
(* runTarget: a canary in execute's goroutine, the others in their own. *)

Step(c, d, from, to) ==
    /\ wpc[c][d] = from
    /\ wpc' = [wpc EXCEPT ![c][d] = to]

WorkerOnly == UNCHANGED <<dbVars, timeVars, locked, apiVars, schedVars, held, execVars, crashes>>

\* Mutant: the goroutine relies on the check before the semaphore.
WorkerStartUnchecked(c, d) ==
    /\ Step(c, d, "launched", "cleared")
    /\ WorkerOnly

\* The goroutine asks stop() once more before it starts.
WorkerStart(c, d) ==
    /\ Step(c, d, "launched", IF Stop(c) THEN "stopped" ELSE "cleared")
    /\ WorkerOnly

\* UPDATE ... WHERE id: no row, no effect.
SetTarget(c, d, s) ==
    target' = [target EXCEPT ![c][d] = IF @ = "none" THEN "none" ELSE s]
TargetOnly == UNCHANGED <<devices, status, plan, mode, creator, decision, timeVars, locked,
                          apiVars, schedVars, held, execVars, crashes>>

WorkerMark(c, d) ==
    /\ Step(c, d, "cleared", "marked")
    /\ SetTarget(c, d, "running")
    /\ TargetOnly

\* The UPDATE failed: runTarget returns before it installs its deferred record.
WorkerMarkFault(c, d) ==
    /\ DbFaults
    /\ Step(c, d, "cleared", "uncounted")
    /\ UNCHANGED target \/ SetTarget(c, d, "running")
    /\ TargetOnly

\* The device is gone, unlicensed, or may be worked on.
WorkerCheck(c, d) ==
    /\ \/ Step(c, d, "marked", "err")
       \/ d \in devices /\ Step(c, d, "marked", IF plan[c].backup THEN "backup" ELSE "apply")
    /\ WorkerOnly

\* backups.Run and then the kind's runner, each of which may fail.
WorkerBackup(c, d) ==
    /\ Step(c, d, "backup", "apply") \/ Step(c, d, "backup", "err")
    /\ WorkerOnly

WorkerApply(c, d) ==
    /\ Step(c, d, "apply", "ok") \/ Step(c, d, "apply", "err")
    /\ WorkerOnly

\* The deferred UPDATE records the result; its error is only logged.
WorkerRecord(c, d) ==
    /\ \/ Step(c, d, "ok", "succeeded") /\ SetTarget(c, d, "succeeded")
       \/ Step(c, d, "err", "uncounted") /\ SetTarget(c, d, "failed")
    /\ TargetOnly

WorkerRecordFault(c, d) ==
    /\ DbFaults
    /\ Step(c, d, "ok", "succeeded") \/ Step(c, d, "err", "uncounted")
    /\ WorkerOnly

\* runOne counts the failure and frees the slot.
WorkerCount(c, d) ==
    /\ Step(c, d, "uncounted", "failed")
    /\ failures' = [failures EXCEPT ![c] = @ + 1]
    /\ UNCHANGED <<dbVars, timeVars, locked, apiVars, schedVars, held, epc, todo, canaries,
                   verdict, crashes>>

-----------------------------------------------------------------------------
\* The process ends, by a crash or by a shutdown that waits for no change
\* (Run returns when its context does), and is started again.
Crash ==
    /\ crashes < MaxCrashes
    /\ crashes' = crashes + 1
    /\ locked' = {} /\ cancel' = {} /\ cancelling' = {}
    /\ spc' = "recoverTargets" /\ queue' = {} /\ snap' = NoSnap
    /\ held' = [c \in Changes |-> {}]
    /\ epc' = [c \in Changes |-> "none"]
    /\ todo' = [c \in Changes |-> {}]
    /\ canaries' = [c \in Changes |-> {}]
    /\ failures' = [c \in Changes |-> 0]
    /\ verdict' = [c \in Changes |-> "failed"]
    /\ wpc' = [c \in Changes |-> IdleWorkers]
    /\ UNCHANGED <<dbVars, timeVars>>

Panel(c) ==
    \/ \E u \in Users, p \in Plans : Create(c, u, p)
    \/ Submit(c)
    \/ \E u \in Users, approve \in BOOLEAN : Decide(c, u, approve)
    \/ CancelPlanned(c) \/ CancelObserve(c) \/ CancelFlag(c)
    \/ RunNow(c)

Scheduler ==
    \/ RecoverTargets \/ RecoverPending \/ RecoverChanges
    \/ TickList \/ TickAbort
    \/ \E c \in Changes : TickLock(c) \/ TickSkip(c) \/ TickStart(c) \/ TickLost(c) \/ TickStartFault(c)

Execute(c) ==
    \/ ExecLoad(c) \/ ExecLoadFault(c)
    \/ \E d \in Devices : CanaryRun(c, d) \/ FanLaunch(c, d)
    \/ CanaryEnd(c) \/ FanCheck(c) \/ ExecWait(c) \/ ExecSkip(c) \/ ExecTally(c)
    \/ ExecDecide(c) \/ ExecClear(c) \/ ExecFinish(c) \/ ExecUnlock(c)

RunTarget(c, d) ==
    \/ WorkerStart(c, d) \/ WorkerMark(c, d) \/ WorkerMarkFault(c, d) \/ WorkerCheck(c, d)
    \/ WorkerBackup(c, d) \/ WorkerApply(c, d) \/ WorkerRecord(c, d) \/ WorkerRecordFault(c, d)
    \/ WorkerCount(c, d)

Next ==
    \/ \E c \in Changes : Panel(c) \/ ReachRunAt(c) \/ Execute(c)
    \/ \E d \in Devices : DeleteDevice(d) \/ ToggleWindow(d)
    \/ \E c \in Changes, d \in Devices : RunTarget(c, d)
    \/ Scheduler
    \/ Crash

Spec == Init /\ [][Next]_vars

\* Goroutines that can go on do; panel users, windows and crashes owe nothing.
Fairness ==
    /\ WF_vars(Scheduler)
    /\ \A c \in Changes : WF_vars(Execute(c))
    /\ \A c \in Changes, d \in Devices : WF_vars(RunTarget(c, d))

FairSpec == Spec /\ Fairness

-----------------------------------------------------------------------------
(* Properties *)

\* The tables and the process memory hold values of their kinds.
TypeOK ==
    /\ devices \subseteq Devices
    /\ status \in [Changes -> Statuses]
    /\ plan \in [Changes -> Plan \cup {NoPlan}]
    /\ mode \in [Changes -> RunModes]
    /\ creator \in [Changes -> Users \cup {NoUser}]
    /\ target \in [Changes -> [Devices -> TargetStatuses]]
    /\ decision \in [Changes -> [Users -> {"none", "approve", "reject"}]]
    /\ inWin \subseteq Devices /\ reached \subseteq Changes
    /\ locked \subseteq Devices /\ cancel \subseteq Changes /\ cancelling \subseteq Changes
    /\ spc \in SchedPcs
    /\ queue \subseteq Changes
    /\ snap \in [mode : [Changes -> RunModes], win : SUBSET Devices, reached : SUBSET Changes]
    /\ held \in [Changes -> SUBSET Devices]
    /\ epc \in [Changes -> ExecPcs]
    /\ todo \in [Changes -> SUBSET Devices]
    /\ canaries \in [Changes -> SUBSET Devices]
    /\ failures \in [Changes -> Nat]
    /\ verdict \in [Changes -> {"succeeded", "failed", "partial", "cancelled"}]
    /\ wpc \in [Changes -> [Devices -> WorkerPcs]]
    /\ crashes \in 0..MaxCrashes

\* Tick holds the devices of c between lock and its conditional UPDATE.
Starting(c) == spc = "start" /\ Oldest(c)

\* execute before its first and after its last goroutine.
NotWorking == {"none", "load", "skip", "tally", "decide", "clear", "finish", "unlock"}

\* The lock protocol of one change: what execute still has to do or has in
\* goroutines is covered by the devices its goroutine captured, those are in
\* Service.running, and only Tick or execute hold any.
LocksCover(c) ==
    /\ InFlight(c) \cup todo[c] \subseteq held[c]
    /\ held[c] \subseteq locked
    /\ At(c, "load") \/ Starting(c) => TargetDevices(c) \subseteq held[c]
    /\ At(c, "none") /\ held[c] # {} => Starting(c)
    /\ epc[c] \in NotWorking => InFlight(c) = {}
    /\ At(c, "none") => todo[c] = {}

\* The status of one change and the goroutines it has agree.
StatusAgrees(c) ==
    /\ c \in queue => status[c] # "none" /\ At(c, "none")
    /\ epc[c] \notin {"none", "unlock"} => status[c] = "running"
    /\ At(c, "unlock") => status[c] \in {"running", "succeeded", "failed", "partial", "cancelled"}

\* The lock table, the captured locks, the goroutines and the statuses fit
\* together in every state, whatever statement fails: no two changes hold a
\* device, no lock is left behind, and recovery runs before anything is held.
LockDiscipline ==
    /\ \A c \in Changes : LocksCover(c) /\ StatusAgrees(c)
    /\ \A b, c \in Changes : b # c => held[b] \cap held[c] = {}
    /\ \A d \in locked : \E c \in Changes : d \in held[c]
    /\ spc \notin {"idle", "scan", "start"} =>
           queue = {} /\ \A c \in Changes : At(c, "none") /\ held[c] = {}

\* No device is worked on for two changes at once: lock takes all devices of
\* a change or none, and unlock comes after every goroutine has ended.
DeviceExclusive ==
    \A b, c \in Changes : b # c => InFlight(b) \cap InFlight(c) = {}

\* A device is worked on only while its change is running in the database:
\* the conditional UPDATE of Tick, and a finish that waits for all targets.
WorkOnlyWhileRunning ==
    \A c \in Changes : InFlight(c) # {} => status[c] = "running"

\* A change that runs or ran had the approvals asked of it when it was
\* created, none of them by its creator, however the decisions, cancels,
\* run-nows and restarts interleaved.
RunsApproved ==
    \A c \in Changes : status[c] \in {"approved", "running", "succeeded", "partial", "failed"} =>
        Cardinality(Approvers(c) \ {creator[c]}) >= plan[c].required

\* What has ended is settled: no target of a finished or cancelled change is
\* left pending or running, whatever statement of execute or of the recovery
\* a crash falls between.
EndedIsSettled ==
    \A c \in Changes : status[c] \in {"succeeded", "partial", "failed", "cancelled"} =>
        \A d \in Devices : target[c][d] \notin {"pending", "running"}

\* "succeeded" is said of a change only when every target it has succeeded.
SucceededMeansAll ==
    \A c \in Changes : status[c] = "succeeded" =>
        \A d \in Devices : target[c][d] \in {"none", "succeeded"}

\* No target after the canaries is started unless every canary succeeded,
\* also when a cancel ends the canary loop early.
CanaryGate ==
    \A c \in Changes, d \in Devices :
        wpc[c][d] \notin {"idle", "launched", "stopped"} /\ d \notin canaries[c] =>
            \A k \in canaries[c] : wpc[c][k] = "succeeded"

\* Failures stop a change: beyond the limit only the targets already in a
\* goroutine may still fail.
FailureBound ==
    \A c \in Changes : epc[c] # "none" =>
        Cardinality({d \in Devices : wpc[c][d] \in {"err", "uncounted", "failed"}})
            <= plan[c].maxFail + plan[c].conc

\* After the recovery every running change has a goroutine that will end it.
RunningIsExecuted ==
    \A c \in Changes : status[c] = "running" /\ spc \in {"idle", "scan", "start"} => epc[c] # "none"

\* A target that has a result keeps it: no target is run twice, across
\* cancels, deletions and restarts.
ResultsAreFinal ==
    [][\A c \in Changes, d \in Devices : target[c][d] \in {"succeeded", "failed", "skipped"} =>
           target'[c][d] \in {target[c][d], "none"}]_vars

\* Tick "starts every approved change that is due": one set to run now does
\* not stay approved for ever.
RunNowIsStarted ==
    \A c \in Changes : (status[c] = "approved" /\ mode[c] = "now") ~> (status[c] # "approved")

\* A running change ends, also when the process restarts.
RunningEnds ==
    \A c \in Changes : (status[c] = "running") ~> (status[c] # "running")

\* The end of a change tells the truth: execute, Cancel and recovery leave no
\* target open, and call the change succeeded only when every target is.
EndIsHonest == EndedIsSettled /\ SucceededMeansAll

\* A rollout is stopped in time: by a canary that did not succeed, and by the
\* failure limit, which only goroutines already started can pass.
RolloutIsGated == CanaryGate /\ FailureBound
=============================================================================
