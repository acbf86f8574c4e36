--------------------------- MODULE ChangesProofs ---------------------------
(***************************************************************************)
(* What TLAPS proves of the workflow, for every value of its constants:    *)
(* types, locks and approvals; results are final, a rollout stops in time, *)
(* and, while the database answers, the end of a change tells the truth,   *)
(* every running change has an executor, and the workflow implements       *)
(* ChangeLifecycle. Last, the windows changes run in and the estimate of   *)
(* their start.                                                            *)
(***************************************************************************)
EXTENDS ChangeRefinement, ChangeRules, FiniteSetTheorems, TLAPS

\* New builds a state of the declared types.
LEMMA InitType == Init => TypeOK
  BY ConstantsOK DEF Init, TypeOK, ConstantsOK, NoPlan, NoSnap, NoUser, IdleWorkers, Statuses, TargetStatuses,
     SchedPcs, ExecPcs, WorkerPcs, RunModes

\* The handlers of the panel keep the types.
LEMMA PanelType ==
  ASSUME TypeOK, NEW c \in Changes, Panel(c) PROVE TypeOK'
  <1> USE DEF TypeOK, dbVars, timeVars, apiVars, schedVars, execVars
  <1>1. ASSUME NEW u \in Users, NEW p \in Plans, Create(c, u, p) PROVE TypeOK'
    BY <1>1, ConstantsOK DEF Create, ConstantsOK, Plan, Statuses, TargetStatuses
  <1>2. CASE Submit(c)
    BY <1>2 DEF Submit, SetStatus, StatusOnly, Statuses
  <1>3. ASSUME NEW u \in Users, NEW approve \in BOOLEAN, Decide(c, u, approve) PROVE TypeOK'
    BY <1>3 DEF Decide, SetStatus, Statuses
  <1>4. CASE CancelPlanned(c)
    BY <1>4 DEF CancelPlanned, SetStatus, SkipPending, Statuses, TargetStatuses
  <1>5. CASE CancelObserve(c)
    BY <1>5 DEF CancelObserve
  <1>6. CASE CancelFlag(c)
    BY <1>6 DEF CancelFlag
  <1>7. CASE RunNow(c)
    BY <1>7 DEF RunNow, RunModes
  <1> QED BY <1>1, <1>2, <1>3, <1>4, <1>5, <1>6, <1>7 DEF Panel

\* Deleted devices, windows, time and crashes keep the types.
LEMMA EnvironmentType ==
  ASSUME TypeOK,
         \/ \E d \in Devices : DeleteDevice(d) \/ ToggleWindow(d)
         \/ \E c \in Changes : ReachRunAt(c)
         \/ Crash
  PROVE  TypeOK'
  <1> USE DEF TypeOK, dbVars, timeVars, apiVars, schedVars, execVars
  <1>1. ASSUME NEW d \in Devices, DeleteDevice(d) PROVE TypeOK'
    BY <1>1 DEF DeleteDevice, TargetStatuses
  <1>2. ASSUME NEW d \in Devices, ToggleWindow(d) PROVE TypeOK'
    BY <1>2 DEF ToggleWindow
  <1>3. ASSUME NEW c \in Changes, ReachRunAt(c) PROVE TypeOK'
    BY <1>3 DEF ReachRunAt
  <1>4. CASE Crash
    BY <1>4, ConstantsOK DEF Crash, ConstantsOK, NoSnap, IdleWorkers, SchedPcs, ExecPcs, WorkerPcs, RunModes
  <1> QED BY <1>1, <1>2, <1>3, <1>4

\* Recovery and Tick keep the types.
LEMMA SchedulerType ==
  ASSUME TypeOK, Scheduler PROVE TypeOK'
  <1> USE DEF TypeOK, dbVars, timeVars, apiVars, schedVars, execVars
  <1>1. CASE RecoverTargets
    BY <1>1 DEF RecoverTargets, Interrupt, SchedPcs, TargetStatuses
  <1>2. CASE RecoverPending
    BY <1>2 DEF RecoverPending, SkipPending, SchedPcs, TargetStatuses
  <1>3. CASE RecoverChanges
    BY <1>3 DEF RecoverChanges, SchedPcs, Statuses
  <1>4. CASE TickList
    BY <1>4 DEF TickList, Listed, Approved, SchedPcs
  <1> DEFINE NextQueue == queue' \in SUBSET Changes /\ spc' \in SchedPcs
                          /\ snap' \in [mode : [Changes -> RunModes], win : SUBSET Devices, reached : SUBSET Changes]
  <1>5. ASSUME NEW q \in SUBSET queue, Continue(q) PROVE NextQueue
    BY <1>5 DEF Continue, NoSnap, SchedPcs, RunModes
  <1>6. CASE TickAbort
    <2>1. NextQueue BY <1>5, <1>6 DEF TickAbort
    <2> QED BY <1>6, <2>1 DEF TickAbort
  <1>7. ASSUME NEW c \in Changes, TickLock(c) PROVE TypeOK'
    BY <1>7 DEF TickLock, TargetDevices, SchedPcs
  <1>8. ASSUME NEW c \in Changes, TickSkip(c) PROVE TypeOK'
    <2>1. NextQueue BY <1>5, <1>8 DEF TickSkip
    <2> QED BY <1>8, <2>1 DEF TickSkip
  <1>9. ASSUME NEW c \in Changes, TickStart(c) PROVE TypeOK'
    <2>1. NextQueue BY <1>5, <1>9 DEF TickStart
    <2> QED BY <1>9, <2>1 DEF TickStart, SetStatus, Statuses, ExecPcs
  <1>10. ASSUME NEW c \in Changes, TickLost(c) PROVE TypeOK'
    <2>1. NextQueue BY <1>5, <1>10 DEF TickLost
    <2> QED BY <1>10, <2>1 DEF TickLost, Unlock
  <1>11. ASSUME NEW c \in Changes, TickStartFault(c) PROVE TypeOK'
    <2>1. NextQueue BY <1>5, <1>11 DEF TickStartFault
    <2> QED BY <1>11, <2>1 DEF TickStartFault, Unlock, SetStatus, Statuses
  <1> QED BY <1>1, <1>2, <1>3, <1>4, <1>6, <1>7, <1>8, <1>9, <1>10, <1>11 DEF Scheduler

\* The steps of execute keep the types.
LEMMA ExecuteType ==
  ASSUME TypeOK, NEW c \in Changes, Execute(c) PROVE TypeOK'
  <1> USE DEF TypeOK, dbVars, timeVars, apiVars, schedVars, execVars, At, Goto, ExecOnly, ExecPcs
  <1>1. CASE ExecLoad(c)
    BY <1>1 DEF ExecLoad, TargetDevices, CanariesOf
  <1>2. CASE ExecLoadFault(c)
    BY <1>2 DEF ExecLoadFault
  <1>3. ASSUME NEW d \in Devices, CanaryRun(c, d) PROVE TypeOK'
    BY <1>3 DEF CanaryRun, WorkerPcs
  <1>4. ASSUME NEW d \in Devices, FanLaunch(c, d) PROVE TypeOK'
    BY <1>4 DEF FanLaunch, WorkerPcs
  <1>5. CASE CanaryEnd(c)
    BY <1>5 DEF CanaryEnd, AfterCanaries
  <1>6. CASE FanCheck(c)
    BY <1>6 DEF FanCheck
  <1>7. CASE ExecWait(c)
    BY <1>7 DEF ExecWait
  <1>8. CASE ExecSkip(c)
    <2>1. target' \in [Changes -> [Devices -> TargetStatuses]]
      <3>1. SkipPending(c) \in [Devices -> TargetStatuses] BY DEF SkipPending, TargetStatuses
      <3>2. CASE target' = [target EXCEPT ![c] = SkipPending(c)] BY <3>1, <3>2
      <3>3. CASE UNCHANGED target BY <3>3
      <3> QED BY <1>8, <3>2, <3>3 DEF ExecSkip
    <2> QED BY <1>8, <2>1 DEF ExecSkip
  <1>9. CASE ExecTally(c)
    <2>1. Outcome(c) \in {"succeeded", "failed", "partial", "cancelled"}
      BY DEF Outcome
    <2> QED BY <1>9, <2>1 DEF ExecTally
  <1>10. CASE ExecDecide(c)
    BY <1>10 DEF ExecDecide
  <1>11. CASE ExecClear(c)
    BY <1>11 DEF ExecClear
  <1>12. CASE ExecFinish(c)
    <2>1. verdict[c] \in Statuses BY DEF Statuses
    <2>2. status' \in [Changes -> Statuses] BY <1>12, <2>1 DEF ExecFinish, SetStatus
    <2> QED BY <1>12, <2>2 DEF ExecFinish
  <1>13. CASE ExecUnlock(c)
    BY <1>13 DEF ExecUnlock, Unlock, IdleWorkers, WorkerPcs
  <1> QED BY <1>1, <1>2, <1>3, <1>4, <1>5, <1>6, <1>7, <1>8, <1>9, <1>10, <1>11, <1>12, <1>13 DEF Execute

\* A step of runTarget keeps the type of the goroutines' places.
LEMMA StepType ==
  ASSUME TypeOK, NEW c \in Changes, NEW d \in Devices, NEW from, NEW to \in WorkerPcs, Step(c, d, from, to)
  PROVE  wpc' \in [Changes -> [Devices -> WorkerPcs]]
  BY DEF TypeOK, Step

\* The UPDATE of a target keeps the types.
LEMMA SetTargetType ==
  ASSUME TypeOK, NEW c \in Changes, NEW d \in Devices, NEW s \in TargetStatuses, SetTarget(c, d, s)
  PROVE  target' \in [Changes -> [Devices -> TargetStatuses]]
  BY DEF TypeOK, SetTarget, TargetStatuses

\* The steps of runTarget keep the types.
LEMMA RunTargetType ==
  ASSUME TypeOK, NEW c \in Changes, NEW d \in Devices, RunTarget(c, d) PROVE TypeOK'
  <1> DEFINE WpcType == wpc' \in [Changes -> [Devices -> WorkerPcs]]
             TargetType == target' \in [Changes -> [Devices -> TargetStatuses]]
  <1>1. ASSUME WorkerOnly, WpcType PROVE TypeOK'
    BY <1>1 DEF WorkerOnly, TypeOK, dbVars, timeVars, apiVars, schedVars, execVars
  <1>2. ASSUME TargetOnly, WpcType, TargetType PROVE TypeOK'
    BY <1>2 DEF TargetOnly, TypeOK, timeVars, apiVars, schedVars, execVars
  <1>3. ASSUME TypeOK, UNCHANGED target PROVE TargetType
    BY <1>3 DEF TypeOK
  <1>4. CASE WorkerStart(c, d)
    <2>1. WpcType BY <1>4, StepType, Zenon DEF WorkerStart, WorkerPcs
    <2> QED BY <1>1, <1>4, <2>1 DEF WorkerStart
  <1>5. CASE WorkerMark(c, d)
    <2>1. WpcType BY <1>5, StepType DEF WorkerMark, WorkerPcs
    <2>2. TargetType BY <1>5, SetTargetType DEF WorkerMark, TargetStatuses
    <2> QED BY <1>2, <1>5, <2>1, <2>2 DEF WorkerMark
  <1>6. CASE WorkerMarkFault(c, d)
    <2>1. WpcType BY <1>6, StepType DEF WorkerMarkFault, WorkerPcs
    <2>2. TargetType BY <1>3, <1>6, SetTargetType DEF WorkerMarkFault, TargetStatuses
    <2> QED BY <1>2, <1>6, <2>1, <2>2 DEF WorkerMarkFault
  <1>7. CASE WorkerCheck(c, d)
    <2>1. WpcType BY <1>7, StepType, Zenon DEF WorkerCheck, WorkerPcs
    <2> QED BY <1>1, <1>7, <2>1 DEF WorkerCheck
  <1>8. CASE WorkerBackup(c, d)
    <2>1. WpcType BY <1>8, StepType DEF WorkerBackup, WorkerPcs
    <2> QED BY <1>1, <1>8, <2>1 DEF WorkerBackup
  <1>9. CASE WorkerApply(c, d)
    <2>1. WpcType BY <1>9, StepType DEF WorkerApply, WorkerPcs
    <2> QED BY <1>1, <1>9, <2>1 DEF WorkerApply
  <1>10. CASE WorkerRecord(c, d)
    <2>1. WpcType BY <1>10, StepType DEF WorkerRecord, WorkerPcs
    <2>2. TargetType BY <1>10, SetTargetType DEF WorkerRecord, TargetStatuses
    <2> QED BY <1>2, <1>10, <2>1, <2>2 DEF WorkerRecord
  <1>11. CASE WorkerRecordFault(c, d)
    <2>1. WpcType BY <1>11, StepType DEF WorkerRecordFault, WorkerPcs
    <2> QED BY <1>1, <1>11, <2>1 DEF WorkerRecordFault
  <1>12. CASE WorkerCount(c, d)
    <2>1. WpcType BY <1>12, StepType DEF WorkerCount, WorkerPcs
    <2>2. failures' \in [Changes -> Nat]
      <3>1. failures \in [Changes -> Nat] /\ failures[c] + 1 \in Nat BY DEF TypeOK
      <3> QED BY <1>12, <3>1 DEF WorkerCount
    <2> QED BY <1>12, <2>1, <2>2 DEF WorkerCount, TypeOK, dbVars, timeVars, apiVars, schedVars
  <1> QED BY <1>4, <1>5, <1>6, <1>7, <1>8, <1>9, <1>10, <1>11, <1>12 DEF RunTarget

\* Every reachable state of the workflow is well typed.
THEOREM TypeCorrect == Spec => []TypeOK
  <1>1. TypeOK /\ [Next]_vars => TypeOK'
    <2> SUFFICES ASSUME TypeOK, [Next]_vars PROVE TypeOK'
      OBVIOUS
    <2>1. CASE UNCHANGED vars
      BY <2>1 DEF TypeOK, vars, dbVars, timeVars, apiVars, schedVars, execVars
    <2>2. CASE Next
      BY <2>2, PanelType, EnvironmentType, SchedulerType, ExecuteType, RunTargetType DEF Next
    <2> QED BY <2>1, <2>2
  <1> QED BY InitType, <1>1, PTL DEF Spec

-----------------------------------------------------------------------------
(* The lock protocol. *)

\* Goroutines and target rows are functions of wpc and target alone.
LEMMA SameInFlight ==
  ASSUME UNCHANGED wpc, NEW c \in Changes PROVE InFlight(c)' = InFlight(c)
  BY DEF InFlight

\* The rows a change has depend only on the target table.
LEMMA SameTargets ==
  ASSUME UNCHANGED target, NEW c \in Changes PROVE TargetDevices(c)' = TargetDevices(c)
  BY DEF TargetDevices

\* Skipping pending targets changes no set of rows.
LEMMA SkippingKeepsRows ==
  ASSUME TypeOK, NEW c \in Changes, target' = [target EXCEPT ![c] = SkipPending(c)], NEW b \in Changes
  PROVE  TargetDevices(b)' = TargetDevices(b)
  BY DEF TypeOK, SkipPending, TargetDevices

\* There is one oldest change in the queue.
LEMMA OldestUnique ==
  ASSUME TypeOK, NEW b \in Changes, NEW c \in Changes, Oldest(b), Oldest(c) PROVE b = c
  <1>1. b \in Nat /\ c \in Nat BY ConstantsOK DEF ConstantsOK
  <1>2. b <= c /\ c <= b BY DEF Oldest
  <1> QED BY <1>1, <1>2

\* The statuses of a change execute has been started for.
Underway == {"running", "succeeded", "failed", "partial", "cancelled"}

\* A step that leaves locks, queue and executors alone, ends goroutines but
\* starts none, and moves no change that is under way.
Quiet ==
  /\ UNCHANGED <<locked, held, spc, queue, epc, todo>>
  /\ \A c \in Changes :
        /\ InFlight(c)' \subseteq InFlight(c)
        /\ status[c] # "none" => TargetDevices(c)' \subseteq TargetDevices(c) /\ status'[c] # "none"
        /\ status[c] \in Underway => status'[c] = status[c]

\* A quiet step keeps LockDiscipline.
LEMMA QuietKeepsLocks ==
  ASSUME TypeOK, LockDiscipline, Quiet PROVE LockDiscipline'
  <1>1. \A c \in Changes : Starting(c)' <=> Starting(c) BY DEF Quiet, Starting, Oldest
  <1>2. ASSUME NEW c \in Changes PROVE StatusAgrees(c)'
    BY DEF LockDiscipline, StatusAgrees, Quiet, At, Underway
  <1>3. ASSUME NEW c \in Changes PROVE LocksCover(c)'
    <2>1. At(c, "load") \/ Starting(c) => status[c] # "none"
      BY DEF LockDiscipline, StatusAgrees, Starting, Oldest, At
    <2> QED BY <1>1, <2>1 DEF LockDiscipline, LocksCover, Quiet, At
  <1> QED BY <1>2, <1>3 DEF LockDiscipline, Quiet, At

\* The handlers of the panel take quiet steps.
LEMMA PanelQuiet ==
  ASSUME TypeOK, NEW c \in Changes, Panel(c) \/ ReachRunAt(c) PROVE Quiet
  <1> USE DEF dbVars, timeVars, apiVars, schedVars, execVars, Underway
  <1>1. ASSUME UNCHANGED <<locked, held, schedVars, execVars, wpc, status, target>> PROVE Quiet
    <2>1. \A b \in Changes : InFlight(b)' = InFlight(b) /\ TargetDevices(b)' = TargetDevices(b)
      BY <1>1, SameInFlight, SameTargets
    <2> QED BY <1>1, <2>1 DEF Quiet
  <1>2. ASSUME UNCHANGED <<locked, held, schedVars, execVars, wpc, target>>, NEW s \in Statuses \ {"none"},
               status[c] \notin Underway, SetStatus(c, s)
        PROVE  Quiet
    <2>1. \A b \in Changes : InFlight(b)' = InFlight(b) /\ TargetDevices(b)' = TargetDevices(b)
      BY <1>2, SameInFlight, SameTargets
    <2> QED BY <1>2, <2>1 DEF Quiet, SetStatus, TypeOK
  <1>3. ASSUME NEW u \in Users, NEW p \in Plans, Create(c, u, p) PROVE Quiet
    <2>1. \A b \in Changes : InFlight(b)' = InFlight(b)
      BY <1>3, SameInFlight DEF Create
    <2>2. \A b \in Changes : status[b] # "none" => TargetDevices(b)' = TargetDevices(b)
      BY <1>3 DEF Create, TargetDevices, TypeOK
    <2> QED BY <1>3, <2>1, <2>2 DEF Create, Quiet, TypeOK
  <1>4. CASE Submit(c)
    BY <1>2, <1>4 DEF Submit, StatusOnly, Statuses
  <1>5. ASSUME NEW u \in Users, NEW approve \in BOOLEAN, Decide(c, u, approve) PROVE Quiet
    BY <1>2, <1>5 DEF Decide, Statuses
  <1>6. CASE CancelPlanned(c)
    <2>1. \A b \in Changes : InFlight(b)' = InFlight(b)
      BY <1>6, SameInFlight DEF CancelPlanned
    <2>2. \A b \in Changes : TargetDevices(b)' = TargetDevices(b)
      BY <1>6, SkippingKeepsRows DEF CancelPlanned
    <2> QED BY <1>6, <2>1, <2>2 DEF CancelPlanned, SetStatus, Quiet, TypeOK
  <1>7. CASE CancelObserve(c) \/ CancelFlag(c) \/ RunNow(c) \/ ReachRunAt(c)
    BY <1>1, <1>7 DEF CancelObserve, CancelFlag, RunNow, ReachRunAt
  <1> QED BY <1>3, <1>4, <1>5, <1>6, <1>7 DEF Panel

\* So is deleting a device: rows go, locks stay.
LEMMA DeviceQuiet ==
  ASSUME TypeOK, NEW d \in Devices, DeleteDevice(d) \/ ToggleWindow(d) PROVE Quiet
  <1> USE DEF dbVars, timeVars, apiVars, schedVars, execVars
  <1>1. \A b \in Changes : InFlight(b)' = InFlight(b)
    BY SameInFlight DEF DeleteDevice, ToggleWindow
  <1>2. \A b \in Changes : TargetDevices(b)' \subseteq TargetDevices(b)
    <2>1. CASE DeleteDevice(d) BY <2>1 DEF DeleteDevice, TargetDevices, TypeOK
    <2>2. CASE ToggleWindow(d) BY <2>2, SameTargets DEF ToggleWindow
    <2> QED BY <2>1, <2>2
  <1> QED BY <1>1, <1>2 DEF DeleteDevice, ToggleWindow, Quiet

\* So are the steps of runTarget.
LEMMA RunTargetQuiet ==
  ASSUME TypeOK, NEW c \in Changes, NEW d \in Devices, RunTarget(c, d) PROVE Quiet
  <1> DEFINE Busy == {"launched", "cleared", "marked", "backup", "apply", "ok", "err", "uncounted"}
  <1>1. PICK from \in Busy : \E to \in WorkerPcs : Step(c, d, from, to)
    BY Zenon DEF RunTarget, WorkerStart, WorkerMark, WorkerMarkFault, WorkerCheck, WorkerBackup, WorkerApply,
       WorkerRecord, WorkerRecordFault, WorkerCount, WorkerPcs
  <1>2. PICK to \in WorkerPcs : Step(c, d, from, to) BY <1>1
  <1>3. \A b \in Changes : InFlight(b)' \subseteq InFlight(b)
    BY <1>2 DEF Step, InFlight, TypeOK
  <1>4. UNCHANGED <<locked, held, spc, queue, epc, todo, status>>
    BY DEF RunTarget, WorkerStart, WorkerMark, WorkerMarkFault, WorkerCheck, WorkerBackup, WorkerApply,
       WorkerRecord, WorkerRecordFault, WorkerCount, WorkerOnly, TargetOnly, dbVars, schedVars, execVars
  <1>5. UNCHANGED target \/ \E s \in TargetStatuses \ {"none"} : SetTarget(c, d, s)
    BY Zenon DEF RunTarget, WorkerStart, WorkerMark, WorkerMarkFault, WorkerCheck, WorkerBackup, WorkerApply,
       WorkerRecord, WorkerRecordFault, WorkerCount, WorkerOnly, dbVars, TargetStatuses
  <1>6. \A b \in Changes : TargetDevices(b)' \subseteq TargetDevices(b)
    <2>1. CASE UNCHANGED target BY <2>1, SameTargets
    <2>2. ASSUME NEW s, SetTarget(c, d, s) PROVE \A b \in Changes : TargetDevices(b)' \subseteq TargetDevices(b)
      BY <2>2 DEF SetTarget, TargetDevices, TypeOK
    <2> QED BY <1>5, <2>1, <2>2
  <1> QED BY <1>3, <1>4, <1>6 DEF Quiet

\* The three updates of the recovery keep LockDiscipline.
LEMMA RecoverKeepsLocks ==
  ASSUME TypeOK, LockDiscipline, RecoverTargets \/ RecoverPending \/ RecoverChanges PROVE LockDiscipline'
  <1> USE DEF timeVars, apiVars, execVars
  <1>1. /\ spc \notin {"idle", "scan", "start"} /\ spc' # "start"
        /\ UNCHANGED <<locked, held, queue, epc, todo, wpc>>
    BY DEF RecoverTargets, RecoverPending, RecoverChanges
  <1>2. queue = {} /\ \A c \in Changes : epc[c] = "none" /\ held[c] = {}
    BY <1>1 DEF LockDiscipline, At
  <1>3. ASSUME NEW c \in Changes PROVE LocksCover(c)' /\ StatusAgrees(c)'
    <2>1. InFlight(c)' = InFlight(c) BY <1>1, SameInFlight
    <2> QED BY <1>1, <1>2, <2>1 DEF LockDiscipline, LocksCover, StatusAgrees, At, Starting, Oldest
  <1> QED BY <1>1, <1>2, <1>3 DEF LockDiscipline, At

\* Tick between its steps: no change holds a device without an executor.
LEMMA TickListKeepsLocks ==
  ASSUME TypeOK, LockDiscipline, TickList PROVE LockDiscipline'
  <1> USE DEF dbVars, timeVars, apiVars, execVars
  <1>1. UNCHANGED <<status, target, locked, held, epc, todo, wpc>> /\ spc = "idle" /\ spc' = "scan"
        /\ queue' = Listed
    BY DEF TickList
  <1>2. ASSUME NEW c \in Changes PROVE LocksCover(c)' /\ StatusAgrees(c)'
    <2>1. InFlight(c)' = InFlight(c) /\ TargetDevices(c)' = TargetDevices(c)
      BY <1>1, SameInFlight, SameTargets
    <2>2. LocksCover(c)'
      BY <1>1, <2>1 DEF LockDiscipline, LocksCover, At, Starting
    <2>3. c \in queue' => status[c] = "approved"
      BY <1>1 DEF Listed, Approved
    <2>4. epc[c] \in ExecPcs BY DEF TypeOK
    <2>5. StatusAgrees(c)'
      BY <1>1, <2>3, <2>4 DEF LockDiscipline, StatusAgrees, At, ExecPcs
    <2> QED BY <2>2, <2>5
  <1> QED BY <1>1, <1>2 DEF LockDiscipline

\* Tick passing over a change keeps it.
LEMMA TickSkipKeepsLocks ==
  ASSUME TypeOK, LockDiscipline, TickAbort \/ \E c \in Changes : TickSkip(c) PROVE LockDiscipline'
  <1> USE DEF dbVars, timeVars, apiVars, execVars
  <1>1. UNCHANGED <<status, target, locked, held, epc, todo, wpc>> /\ spc = "scan"
        /\ spc' \in {"idle", "scan"} /\ queue' \subseteq queue
    BY DEF TickAbort, TickSkip, Continue
  <1>2. ASSUME NEW c \in Changes PROVE LocksCover(c)' /\ StatusAgrees(c)'
    <2>1. InFlight(c)' = InFlight(c) /\ TargetDevices(c)' = TargetDevices(c)
      BY <1>1, SameInFlight, SameTargets
    <2>2. LocksCover(c)'
      BY <1>1, <2>1 DEF LockDiscipline, LocksCover, At, Starting
    <2>3. StatusAgrees(c)'
      BY <1>1 DEF LockDiscipline, StatusAgrees, At
    <2> QED BY <2>2, <2>3
  <1> QED BY <1>1, <1>2 DEF LockDiscipline

\* lock: the devices were in nobody's locks, so in nobody's captured ones.
LEMMA TickLockKeepsLocks ==
  ASSUME TypeOK, LockDiscipline, NEW c \in Changes, TickLock(c) PROVE LockDiscipline'
  <1> USE DEF dbVars, timeVars, apiVars, execVars
  <1>1. /\ UNCHANGED <<status, target, queue, epc, todo, wpc>>
        /\ spc = "scan" /\ spc' = "start" /\ Oldest(c)
        /\ ~Taken(c)
        /\ locked' = locked \cup TargetDevices(c)
        /\ held' = [held EXCEPT ![c] = TargetDevices(c)]
    BY DEF TickLock
  <1>2. \A b \in Changes : InFlight(b)' = InFlight(b) /\ TargetDevices(b)' = TargetDevices(b)
    BY <1>1, SameInFlight, SameTargets
  <1>3. \A b \in Changes : Starting(b)' <=> b = c
    BY <1>1, OldestUnique DEF Starting, Oldest
  <1>4. epc[c] = "none" /\ held[c] = {} /\ InFlight(c) = {} /\ todo[c] = {}
    BY <1>1 DEF LockDiscipline, LocksCover, StatusAgrees, Oldest, Starting, At, NotWorking
  <1>5. \A b \in Changes : StatusAgrees(b)'
    BY <1>1 DEF LockDiscipline, StatusAgrees, At
  <1>6. ASSUME NEW b \in Changes, b # c PROVE LocksCover(b)'
    BY <1>1, <1>2, <1>3, <1>6 DEF LockDiscipline, LocksCover, At, Starting, TypeOK
  <1>7. LocksCover(c)'
    BY <1>1, <1>2, <1>3, <1>4 DEF LocksCover, At, TypeOK
  <1>8. ASSUME NEW a \in Changes, NEW b \in Changes, a # b PROVE held'[a] \cap held'[b] = {}
    BY <1>1, <1>8 DEF LockDiscipline, LocksCover, Taken, TypeOK
  <1>9. \A d \in locked' : \E b \in Changes : d \in held'[b]
    BY <1>1, <1>4 DEF LockDiscipline, TypeOK
  <1> QED BY <1>1, <1>5, <1>6, <1>7, <1>8, <1>9 DEF LockDiscipline

\* Tick's conditional UPDATE: the change goes to its executor with its locks.
LEMMA TickStartKeepsLocks ==
  ASSUME TypeOK, LockDiscipline, NEW c \in Changes, TickStart(c) PROVE LockDiscipline'
  <1> USE DEF dbVars, timeVars, apiVars, execVars
  <1>1. /\ UNCHANGED <<target, locked, held, todo, wpc>>
        /\ Starting(c) /\ c \in queue
        /\ status' = [status EXCEPT ![c] = "running"]
        /\ epc' = [epc EXCEPT ![c] = "load"]
        /\ queue' = queue \ {c} /\ spc' \in {"idle", "scan"}
    BY DEF TickStart, SetStatus, Continue, Starting, Oldest
  <1>2. \A b \in Changes : InFlight(b)' = InFlight(b) /\ TargetDevices(b)' = TargetDevices(b)
    BY <1>1, SameInFlight, SameTargets
  <1>3. \A b \in Changes : Starting(b) => b = c
    BY <1>1, OldestUnique DEF Starting
  <1>4. epc[c] = "none"
    BY <1>1 DEF LockDiscipline, StatusAgrees, At
  <1>5. \A b \in Changes : StatusAgrees(b)'
    BY <1>1 DEF LockDiscipline, StatusAgrees, At, TypeOK
  <1>6. ASSUME NEW b \in Changes, b # c PROVE LocksCover(b)'
    BY <1>1, <1>2, <1>3, <1>6 DEF LockDiscipline, LocksCover, At, Starting, TypeOK
  <1>7. LocksCover(c)'
    BY <1>1, <1>2, <1>4 DEF LockDiscipline, LocksCover, At, Starting, TypeOK, NotWorking
  <1> QED BY <1>1, <1>5, <1>6, <1>7 DEF LockDiscipline

\* unlock gives back the devices of a change without goroutines only.
LEMMA TickGiveUpKeepsLocks ==
  ASSUME TypeOK, LockDiscipline, NEW c \in Changes, TickLost(c) \/ TickStartFault(c) PROVE LockDiscipline'
  <1> USE DEF dbVars, timeVars, apiVars, execVars
  <1>1. /\ UNCHANGED <<target, todo, wpc, epc>>
        /\ Starting(c) /\ c \in queue
        /\ status' = status \/ status' = [status EXCEPT ![c] = "running"]
        /\ locked' = locked \ held[c] /\ held' = [held EXCEPT ![c] = {}]
        /\ queue' \subseteq queue /\ spc' \in {"idle", "scan"}
    BY DEF TickLost, TickStartFault, SetStatus, Unlock, Continue, Starting, Oldest
  <1>2. \A b \in Changes : InFlight(b)' = InFlight(b) /\ TargetDevices(b)' = TargetDevices(b)
    BY <1>1, SameInFlight, SameTargets
  <1>3. \A b \in Changes : Starting(b) => b = c
    BY <1>1, OldestUnique DEF Starting
  <1>4. epc[c] = "none" /\ InFlight(c) = {} /\ todo[c] = {}
    BY <1>1 DEF LockDiscipline, StatusAgrees, LocksCover, At, NotWorking
  <1>5. \A b \in Changes : StatusAgrees(b)'
    BY <1>1, <1>4 DEF LockDiscipline, StatusAgrees, At, TypeOK
  <1>6. ASSUME NEW b \in Changes, b # c PROVE LocksCover(b)'
    BY <1>1, <1>2, <1>3, <1>6 DEF LockDiscipline, LocksCover, At, Starting, TypeOK
  <1>7. LocksCover(c)'
    BY <1>1, <1>2, <1>4 DEF LocksCover, At, Starting, TypeOK
  <1>8. ASSUME NEW a \in Changes, NEW b \in Changes, a # b PROVE held'[a] \cap held'[b] = {}
    BY <1>1, <1>8 DEF LockDiscipline, TypeOK
  <1>9. \A d \in locked' : \E b \in Changes : d \in held'[b]
    BY <1>1 DEF LockDiscipline, TypeOK
  <1> QED BY <1>1, <1>5, <1>6, <1>7, <1>8, <1>9 DEF LockDiscipline

\* A step of execute that stays inside its function: the executor works
\* under the locks it was started with.
Inside(c) ==
  /\ UNCHANGED <<locked, held, spc, queue>>
  /\ epc[c] # "none"
  /\ \E pc \in ExecPcs \ {"none", "load"} : epc' = [epc EXCEPT ![c] = pc]
  /\ epc'[c] # "unlock" => status'[c] = status[c] /\ epc[c] # "unlock"
  /\ epc'[c] = "unlock" => status'[c] \in Underway
  /\ epc'[c] \in NotWorking => InFlight(c)' = {}
  /\ InFlight(c)' \cup todo'[c] \subseteq held[c]
  /\ \A b \in Changes \ {c} :
        todo'[b] = todo[b] /\ InFlight(b)' = InFlight(b) /\ status'[b] = status[b]
  /\ \A b \in Changes : TargetDevices(b)' = TargetDevices(b)

\* Moving on inside execute, locks held, keeps it.
LEMMA InsideKeepsLocks ==
  ASSUME TypeOK, LockDiscipline, NEW c \in Changes, Inside(c) PROVE LockDiscipline'
  <1> USE DEF Inside
  <1>1. c \notin queue BY DEF LockDiscipline, StatusAgrees, At
  <1>2. \A b \in Changes : Starting(b)' <=> Starting(b) BY DEF Starting, Oldest
  <1>3. ~Starting(c) BY <1>1 DEF Starting, Oldest
  <1>4. \A b \in Changes \ {c} : epc'[b] = epc[b] BY DEF TypeOK
  <1>5. epc'[c] \notin {"none", "load"} BY DEF TypeOK
  <1>6. \A b \in Changes \ {c} : StatusAgrees(b)' /\ LocksCover(b)'
    BY <1>2, <1>4 DEF LockDiscipline, StatusAgrees, LocksCover, At
  <1>7. StatusAgrees(c)' BY <1>1, <1>5 DEF LockDiscipline, StatusAgrees, At, Underway
  <1>8. LocksCover(c)' BY <1>2, <1>3, <1>5 DEF LockDiscipline, LocksCover, At
  <1>9. spc \in {"idle", "scan", "start"} BY DEF LockDiscipline, At
  <1> QED BY <1>6, <1>7, <1>8, <1>9 DEF LockDiscipline

\* Every step of execute but the last is such a move.
LEMMA ExecuteInside ==
  ASSUME TypeOK, LockDiscipline, NEW c \in Changes, Execute(c), ~ExecUnlock(c) PROVE Inside(c)
  <1> USE DEF dbVars, timeVars, apiVars, schedVars, execVars, At, Goto, ExecOnly, ExecPcs, NotWorking, Underway
  <1> DEFINE Cover == InFlight(c) \cup todo[c] \subseteq held[c]
             Sync == \A b \in Changes : InFlight(b)' = InFlight(b)
             Rows == \A b \in Changes : TargetDevices(b)' = TargetDevices(b)
  <1>1. Cover /\ (epc[c] \in NotWorking => InFlight(c) = {}) /\ (epc[c] = "load" => TargetDevices(c) \subseteq held[c])
    BY DEF LockDiscipline, LocksCover
  <1>2. epc[c] \notin {"none", "unlock"} => status[c] = "running"
    BY DEF LockDiscipline, StatusAgrees
  <1>3. UNCHANGED wpc => Sync BY SameInFlight
  <1>4. UNCHANGED target => Rows BY SameTargets
  <1>5. CASE ExecLoad(c)
    <2>1. Sync /\ Rows BY <1>3, <1>4, <1>5 DEF ExecLoad
    <2> QED BY <1>1, <1>2, <1>5, <2>1 DEF ExecLoad, Inside, TypeOK
  <1>6. CASE ExecLoadFault(c)
    <2>1. Sync /\ Rows BY <1>3, <1>4, <1>6 DEF ExecLoadFault
    <2> QED BY <1>1, <1>2, <1>6, <2>1 DEF ExecLoadFault, Inside, TypeOK
  <1>7. ASSUME NEW d \in Devices, CanaryRun(c, d) PROVE Inside(c)
    <2>1. Rows BY <1>4, <1>7 DEF CanaryRun
    <2>2. d \in todo[c] BY <1>7 DEF CanaryRun, First
    <2>3. InFlight(c)' \subseteq InFlight(c) \cup {d} /\ \A b \in Changes \ {c} : InFlight(b)' = InFlight(b)
      BY <1>7 DEF CanaryRun, InFlight, TypeOK
    <2>4. epc' = [epc EXCEPT ![c] = "canary"] BY <1>7 DEF CanaryRun, TypeOK
    <2> QED BY <1>1, <1>2, <1>7, <2>1, <2>2, <2>3, <2>4 DEF CanaryRun, Inside, TypeOK
  <1>8. ASSUME NEW d \in Devices, FanLaunch(c, d) PROVE Inside(c)
    <2>1. Rows BY <1>4, <1>8 DEF FanLaunch
    <2>2. d \in todo[c] BY <1>8 DEF FanLaunch, First
    <2>3. InFlight(c)' \subseteq InFlight(c) \cup {d} /\ \A b \in Changes \ {c} : InFlight(b)' = InFlight(b)
      BY <1>8 DEF FanLaunch, InFlight, TypeOK
    <2> QED BY <1>1, <1>2, <1>8, <2>1, <2>2, <2>3 DEF FanLaunch, Inside, TypeOK
  <1>9. CASE CanaryEnd(c)
    <2>1. Sync /\ Rows BY <1>3, <1>4, <1>9 DEF CanaryEnd
    <2> QED BY <1>1, <1>2, <1>9, <2>1 DEF CanaryEnd, AfterCanaries, Inside, TypeOK
  <1>10. CASE FanCheck(c)
    <2>1. Sync /\ Rows BY <1>3, <1>4, <1>10 DEF FanCheck
    <2> QED BY <1>1, <1>2, <1>10, <2>1 DEF FanCheck, Inside, TypeOK
  <1>11. CASE ExecWait(c)
    <2>1. Sync /\ Rows BY <1>3, <1>4, <1>11 DEF ExecWait
    <2> QED BY <1>1, <1>2, <1>11, <2>1 DEF ExecWait, Inside, TypeOK
  <1>12. CASE ExecSkip(c)
    <2>1. Sync BY <1>3, <1>12 DEF ExecSkip
    <2>2. Rows BY <1>4, <1>12, SkippingKeepsRows DEF ExecSkip
    <2> QED BY <1>1, <1>2, <1>12, <2>1, <2>2 DEF ExecSkip, Inside, TypeOK
  <1>13. CASE ExecTally(c)
    <2>1. Sync /\ Rows BY <1>3, <1>4, <1>13 DEF ExecTally
    <2> QED BY <1>1, <1>2, <1>13, <2>1 DEF ExecTally, Inside, TypeOK
  <1>14. CASE ExecDecide(c)
    <2>1. Sync /\ Rows BY <1>3, <1>4, <1>14 DEF ExecDecide
    <2> QED BY <1>1, <1>2, <1>14, <2>1 DEF ExecDecide, Inside, TypeOK
  <1>15. CASE ExecClear(c)
    <2>1. Sync /\ Rows BY <1>3, <1>4, <1>15 DEF ExecClear
    <2> QED BY <1>1, <1>2, <1>15, <2>1 DEF ExecClear, Inside, TypeOK
  <1>16. CASE ExecFinish(c)
    <2>1. Sync /\ Rows BY <1>3, <1>4, <1>16 DEF ExecFinish
    <2>2. status'[c] \in Underway /\ \A b \in Changes \ {c} : status'[b] = status[b]
      BY <1>2, <1>16 DEF ExecFinish, SetStatus, TypeOK
    <2> QED BY <1>1, <1>2, <1>16, <2>1, <2>2 DEF ExecFinish, Inside, TypeOK
  <1> QED BY <1>5, <1>6, <1>7, <1>8, <1>9, <1>10, <1>11, <1>12, <1>13, <1>14, <1>15, <1>16 DEF Execute

\* The last one releases exactly what Tick took.
LEMMA ExecUnlockKeepsLocks ==
  ASSUME TypeOK, LockDiscipline, NEW c \in Changes, ExecUnlock(c) PROVE LockDiscipline'
  <1> USE DEF dbVars, timeVars, apiVars, schedVars, At, Goto
  <1>1. /\ UNCHANGED <<status, target, spc, queue>> /\ epc[c] = "unlock"
        /\ epc' = [epc EXCEPT ![c] = "none"]
        /\ locked' = locked \ held[c] /\ held' = [held EXCEPT ![c] = {}]
        /\ todo' = [todo EXCEPT ![c] = {}]
        /\ wpc' = [wpc EXCEPT ![c] = IdleWorkers]
    BY DEF ExecUnlock, Unlock
  <1>2. InFlight(c)' = {} /\ \A b \in Changes \ {c} : InFlight(b)' = InFlight(b)
    BY <1>1 DEF InFlight, IdleWorkers, TypeOK
  <1>3. \A b \in Changes : TargetDevices(b)' = TargetDevices(b) BY <1>1, SameTargets
  <1>4. \A b \in Changes : Starting(b)' <=> Starting(b) BY <1>1 DEF Starting, Oldest
  <1>5. c \notin queue /\ spc \in {"idle", "scan", "start"} BY <1>1 DEF LockDiscipline, StatusAgrees
  <1>6. \A b \in Changes : StatusAgrees(b)'
    BY <1>1, <1>5 DEF LockDiscipline, StatusAgrees, TypeOK
  <1>7. ASSUME NEW b \in Changes, b # c PROVE LocksCover(b)'
    BY <1>1, <1>2, <1>3, <1>4, <1>7 DEF LockDiscipline, LocksCover, TypeOK
  <1>8. LocksCover(c)'
    BY <1>1, <1>2, <1>3, <1>4, <1>5 DEF LocksCover, TypeOK, Starting, Oldest
  <1>9. ASSUME NEW a \in Changes, NEW b \in Changes, a # b PROVE held'[a] \cap held'[b] = {}
    BY <1>1, <1>9 DEF LockDiscipline, TypeOK
  <1>10. \A d \in locked' : \E b \in Changes : d \in held'[b]
    BY <1>1 DEF LockDiscipline, TypeOK
  <1> QED BY <1>1, <1>5, <1>6, <1>7, <1>8, <1>9, <1>10 DEF LockDiscipline

\* Nothing is held, locked or in a goroutine when the process starts.
LEMMA InitLocks == Init => LockDiscipline
  BY DEF Init, LockDiscipline, LocksCover, StatusAgrees, At, Starting, Oldest, InFlight, IdleWorkers

\* A crash leaves no locks and no executor.
LEMMA CrashLocks ==
  ASSUME TypeOK, LockDiscipline, Crash PROVE LockDiscipline'
  BY DEF Crash, LockDiscipline, LocksCover, StatusAgrees, At, Starting, Oldest, InFlight, IdleWorkers

\* The lock table, the locks goroutines captured, the goroutines and the
\* statuses of Tick and execute stay consistent, also when statements fail.
THEOREM LocksAreConsistent == Spec => []LockDiscipline
  <1>1. TypeOK /\ LockDiscipline /\ [Next]_vars => LockDiscipline'
    <2> SUFFICES ASSUME TypeOK, LockDiscipline, [Next]_vars PROVE LockDiscipline'
      OBVIOUS
    <2>1. CASE UNCHANGED vars
      <3>1. Quiet
        <4>1. \A c \in Changes : InFlight(c)' = InFlight(c) /\ TargetDevices(c)' = TargetDevices(c)
          BY <2>1, SameInFlight, SameTargets DEF vars, dbVars
        <4> QED BY <2>1, <4>1 DEF Quiet, vars, dbVars, schedVars, execVars
      <3> QED BY <3>1, QuietKeepsLocks
    <2>2. ASSUME NEW c \in Changes, Panel(c) \/ ReachRunAt(c) PROVE LockDiscipline'
      BY <2>2, PanelQuiet, QuietKeepsLocks
    <2>3. ASSUME NEW c \in Changes, Execute(c) PROVE LockDiscipline'
      BY <2>3, ExecuteInside, InsideKeepsLocks, ExecUnlockKeepsLocks
    <2>4. ASSUME NEW d \in Devices, DeleteDevice(d) \/ ToggleWindow(d) PROVE LockDiscipline'
      BY <2>4, DeviceQuiet, QuietKeepsLocks
    <2>5. ASSUME NEW c \in Changes, NEW d \in Devices, RunTarget(c, d) PROVE LockDiscipline'
      BY <2>5, RunTargetQuiet, QuietKeepsLocks
    <2>6. CASE Scheduler
      BY <2>6, RecoverKeepsLocks, TickListKeepsLocks, TickSkipKeepsLocks, TickLockKeepsLocks, TickStartKeepsLocks,
         TickGiveUpKeepsLocks DEF Scheduler
    <2>7. CASE Crash
      BY <2>7, CrashLocks
    <2> QED BY <2>1, <2>2, <2>3, <2>4, <2>5, <2>6, <2>7 DEF Next
  <1> QED BY InitLocks, TypeCorrect, <1>1, PTL DEF Spec

\* lock and unlock keep two changes off one device: no device is ever in a
\* goroutine of two changes.
THEOREM DevicesAreExclusive == Spec => []DeviceExclusive
  <1>1. LockDiscipline => DeviceExclusive
    BY DEF LockDiscipline, LocksCover, DeviceExclusive
  <1> QED BY <1>1, LocksAreConsistent, PTL

\* execute and runTarget touch devices only for changes the database calls
\* running, also when a statement of Tick or execute fails.
THEOREM WorkIsRunning == Spec => []WorkOnlyWhileRunning
  <1>1. LockDiscipline => WorkOnlyWhileRunning
    BY DEF LockDiscipline, LocksCover, StatusAgrees, WorkOnlyWhileRunning, NotWorking, At
  <1> QED BY <1>1, LocksAreConsistent, PTL

-----------------------------------------------------------------------------
(* Approvals. *)

\* The statuses of a change whose approvals are complete.
Authorised == {"approved", "running", "succeeded", "partial", "failed"}

\* What Decide maintains: nobody decides on a change before it exists, its
\* creator never approves it, and it leaves "pending" with enough approvals.
Vetted ==
  \A c \in Changes :
    /\ status[c] = "none" => Approvers(c) = {}
    /\ creator[c] \notin Approvers(c)
    /\ status[c] \in Authorised => plan[c].required <= Cardinality(Approvers(c))

\* A step that touches neither decisions nor plans and authorises nothing.
Unvetting ==
  /\ UNCHANGED <<creator, decision, plan>>
  /\ \A c \in Changes :
        /\ status'[c] = "none" => status[c] = "none"
        /\ status'[c] \in Authorised => status[c] \in Authorised

\* A step that adds no planned change and no decision keeps Vetted.
LEMMA UnvettingKeepsVetted ==
  ASSUME Vetted, Unvetting PROVE Vetted'
  <1>1. \A c \in Changes : Approvers(c)' = Approvers(c) BY DEF Unvetting, Approvers
  <1> QED BY <1>1 DEF Vetted, Unvetting

\* The approvers of a change are finitely many.
LEMMA ApproversFinite ==
  ASSUME NEW c \in Changes PROVE IsFiniteSet(Approvers(c)) /\ Cardinality(Approvers(c)) \in Nat
  <1>1. Approvers(c) \subseteq Users BY DEF Approvers
  <1>2. IsFiniteSet(Approvers(c)) BY <1>1, ConstantsOK, FS_Subset DEF ConstantsOK
  <1> QED BY <1>2, FS_CardinalityType

\* Submit and Decide plan a change only with its approvals; Create plans none
\* that needs some.
LEMMA PanelVetted ==
  ASSUME TypeOK, Vetted, NEW c \in Changes, Panel(c) PROVE Vetted'
  <1> USE DEF dbVars, timeVars, apiVars, schedVars, execVars
  <1>1. ASSUME NEW u \in Users, NEW p \in Plans, Create(c, u, p) PROVE Vetted'
    <2>1. \A b \in Changes : Approvers(b)' = Approvers(b) BY <1>1 DEF Create, Approvers
    <2>2. Approvers(c) = {} BY <1>1 DEF Create, Vetted
    <2>3. status' = [status EXCEPT ![c] = "draft"] /\ plan' = [plan EXCEPT ![c] = p]
          /\ creator' = [creator EXCEPT ![c] = u]
      BY <1>1 DEF Create
    <2> QED BY <2>1, <2>2, <2>3 DEF Vetted, TypeOK, Authorised
  <1>2. CASE Submit(c)
    <2>1. \A b \in Changes : Approvers(b)' = Approvers(b) BY <1>2 DEF Submit, StatusOnly, Approvers
    <2>2. Cardinality(Approvers(c)) \in Nat BY ApproversFinite
    <2>3. UNCHANGED <<plan, creator>> /\ status[c] = "draft"
          /\ status' = [status EXCEPT ![c] = IF plan[c].required = 0 THEN "approved" ELSE "pending"]
      BY <1>2 DEF Submit, SetStatus, StatusOnly
    <2> QED BY <2>1, <2>2, <2>3 DEF Vetted, TypeOK, Authorised
  <1>3. ASSUME NEW u \in Users, NEW approve \in BOOLEAN, Decide(c, u, approve) PROVE Vetted'
    <2>1. /\ UNCHANGED <<plan, creator>> /\ creator[c] # u /\ status[c] = "pending"
          /\ decision' = [decision EXCEPT ![c][u] = IF approve THEN "approve" ELSE "reject"]
      BY <1>3 DEF Decide, MayDecide
    <2>2. \A b \in Changes \ {c} : Approvers(b)' = Approvers(b) /\ status'[b] = status[b]
      BY <1>3, <2>1 DEF Approvers, Decide, SetStatus, TypeOK
    <2>3. CASE approve
      <3>1. Approvers(c)' = Approvers(c) \cup {u} BY <2>1, <2>3 DEF Approvers, TypeOK
      <3>2. status'[c] = IF plan[c].required <= Cardinality(Approvers(c) \cup {u}) THEN "approved" ELSE "pending"
        BY <1>3, <2>3 DEF Decide, SetStatus, TypeOK
      <3> QED BY <2>1, <2>2, <3>1, <3>2 DEF Vetted, Authorised
    <2>4. CASE ~approve
      <3>1. Approvers(c)' \subseteq Approvers(c) BY <2>1, <2>4 DEF Approvers, TypeOK
      <3>2. status'[c] = "rejected" BY <1>3, <2>4 DEF Decide, SetStatus, TypeOK
      <3> QED BY <2>1, <2>2, <3>1, <3>2 DEF Vetted, Authorised
    <2> QED BY <2>3, <2>4
  <1>4. CASE CancelPlanned(c)
    <2>1. Unvetting BY <1>4 DEF CancelPlanned, SetStatus, Unvetting, Authorised, TypeOK
    <2> QED BY <2>1, UnvettingKeepsVetted
  <1>5. CASE CancelObserve(c) \/ CancelFlag(c) \/ RunNow(c)
    <2>1. Unvetting BY <1>5 DEF CancelObserve, CancelFlag, RunNow, Unvetting
    <2> QED BY <2>1, UnvettingKeepsVetted
  <1> QED BY <1>1, <1>2, <1>3, <1>4, <1>5 DEF Panel

\* The scheduler plans nothing.
LEMMA SchedulerUnvetting ==
  ASSUME TypeOK, Scheduler PROVE Unvetting
  <1> USE DEF dbVars, timeVars, apiVars, schedVars, execVars, Unvetting, Authorised, SetStatus
  <1>1. CASE RecoverTargets \/ RecoverPending BY <1>1 DEF RecoverTargets, RecoverPending
  <1>2. CASE RecoverChanges BY <1>2 DEF RecoverChanges, TypeOK
  <1>3. CASE TickList \/ TickAbort BY <1>3 DEF TickList, TickAbort
  <1>4. ASSUME NEW c \in Changes, TickLock(c) \/ TickSkip(c) \/ TickLost(c) PROVE Unvetting
    BY <1>4 DEF TickLock, TickSkip, TickLost
  <1>5. ASSUME NEW c \in Changes, TickStart(c) \/ TickStartFault(c) PROVE Unvetting
    BY <1>5 DEF TickStart, TickStartFault, TypeOK
  <1> QED BY <1>1, <1>2, <1>3, <1>4, <1>5 DEF Scheduler

\* execute finishes only changes that were running.
LEMMA ExecuteUnvetting ==
  ASSUME TypeOK, LockDiscipline, NEW c \in Changes, Execute(c) PROVE Unvetting
  <1> USE DEF dbVars, timeVars, apiVars, schedVars, execVars, ExecOnly
  <1>1. CASE ExecFinish(c)
    <2>1. status[c] = "running" BY <1>1 DEF ExecFinish, At, LockDiscipline, StatusAgrees
    <2>2. verdict[c] # "none" BY DEF TypeOK
    <2> QED BY <1>1, <2>1, <2>2 DEF ExecFinish, SetStatus, Unvetting, Authorised, TypeOK
  <1>2. CASE ~ExecFinish(c)
    <2>1. UNCHANGED <<status, creator, decision, plan>>
      BY <1>2 DEF Execute, ExecLoad, ExecLoadFault, CanaryRun, FanLaunch, CanaryEnd, FanCheck, ExecWait, ExecSkip,
         ExecTally, ExecDecide, ExecClear, ExecUnlock
    <2> QED BY <2>1 DEF Unvetting
  <1> QED BY <1>1, <1>2

\* Nor do execute, runTarget and the environment.
LEMMA OthersUnvetting ==
  ASSUME \/ \E c \in Changes : ReachRunAt(c) \/ \E d \in Devices : RunTarget(c, d)
         \/ \E d \in Devices : DeleteDevice(d) \/ ToggleWindow(d)
         \/ Crash
         \/ UNCHANGED vars
  PROVE  Unvetting
  <1>1. UNCHANGED <<status, creator, decision, plan>>
    BY DEF ReachRunAt, DeleteDevice, ToggleWindow, Crash, vars, dbVars, RunTarget, WorkerStart, WorkerMark,
       WorkerMarkFault, WorkerCheck, WorkerBackup, WorkerApply, WorkerRecord, WorkerRecordFault, WorkerCount,
       WorkerOnly, TargetOnly
  <1> QED BY <1>1 DEF Unvetting

\* Submit and Decide let no change run, or have run, without the approvals
\* requiredFor asked for, by users other than its creator.
THEOREM RunsAreApproved == Spec => []RunsApproved
  <1>1. Init => Vetted
    BY DEF Init, Vetted, Approvers, Authorised
  <1>2. TypeOK /\ LockDiscipline /\ Vetted /\ [Next]_vars => Vetted'
    <2> SUFFICES ASSUME TypeOK, LockDiscipline, Vetted, [Next]_vars PROVE Vetted'
      OBVIOUS
    <2> QED BY PanelVetted, SchedulerUnvetting, ExecuteUnvetting, OthersUnvetting, UnvettingKeepsVetted DEF Next
  <1>3. Vetted => RunsApproved
    <2> SUFFICES ASSUME Vetted, NEW c \in Changes, status[c] \in Authorised
                 PROVE  Cardinality(Approvers(c) \ {creator[c]}) >= plan[c].required
      BY DEF RunsApproved, Authorised
    <2>1. Approvers(c) \ {creator[c]} = Approvers(c) BY DEF Vetted
    <2> QED BY <2>1 DEF Vetted
  <1> QED BY <1>1, <1>2, <1>3, TypeCorrect, LocksAreConsistent, PTL DEF Spec

-----------------------------------------------------------------------------
(* Results are final. *)

\* A change that has not started, and its targets with it.
Planned == {"draft", "pending", "approved"}
\* The statuses of a target no run has written yet.
Untouched == {"none", "pending"}

\* What execute and runTarget rely on when they write a target: it has no
\* result yet.
Fresh(c) ==
  /\ status[c] = "none" => \A d \in Devices : target[c][d] = "none"
  /\ status[c] \in Planned \/ epc[c] = "load" => \A d \in Devices : target[c][d] \in Untouched
  /\ epc[c] \in {"canary", "fan", "acquire"} => \A d \in todo[c] : target[c][d] \in Untouched /\ wpc[c][d] = "idle"
  /\ \A d \in Devices : wpc[c][d] \in {"launched", "cleared"} => target[c][d] \in Untouched
  /\ \A d \in Devices : wpc[c][d] \in {"marked", "backup", "apply", "ok", "err"} => target[c][d] \in {"none", "running"}
  /\ epc[c] \in {"none", "load"} => wpc[c] = IdleWorkers

\* Fresh for every change.
TargetsFresh == \A c \in Changes : Fresh(c)

\* Results stay, or go with their device.
Kept == \A c \in Changes, d \in Devices : target[c][d] \in {"succeeded", "failed", "skipped"} =>
           target'[c][d] \in {target[c][d], "none"}

\* A step that touches no target and no executor, and plans nothing anew.
HandsOff ==
  /\ UNCHANGED <<target, wpc, todo, epc>>
  /\ \A c \in Changes :
        /\ status'[c] = "none" => status[c] = "none"
        /\ status'[c] \in Planned => status[c] \in Planned

\* Such a step keeps targets fresh and results.
LEMMA HandsOffFresh ==
  ASSUME TypeOK, TargetsFresh, HandsOff PROVE TargetsFresh' /\ Kept
  BY DEF TargetsFresh, Fresh, HandsOff, Kept

\* The panel: Create meets a change without targets, Cancel skips what waits.
LEMMA PanelFresh ==
  ASSUME TypeOK, LockDiscipline, TargetsFresh, NEW c \in Changes, Panel(c) \/ ReachRunAt(c)
  PROVE  TargetsFresh' /\ Kept
  <1> USE DEF dbVars, timeVars, apiVars, schedVars, execVars
  <1>1. ASSUME NEW u \in Users, NEW p \in Plans, Create(c, u, p) PROVE TargetsFresh' /\ Kept
    <2>1. status[c] = "none" /\ epc[c] = "none" BY <1>1 DEF Create, LockDiscipline, StatusAgrees, At
    <2>2. UNCHANGED <<wpc, todo, epc>> /\ status' = [status EXCEPT ![c] = "draft"]
          /\ target' = [target EXCEPT ![c] = [d \in Devices |-> IF d \in PlanDevs(p) THEN "pending" ELSE "none"]]
      BY <1>1 DEF Create
    <2>3. Fresh(c)' BY <2>1, <2>2 DEF TargetsFresh, Fresh, Untouched, IdleWorkers, TypeOK
    <2>4. \A b \in Changes \ {c} : Fresh(b)' BY <2>2 DEF TargetsFresh, Fresh, TypeOK
    <2>5. Kept BY <2>1, <2>2 DEF TargetsFresh, Fresh, Kept, TypeOK
    <2> QED BY <2>3, <2>4, <2>5 DEF TargetsFresh
  <1>2. CASE Submit(c)
    <2>1. HandsOff BY <1>2 DEF Submit, SetStatus, StatusOnly, HandsOff, Planned, TypeOK
    <2> QED BY <2>1, HandsOffFresh
  <1>3. ASSUME NEW u \in Users, NEW approve \in BOOLEAN, Decide(c, u, approve) PROVE TargetsFresh' /\ Kept
    <2>1. HandsOff BY <1>3 DEF Decide, SetStatus, HandsOff, Planned, TypeOK
    <2> QED BY <2>1, HandsOffFresh
  <1>4. CASE CancelPlanned(c)
    <2>1. /\ UNCHANGED <<wpc, todo, epc>> /\ status' = [status EXCEPT ![c] = "cancelled"]
          /\ target' = [target EXCEPT ![c] = SkipPending(c)]
          /\ status[c] \in Planned
      BY <1>4 DEF CancelPlanned, SetStatus, Planned
    <2>2. epc[c] = "none" BY <2>1 DEF LockDiscipline, StatusAgrees, At, Planned
    <2>3. Fresh(c)' BY <2>1, <2>2 DEF TargetsFresh, Fresh, Planned, IdleWorkers, TypeOK
    <2>4. \A b \in Changes \ {c} : Fresh(b)' BY <2>1 DEF TargetsFresh, Fresh, TypeOK
    <2>5. Kept BY <2>1 DEF Kept, SkipPending, TypeOK
    <2> QED BY <2>3, <2>4, <2>5 DEF TargetsFresh
  <1>5. CASE CancelObserve(c) \/ CancelFlag(c) \/ RunNow(c) \/ ReachRunAt(c)
    <2>1. HandsOff BY <1>5 DEF CancelObserve, CancelFlag, RunNow, ReachRunAt, HandsOff
    <2> QED BY <2>1, HandsOffFresh
  <1> QED BY <1>1, <1>2, <1>3, <1>4, <1>5 DEF Panel

\* Deleted devices take their targets along; a crash ends every goroutine.
LEMMA EnvironmentFresh ==
  ASSUME TypeOK, TargetsFresh,
         \/ \E d \in Devices : DeleteDevice(d) \/ ToggleWindow(d)
         \/ Crash
         \/ UNCHANGED vars
  PROVE  TargetsFresh' /\ Kept
  <1> USE DEF dbVars, timeVars, apiVars, schedVars, execVars
  <1>1. ASSUME NEW d \in Devices, DeleteDevice(d) PROVE TargetsFresh' /\ Kept
    <2>1. UNCHANGED <<wpc, todo, epc, status>> /\ target' = [c \in Changes |-> [target[c] EXCEPT ![d] = "none"]]
      BY <1>1 DEF DeleteDevice
    <2>2. \A c \in Changes, e \in Devices : target'[c][e] \in {target[c][e], "none"} BY <2>1 DEF TypeOK
    <2>3. ASSUME NEW c \in Changes PROVE Fresh(c)'
      BY <2>1, <2>2 DEF TargetsFresh, Fresh, Untouched, TypeOK
    <2> QED BY <2>2, <2>3 DEF TargetsFresh, Kept
  <1>2. CASE Crash
    <2>1. UNCHANGED <<target, status>> /\ epc' = [c \in Changes |-> "none"] /\ wpc' = [c \in Changes |-> IdleWorkers]
      BY <1>2 DEF Crash
    <2>2. ASSUME NEW c \in Changes PROVE Fresh(c)'
      BY <2>1 DEF TargetsFresh, Fresh, IdleWorkers
    <2> QED BY <2>1, <2>2 DEF TargetsFresh, Kept
  <1>3. CASE UNCHANGED vars \/ \E d \in Devices : ToggleWindow(d)
    <2>1. HandsOff BY <1>3 DEF vars, ToggleWindow, HandsOff
    <2> QED BY <2>1, HandsOffFresh
  <1> QED BY <1>1, <1>2, <1>3

\* The recovery writes targets that are running or pending, and no executor is
\* there; Tick writes none.
LEMMA SchedulerFresh ==
  ASSUME TypeOK, LockDiscipline, TargetsFresh, Scheduler PROVE TargetsFresh' /\ Kept
  <1> USE DEF dbVars, timeVars, apiVars, schedVars, execVars
  <1>1. CASE RecoverTargets \/ RecoverPending
    <2>1. UNCHANGED <<status, wpc, todo, epc>> /\ \A c \in Changes : epc[c] = "none"
      BY <1>1 DEF RecoverTargets, RecoverPending, LockDiscipline, At
    <2>2. \A c \in Changes, d \in Devices :
             \/ target'[c][d] = target[c][d]
             \/ target[c][d] = "running" /\ target'[c][d] = "failed"
             \/ target[c][d] = "pending" /\ target'[c][d] = "skipped" /\ status[c] = "running"
      BY <1>1 DEF RecoverTargets, RecoverPending, Interrupt, SkipPending, TypeOK
    <2>3. ASSUME NEW c \in Changes PROVE Fresh(c)'
      <3>1. wpc'[c] = IdleWorkers BY <2>1 DEF TargetsFresh, Fresh
      <3>2. \A d \in Devices : status[c] \in Planned => target'[c][d] \in Untouched
        BY <2>2 DEF TargetsFresh, Fresh, Planned, Untouched
      <3> QED BY <2>1, <2>2, <3>1, <3>2 DEF TargetsFresh, Fresh, IdleWorkers
    <2> QED BY <2>2, <2>3 DEF TargetsFresh, Kept
  <1>2. CASE RecoverChanges
    <2>1. HandsOff BY <1>2 DEF RecoverChanges, HandsOff, Planned, TypeOK
    <2> QED BY <2>1, HandsOffFresh
  <1>3. ASSUME TickList \/ TickAbort \/ \E c \in Changes : TickLock(c) \/ TickSkip(c) \/ TickLost(c)
        PROVE  TargetsFresh' /\ Kept
    <2>1. HandsOff BY <1>3 DEF TickList, TickAbort, TickLock, TickSkip, TickLost, HandsOff
    <2> QED BY <2>1, HandsOffFresh
  <1>4. ASSUME NEW c \in Changes, TickStartFault(c) PROVE TargetsFresh' /\ Kept
    <2>1. HandsOff BY <1>4 DEF TickStartFault, SetStatus, HandsOff, Planned, TypeOK
    <2> QED BY <2>1, HandsOffFresh
  <1>5. ASSUME NEW c \in Changes, TickStart(c) PROVE TargetsFresh' /\ Kept
    <2>1. /\ UNCHANGED <<target, wpc, todo>> /\ status[c] = "approved"
          /\ status' = [status EXCEPT ![c] = "running"] /\ epc' = [epc EXCEPT ![c] = "load"]
      BY <1>5 DEF TickStart, SetStatus
    <2>2. epc[c] = "none" BY <1>5 DEF TickStart, Oldest, LockDiscipline, StatusAgrees, At
    <2>3. Fresh(c)' BY <2>1, <2>2 DEF TargetsFresh, Fresh, Planned, TypeOK
    <2>4. \A b \in Changes \ {c} : Fresh(b)' BY <2>1 DEF TargetsFresh, Fresh, TypeOK
    <2> QED BY <2>1, <2>3, <2>4 DEF TargetsFresh, Kept
  <1> QED BY <1>1, <1>2, <1>3, <1>4, <1>5 DEF Scheduler

\* A step of execute other than ExecSkip touches no target; a device leaves
\* todo when its goroutine starts.
LEMMA ExecuteFresh ==
  ASSUME TypeOK, LockDiscipline, TargetsFresh, NEW c \in Changes, Execute(c) PROVE TargetsFresh' /\ Kept
  <1> USE DEF dbVars, timeVars, apiVars, schedVars, execVars, At, Goto, ExecOnly
  <1>0. epc[c] \notin {"none", "unlock"} => status[c] = "running"
    BY DEF LockDiscipline, StatusAgrees
  <1> DEFINE Others == \A b \in Changes \ {c} : /\ target'[b] = target[b] /\ wpc'[b] = wpc[b] /\ todo'[b] = todo[b]
                                                /\ epc'[b] = epc[b] /\ status'[b] = status[b]
  <1>1. Others => \A b \in Changes \ {c} : Fresh(b)'
    BY DEF TargetsFresh, Fresh
  <1>2. UNCHANGED target => Kept BY DEF Kept
  <1>3. CASE ExecLoad(c)
    <2>1. Others BY <1>3 DEF ExecLoad, TypeOK
    <2>2. Fresh(c)' BY <1>0, <1>3 DEF ExecLoad, TargetsFresh, Fresh, TargetDevices, IdleWorkers, TypeOK, Planned
    <2> QED BY <1>1, <1>2, <1>3, <2>1, <2>2 DEF TargetsFresh, ExecLoad
  <1>4. CASE ExecLoadFault(c)
    <2>1. Others BY <1>4 DEF ExecLoadFault, TypeOK
    <2>2. Fresh(c)' BY <1>0, <1>4 DEF ExecLoadFault, TargetsFresh, Fresh, TypeOK, Planned
    <2> QED BY <1>1, <1>2, <1>4, <2>1, <2>2 DEF TargetsFresh, ExecLoadFault
  <1>5. ASSUME NEW d \in Devices, CanaryRun(c, d) PROVE TargetsFresh' /\ Kept
    <2>1. Others BY <1>5 DEF CanaryRun, TypeOK
    <2>2. d \in todo[c] BY <1>5 DEF CanaryRun, First
    <2>3. Fresh(c)' BY <1>0, <1>5, <2>2 DEF CanaryRun, TargetsFresh, Fresh, TypeOK, Planned
    <2> QED BY <1>1, <1>2, <1>5, <2>1, <2>3 DEF TargetsFresh, CanaryRun
  <1>6. ASSUME NEW d \in Devices, FanLaunch(c, d) PROVE TargetsFresh' /\ Kept
    <2>1. Others BY <1>6 DEF FanLaunch, TypeOK
    <2>2. d \in todo[c] BY <1>6 DEF FanLaunch, First
    <2>3. Fresh(c)' BY <1>0, <1>6, <2>2 DEF FanLaunch, TargetsFresh, Fresh, TypeOK, Planned
    <2> QED BY <1>1, <1>2, <1>6, <2>1, <2>3 DEF TargetsFresh, FanLaunch
  <1>7. CASE CanaryEnd(c)
    <2>1. Others BY <1>7 DEF CanaryEnd, TypeOK
    <2>2. Fresh(c)' BY <1>0, <1>7 DEF CanaryEnd, AfterCanaries, TargetsFresh, Fresh, TypeOK, Planned
    <2> QED BY <1>1, <1>2, <1>7, <2>1, <2>2 DEF TargetsFresh, CanaryEnd
  <1>8. CASE FanCheck(c)
    <2>1. Others BY <1>8 DEF FanCheck, TypeOK
    <2>2. Fresh(c)' BY <1>0, <1>8 DEF FanCheck, TargetsFresh, Fresh, TypeOK, Planned
    <2> QED BY <1>1, <1>2, <1>8, <2>1, <2>2 DEF TargetsFresh, FanCheck
  <1>9. CASE ExecSkip(c)
    <2>1. Others BY <1>9 DEF ExecSkip, TypeOK
    <2>2. InFlight(c) = {} BY <1>9 DEF ExecSkip, LockDiscipline, LocksCover, NotWorking
    <2>3. \A d \in Devices : wpc[c][d] \in {"idle", "succeeded", "failed", "stopped"}
      BY <2>2 DEF InFlight
    <2>4. Fresh(c)' BY <1>0, <1>9, <2>3 DEF ExecSkip, TargetsFresh, Fresh, TypeOK, Planned
    <2>5. target' = target \/ target' = [target EXCEPT ![c] = SkipPending(c)] BY <1>9 DEF ExecSkip
    <2>6. CASE target' = target BY <1>1, <1>2, <2>1, <2>4, <2>6 DEF TargetsFresh
    <2>7. CASE target' = [target EXCEPT ![c] = SkipPending(c)]
      <3>1. target'[c] = SkipPending(c) /\ \A b \in Changes \ {c} : target'[b] = target[b] BY <2>7 DEF TypeOK
      <3>2. Kept BY <3>1 DEF SkipPending, Kept
      <3> QED BY <1>1, <2>1, <2>4, <3>2 DEF TargetsFresh
    <2> QED BY <2>5, <2>6, <2>7
  <1>10. CASE ExecWait(c) \/ ExecTally(c) \/ ExecDecide(c) \/ ExecClear(c)
    <2>1. /\ UNCHANGED <<target, wpc, todo, status>> /\ epc[c] \notin {"none", "load", "unlock"}
          /\ \E pc \in {"skip", "decide", "clear", "finish"} : epc' = [epc EXCEPT ![c] = pc]
      BY <1>10 DEF ExecWait, ExecTally, ExecDecide, ExecClear
    <2>2. Others BY <2>1 DEF TypeOK
    <2>3. Fresh(c)' BY <1>0, <2>1 DEF TargetsFresh, Fresh, TypeOK, Planned
    <2> QED BY <1>1, <1>2, <2>1, <2>2, <2>3 DEF TargetsFresh
  <1>11. CASE ExecFinish(c)
    <2>1. Others BY <1>11 DEF ExecFinish, SetStatus, TypeOK
    <2>2. status'[c] \notin Planned \cup {"none"}
      BY <1>0, <1>11 DEF ExecFinish, SetStatus, Planned, TypeOK
    <2>3. UNCHANGED <<target, wpc, todo>> /\ epc' = [epc EXCEPT ![c] = "unlock"] BY <1>11 DEF ExecFinish
    <2>4. Fresh(c)' BY <2>2, <2>3 DEF TargetsFresh, Fresh, TypeOK
    <2> QED BY <1>1, <1>2, <2>1, <2>3, <2>4 DEF TargetsFresh
  <1>12. CASE ExecUnlock(c)
    <2>1. Others BY <1>12 DEF ExecUnlock, Unlock, TypeOK
    <2>2. status[c] \notin Planned \cup {"none"} BY <1>12 DEF ExecUnlock, LockDiscipline, StatusAgrees, Planned
    <2>3. /\ UNCHANGED <<target, status>> /\ epc' = [epc EXCEPT ![c] = "none"]
          /\ wpc' = [wpc EXCEPT ![c] = IdleWorkers]
      BY <1>12 DEF ExecUnlock
    <2>4. Fresh(c)' BY <2>2, <2>3 DEF TargetsFresh, Fresh, TypeOK, IdleWorkers
    <2> QED BY <1>1, <1>2, <2>1, <2>3, <2>4 DEF TargetsFresh
  <1> QED BY <1>3, <1>4, <1>5, <1>6, <1>7, <1>8, <1>9, <1>10, <1>11, <1>12 DEF Execute
\* runTarget writes the target of its device only: first over one that nobody
\* has touched, then over the one it marked.
LEMMA RunTargetFresh ==
  ASSUME TypeOK, LockDiscipline, TargetsFresh, NEW c \in Changes, NEW d \in Devices, RunTarget(c, d)
  PROVE  TargetsFresh' /\ Kept
  <1> DEFINE Busy == {"launched", "cleared", "marked", "backup", "apply", "ok", "err", "uncounted"}
  <1>1. UNCHANGED <<todo, epc, status>>
    BY DEF RunTarget, WorkerStart, WorkerMark, WorkerMarkFault, WorkerCheck, WorkerBackup, WorkerApply,
       WorkerRecord, WorkerRecordFault, WorkerCount, WorkerOnly, TargetOnly, dbVars, schedVars, execVars
  <1>2. /\ wpc[c][d] \in Busy
        /\ \E to \in WorkerPcs \ {"idle", "launched"} : wpc' = [wpc EXCEPT ![c][d] = to]
    BY Zenon DEF RunTarget, WorkerStart, WorkerMark, WorkerMarkFault, WorkerCheck, WorkerBackup, WorkerApply,
       WorkerRecord, WorkerRecordFault, WorkerCount, WorkerPcs, Step
  <1>3. epc[c] \notin {"none", "load", "unlock"} /\ status[c] = "running" /\ d \in Devices
    BY <1>2 DEF LockDiscipline, LocksCover, StatusAgrees, InFlight, NotWorking, At
  <1>4. \/ UNCHANGED target
        \/ wpc[c][d] = "cleared" /\ SetTarget(c, d, "running")
        \/ wpc[c][d] = "ok" /\ SetTarget(c, d, "succeeded")
        \/ wpc[c][d] = "err" /\ SetTarget(c, d, "failed")
    BY Zenon DEF RunTarget, WorkerStart, WorkerMark, WorkerMarkFault, WorkerCheck, WorkerBackup, WorkerApply,
       WorkerRecord, WorkerRecordFault, WorkerCount, WorkerOnly, dbVars, Step
  <1>5. \A b \in Changes, e \in Devices : b # c \/ e # d => wpc'[b][e] = wpc[b][e] /\ target'[b][e] = target[b][e]
    BY <1>2, <1>4 DEF SetTarget, TypeOK
  <1>6. /\ wpc'[c][d] = "cleared" => wpc[c][d] = "launched" /\ target'[c][d] = target[c][d]
        /\ wpc'[c][d] # "launched" /\ wpc'[c][d] # "idle"
        /\ wpc'[c][d] \in {"marked", "backup", "apply", "ok", "err"} =>
              \/ wpc[c][d] = "cleared" /\ SetTarget(c, d, "running")
              \/ wpc[c][d] \in {"marked", "backup", "apply"} /\ target'[c][d] = target[c][d]
    <2>1. wpc[c] \in [Devices -> WorkerPcs] /\ wpc \in [Changes -> [Devices -> WorkerPcs]] BY DEF TypeOK
    <2>2. ASSUME NEW from, NEW to, Step(c, d, from, to) PROVE wpc[c][d] = from /\ wpc'[c][d] = to
      BY <2>1, <2>2 DEF Step
    <2>3. CASE WorkerStart(c, d)
      BY <2>2, <2>3 DEF WorkerStart, WorkerOnly, dbVars
    <2>4. CASE WorkerMark(c, d)
      BY <2>2, <2>4 DEF WorkerMark
    <2>5. CASE WorkerMarkFault(c, d)
      BY <2>2, <2>5 DEF WorkerMarkFault
    <2>6. CASE WorkerCheck(c, d)
      <3>1. wpc[c][d] = "marked" /\ wpc'[c][d] \in {"err", "backup", "apply"} BY <2>2, <2>6 DEF WorkerCheck
      <3> QED BY <2>6, <3>1 DEF WorkerCheck, WorkerOnly, dbVars
    <2>7. CASE WorkerBackup(c, d) \/ WorkerApply(c, d)
      BY <2>2, <2>7 DEF WorkerBackup, WorkerApply, WorkerOnly, dbVars
    <2>8. CASE WorkerRecord(c, d) \/ WorkerRecordFault(c, d) \/ WorkerCount(c, d)
      BY <2>2, <2>8 DEF WorkerRecord, WorkerRecordFault, WorkerCount
    <2> QED BY <2>3, <2>4, <2>5, <2>6, <2>7, <2>8 DEF RunTarget
  <1>7. SetTarget(c, d, "running") => target'[c][d] \in {"none", "running"}
    BY DEF SetTarget, TypeOK
  <1>8. Fresh(c)'
    <2>1. \A e \in Devices \ {d} : wpc'[c][e] = wpc[c][e] /\ target'[c][e] = target[c][e] BY <1>5
    <2>2. epc[c] \in {"canary", "fan", "acquire"} => d \notin todo[c]
      BY <1>2 DEF TargetsFresh, Fresh
    <2>3. epc[c] \in {"canary", "fan", "acquire"} => \A e \in todo[c] : target'[c][e] \in Untouched /\ wpc'[c][e] = "idle"
      BY <2>1, <2>2 DEF TargetsFresh, Fresh, TypeOK
    <2>4. \A e \in Devices : wpc'[c][e] \in {"launched", "cleared"} => target'[c][e] \in Untouched
      BY <1>6, <2>1 DEF TargetsFresh, Fresh
    <2>5. \A e \in Devices : wpc'[c][e] \in {"marked", "backup", "apply", "ok", "err"} => target'[c][e] \in {"none", "running"}
      BY <1>6, <1>7, <2>1 DEF TargetsFresh, Fresh
    <2> QED BY <1>1, <1>3, <2>3, <2>4, <2>5 DEF Fresh, Planned
  <1>9. \A b \in Changes \ {c} : Fresh(b)'
    <2> SUFFICES ASSUME NEW b \in Changes \ {c} PROVE Fresh(b)' OBVIOUS
    <2>1. wpc'[b] = wpc[b] /\ target'[b] = target[b] BY <1>2, <1>4 DEF SetTarget, TypeOK
    <2> QED BY <1>1, <2>1 DEF TargetsFresh, Fresh
  <1>10. Kept
    <2>1. target[c][d] \in {"succeeded", "failed", "skipped"} => target'[c][d] = target[c][d]
      BY <1>4 DEF TargetsFresh, Fresh, Untouched
    <2> QED BY <1>5, <2>1 DEF Kept
  <1> QED BY <1>8, <1>9, <1>10 DEF TargetsFresh

\* Targets are fresh when goroutines write them.
LEMMA FreshAlways == Spec => []TargetsFresh
  <1>1. Init => TargetsFresh BY DEF Init, TargetsFresh, Fresh, Untouched, IdleWorkers
  <1>2. TypeOK /\ LockDiscipline /\ TargetsFresh /\ [Next]_vars => TargetsFresh'
    <2> SUFFICES ASSUME TypeOK, LockDiscipline, TargetsFresh, [Next]_vars PROVE TargetsFresh'
      OBVIOUS
    <2> QED BY PanelFresh, EnvironmentFresh, SchedulerFresh, ExecuteFresh, RunTargetFresh DEF Next
  <1> QED BY <1>1, <1>2, TypeCorrect, LocksAreConsistent, PTL DEF Spec

\* runTarget, Cancel and the recovery never write over a result: no target is
\* run twice, also when statements fail or the process dies between them.
THEOREM ResultsStay == Spec => ResultsAreFinal
  <1>1. TypeOK /\ LockDiscipline /\ TargetsFresh /\ [Next]_vars => Kept
    <2> SUFFICES ASSUME TypeOK, LockDiscipline, TargetsFresh, [Next]_vars PROVE Kept
      OBVIOUS
    <2> QED BY PanelFresh, EnvironmentFresh, SchedulerFresh, ExecuteFresh, RunTargetFresh DEF Next
  <1>2. TypeOK /\ LockDiscipline /\ TargetsFresh /\ [Next]_vars =>
          [\A c \in Changes, d \in Devices : target[c][d] \in {"succeeded", "failed", "skipped"} =>
             target'[c][d] \in {target[c][d], "none"}]_vars
    BY <1>1 DEF Kept
  <1> QED BY <1>2, TypeCorrect, LocksAreConsistent, FreshAlways, PTL DEF Spec, ResultsAreFinal

-----------------------------------------------------------------------------
(* The end of a change, when the database does not fail. *)

\* Statuses of a change that execute, Cancel or the recovery ended; places of
\* runTarget between its two updates; Tick after the recovery.
Ended == {"succeeded", "partial", "failed", "cancelled"}
\* Where a worker stands once its target is marked running.
Marked == {"marked", "backup", "apply", "ok", "err"}
\* Where Tick stands in a live process.
Ticking == {"idle", "scan", "start"}

\* What each statement of execute and of the recovery leaves behind for the
\* next one.
Settled(c) ==
  /\ status[c] = "running" /\ spc \in Ticking => epc[c] \notin {"none", "unlock"}
  /\ \A d \in Devices : target[c][d] = "running" =>
        status[c] = "running" /\ (spc = "recoverTargets" \/ wpc[c][d] \in Marked)
  /\ \/ status[c] \in Ended \/ epc[c] \in {"tally", "decide", "clear", "finish"}
     \/ spc = "recoverChanges" /\ status[c] = "running"
     => \A d \in Devices : target[c][d] # "pending"
  /\ status[c] = "succeeded" \/ (epc[c] \in {"decide", "clear", "finish"} /\ verdict[c] = "succeeded")
     => \A d \in Devices : target[c][d] \in {"none", "succeeded"}

\* Settled for every change.
AllSettled == \A c \in Changes : Settled(c)

\* A step that touches no target and no executor, and moves only changes that
\* have not started.
Aside ==
  /\ UNCHANGED <<target, wpc, epc, verdict>>
  /\ spc' = spc \/ {spc, spc'} \subseteq Ticking
  /\ \A c \in Changes : status'[c] = status[c] \/ {status[c], status'[c]} \subseteq Planned \cup {"rejected"}

\* It keeps what is settled.
LEMMA AsideSettled ==
  ASSUME TypeOK, LockDiscipline, AllSettled, Aside PROVE AllSettled'
  <1> SUFFICES ASSUME NEW c \in Changes PROVE Settled(c)' BY DEF AllSettled
  <1>1. CASE status'[c] = status[c]
    BY <1>1 DEF AllSettled, Settled, Aside, Ticking
  <1>2. CASE {status[c], status'[c]} \subseteq Planned \cup {"rejected"}
    <2>1. epc[c] = "none" BY <1>2 DEF LockDiscipline, StatusAgrees, At, Planned
    <2> QED BY <1>2, <2>1 DEF AllSettled, Settled, Aside, Planned, Ended
  <1> QED BY <1>1, <1>2 DEF Aside

\* The panel: Cancel of a change that has not started skips all it has.
LEMMA PanelSettled ==
  ASSUME TypeOK, LockDiscipline, TargetsFresh, AllSettled, NEW c \in Changes, Panel(c) \/ ReachRunAt(c)
  PROVE  AllSettled'
  <1> USE DEF dbVars, timeVars, apiVars, schedVars, execVars
  <1>1. ASSUME NEW u \in Users, NEW p \in Plans, Create(c, u, p) PROVE AllSettled'
    <2>1. status[c] = "none" /\ epc[c] = "none" BY <1>1 DEF Create, LockDiscipline, StatusAgrees, At
    <2>2. UNCHANGED <<wpc, epc, spc, verdict>> /\ status' = [status EXCEPT ![c] = "draft"]
          /\ target' = [target EXCEPT ![c] = [d \in Devices |-> IF d \in PlanDevs(p) THEN "pending" ELSE "none"]]
      BY <1>1 DEF Create
    <2>3. Settled(c)' BY <2>1, <2>2 DEF AllSettled, Settled, TypeOK, Ended
    <2>4. \A b \in Changes \ {c} : Settled(b)' BY <2>2 DEF AllSettled, Settled, TypeOK
    <2> QED BY <2>3, <2>4 DEF AllSettled
  <1>2. CASE Submit(c)
    <2>1. Aside BY <1>2 DEF Submit, SetStatus, StatusOnly, Aside, Planned, TypeOK
    <2> QED BY <2>1, AsideSettled
  <1>3. ASSUME NEW u \in Users, NEW approve \in BOOLEAN, Decide(c, u, approve) PROVE AllSettled'
    <2>1. Aside BY <1>3 DEF Decide, SetStatus, Aside, Planned, TypeOK
    <2> QED BY <2>1, AsideSettled
  <1>4. CASE CancelPlanned(c)
    <2>1. /\ UNCHANGED <<wpc, epc, spc, verdict>> /\ status' = [status EXCEPT ![c] = "cancelled"]
          /\ target' = [target EXCEPT ![c] = SkipPending(c)] /\ status[c] \in Planned
      BY <1>4 DEF CancelPlanned, SetStatus, Planned
    <2>2. epc[c] = "none" BY <2>1 DEF LockDiscipline, StatusAgrees, At, Planned
    <2>3. \A d \in Devices : target'[c][d] \in {"none", "skipped"}
      <3>1. target'[c] = SkipPending(c) BY <2>1 DEF TypeOK
      <3> QED BY <2>1, <3>1 DEF TargetsFresh, Fresh, SkipPending, Untouched
    <2>4. Settled(c)' BY <2>1, <2>2, <2>3 DEF Settled, TypeOK
    <2>5. \A b \in Changes \ {c} : Settled(b)' BY <2>1 DEF AllSettled, Settled, TypeOK
    <2> QED BY <2>4, <2>5 DEF AllSettled
  <1>5. CASE CancelObserve(c) \/ CancelFlag(c) \/ RunNow(c) \/ ReachRunAt(c)
    <2>1. Aside BY <1>5 DEF CancelObserve, CancelFlag, RunNow, ReachRunAt, Aside
    <2> QED BY <2>1, AsideSettled
  <1> QED BY <1>1, <1>2, <1>3, <1>4, <1>5 DEF Panel

\* A device takes its targets along; a crash hands everything to the recovery.
LEMMA EnvironmentSettled ==
  ASSUME TypeOK, LockDiscipline, AllSettled,
         \/ \E d \in Devices : DeleteDevice(d) \/ ToggleWindow(d)
         \/ Crash
         \/ UNCHANGED vars
  PROVE  AllSettled'
  <1> USE DEF dbVars, timeVars, apiVars, schedVars, execVars
  <1>1. ASSUME NEW d \in Devices, DeleteDevice(d) PROVE AllSettled'
    <2>1. UNCHANGED <<wpc, epc, spc, verdict, status>> /\ target' = [c \in Changes |-> [target[c] EXCEPT ![d] = "none"]]
      BY <1>1 DEF DeleteDevice
    <2>2. \A c \in Changes, e \in Devices : target'[c][e] \in {target[c][e], "none"} BY <2>1 DEF TypeOK
    <2>3. ASSUME NEW c \in Changes PROVE Settled(c)'
      BY <2>1, <2>2 DEF AllSettled, Settled
    <2> QED BY <2>3 DEF AllSettled
  <1>2. CASE Crash
    <2>1. UNCHANGED <<target, status>> /\ epc' = [c \in Changes |-> "none"] /\ spc' = "recoverTargets"
      BY <1>2 DEF Crash
    <2>2. ASSUME NEW c \in Changes PROVE Settled(c)'
      BY <2>1 DEF AllSettled, Settled, Ticking
    <2> QED BY <2>2 DEF AllSettled
  <1>3. CASE UNCHANGED vars \/ \E d \in Devices : ToggleWindow(d)
    <2>1. Aside BY <1>3 DEF vars, ToggleWindow, Aside
    <2> QED BY <2>1, AsideSettled
  <1> QED BY <1>1, <1>2, <1>3

\* The recovery: running targets, then pending ones, then the changes.
LEMMA RecoverSettled ==
  ASSUME ~DbFaults, TypeOK, LockDiscipline, AllSettled, RecoverTargets \/ RecoverPending \/ RecoverChanges
  PROVE  AllSettled'
  <1> USE DEF dbVars, timeVars, apiVars, schedVars, execVars
  <1>1. UNCHANGED <<wpc, epc, verdict>> /\ \A c \in Changes : epc[c] = "none" /\ InFlight(c) = {}
    BY DEF RecoverTargets, RecoverPending, RecoverChanges, LockDiscipline, LocksCover, NotWorking, At
  <1>2. \A c \in Changes, d \in Devices : wpc[c][d] \notin Marked
    BY <1>1 DEF InFlight, Marked
  <1>3. CASE RecoverTargets
    <2>1. /\ spc = "recoverTargets" /\ spc' = "recoverPending" /\ UNCHANGED status
          /\ target' = [c \in Changes |-> Interrupt(c)]
      BY <1>3 DEF RecoverTargets
    <2>2. \A c \in Changes, d \in Devices : target'[c][d] = IF target[c][d] = "running" THEN "failed" ELSE target[c][d]
      BY <2>1 DEF Interrupt
    <2>3. ASSUME NEW c \in Changes PROVE Settled(c)'
      BY <1>1, <2>1, <2>2 DEF AllSettled, Settled, Ticking
    <2> QED BY <2>3 DEF AllSettled
  <1>4. CASE RecoverPending
    <2>1. /\ spc = "recoverPending" /\ spc' = "recoverChanges" /\ UNCHANGED status
          /\ target' = [c \in Changes |-> IF status[c] = "running" THEN SkipPending(c) ELSE target[c]]
      BY <1>4 DEF RecoverPending
    <2>2. \A c \in Changes, d \in Devices :
             target'[c][d] = IF status[c] = "running" /\ target[c][d] = "pending" THEN "skipped" ELSE target[c][d]
      BY <2>1 DEF SkipPending
    <2>3. ASSUME NEW c \in Changes PROVE Settled(c)'
      BY <1>1, <1>2, <2>1, <2>2 DEF AllSettled, Settled, Ticking
    <2> QED BY <2>3 DEF AllSettled
  <1>5. CASE RecoverChanges
    <2>1. /\ spc = "recoverChanges" /\ spc' = "idle" /\ UNCHANGED target
          /\ status' = [c \in Changes |-> IF status[c] = "running" THEN "failed" ELSE status[c]]
      BY <1>5 DEF RecoverChanges
    <2>2. ASSUME NEW c \in Changes PROVE Settled(c)'
      <3>1. \A d \in Devices : target[c][d] # "running" BY <1>2, <2>1 DEF AllSettled, Settled
      <3> QED BY <1>1, <2>1, <3>1 DEF AllSettled, Settled, Ended
    <2> QED BY <2>2 DEF AllSettled
  <1> QED BY <1>3, <1>4, <1>5

\* Tick starts what is planned, with an executor.
LEMMA TickSettled ==
  ASSUME ~DbFaults, TypeOK, LockDiscipline, AllSettled,
         \/ TickList \/ TickAbort
         \/ \E c \in Changes : TickLock(c) \/ TickSkip(c) \/ TickStart(c) \/ TickLost(c) \/ TickStartFault(c)
  PROVE  AllSettled'
  <1> USE DEF dbVars, timeVars, apiVars, schedVars, execVars
  <1>1. ASSUME TickList \/ \E c \in Changes : TickLock(c) \/ TickSkip(c) \/ TickLost(c) PROVE AllSettled'
    <2>1. Aside BY <1>1 DEF TickList, TickLock, TickSkip, TickLost, Continue, Aside, Ticking
    <2> QED BY <2>1, AsideSettled
  <1>2. ASSUME NEW c \in Changes, TickStart(c) PROVE AllSettled'
    <2>1. /\ UNCHANGED <<target, wpc, verdict>> /\ status[c] = "approved" /\ {spc, spc'} \subseteq Ticking
          /\ status' = [status EXCEPT ![c] = "running"] /\ epc' = [epc EXCEPT ![c] = "load"]
      BY <1>2 DEF TickStart, SetStatus, Continue, Ticking
    <2>2. Settled(c)' BY <2>1 DEF AllSettled, Settled, TypeOK, Ticking, Ended
    <2>3. ASSUME NEW b \in Changes, b # c PROVE Settled(b)'
      <3>1. status'[b] = status[b] /\ epc'[b] = epc[b] BY <2>1, <2>3 DEF TypeOK
      <3> QED BY <2>1, <3>1 DEF AllSettled, Settled, Ticking
    <2> QED BY <2>2, <2>3 DEF AllSettled
  <1>3. ~TickAbort /\ \A c \in Changes : ~TickStartFault(c) BY DEF TickAbort, TickStartFault
  <1> QED BY <1>1, <1>2, <1>3

\* A step of execute c leaves the other changes alone.
Alone(c) ==
  /\ UNCHANGED spc
  /\ \A b \in Changes \ {c} : /\ target'[b] = target[b] /\ wpc'[b] = wpc[b] /\ epc'[b] = epc[b]
                              /\ verdict'[b] = verdict[b] /\ status'[b] = status[b]

\* They stay settled.
LEMMA AloneSettled ==
  ASSUME AllSettled, NEW c \in Changes, Alone(c), Settled(c)' PROVE AllSettled'
  BY DEF AllSettled, Settled, Alone

\* execute skips what it has not reached, counts, decides and writes: each
\* statement finds what the one before it left.
LEMMA ExecuteSettled ==
  ASSUME ~DbFaults, TypeOK, LockDiscipline, TargetsFresh, AllSettled, NEW c \in Changes, Execute(c) PROVE AllSettled'
  <1> USE DEF dbVars, timeVars, apiVars, schedVars, execVars, At, Goto, ExecOnly
  <1>0. /\ epc[c] \notin {"none", "unlock"} => status[c] = "running"
        /\ epc[c] # "none" => spc \in Ticking
        /\ epc[c] \in NotWorking \ {"none"} => \A d \in Devices : target[c][d] # "running"
    BY DEF LockDiscipline, LocksCover, StatusAgrees, AllSettled, Settled, InFlight, Marked, Ticking, NotWorking
  <1>1. CASE ExecLoad(c)
    <2>1. Alone(c) BY <1>1 DEF ExecLoad, Alone, TypeOK
    <2>2. Settled(c)' BY <1>0, <1>1 DEF ExecLoad, AllSettled, Settled, Ended, Ticking, TypeOK
    <2> QED BY <2>1, <2>2, AloneSettled
  <1>2. ASSUME NEW d \in Devices, CanaryRun(c, d) \/ FanLaunch(c, d) PROVE AllSettled'
    <2>1. /\ UNCHANGED <<target, status, spc, verdict>>
          /\ \E pc \in {"canary", "fan"} : epc[c] \in {"canary", "acquire"} /\ epc' = [epc EXCEPT ![c] = pc]
          /\ \E to \in {"cleared", "launched"} : wpc' = [wpc EXCEPT ![c][d] = to]
      <3>1. CASE CanaryRun(c, d)
        <4>1. epc' = [epc EXCEPT ![c] = "canary"] BY <3>1 DEF CanaryRun, TypeOK
        <4> QED BY <3>1, <4>1 DEF CanaryRun
      <3>2. CASE FanLaunch(c, d) BY <3>2 DEF FanLaunch
      <3> QED BY <1>2, <3>1, <3>2
    <2>2. Alone(c) BY <2>1 DEF Alone, TypeOK
    <2>3. target[c][d] # "running"
      <3>1. d \in todo[c] BY <1>2 DEF CanaryRun, FanLaunch, First
      <3> QED BY <2>1, <3>1 DEF TargetsFresh, Fresh, Untouched
    <2>4. Settled(c)' BY <1>0, <2>1, <2>3 DEF AllSettled, Settled, Ended, Ticking, TypeOK
    <2> QED BY <2>2, <2>4, AloneSettled
  <1>3. CASE CanaryEnd(c) \/ FanCheck(c) \/ ExecWait(c)
    <2>1. /\ UNCHANGED <<target, status, spc, verdict, wpc>> /\ epc[c] \in {"canary", "fan", "wait"}
          /\ \E pc \in {"skip", "fan", "wait", "acquire"} : epc' = [epc EXCEPT ![c] = pc]
      BY <1>3 DEF CanaryEnd, AfterCanaries, FanCheck, ExecWait
    <2>2. Alone(c) BY <2>1 DEF Alone, TypeOK
    <2>3. Settled(c)' BY <1>0, <2>1 DEF AllSettled, Settled, Ended, Ticking, TypeOK
    <2> QED BY <2>2, <2>3, AloneSettled
  <1>4. CASE ExecSkip(c)
    <2>1. /\ UNCHANGED <<status, spc, verdict, wpc>> /\ epc[c] = "skip" /\ epc' = [epc EXCEPT ![c] = "tally"]
          /\ target' = [target EXCEPT ![c] = SkipPending(c)]
      BY <1>4 DEF ExecSkip
    <2>2. Alone(c) BY <2>1 DEF Alone, TypeOK
    <2>3. \A d \in Devices : target'[c][d] \notin {"running", "pending"}
      <3>1. target'[c] = SkipPending(c) BY <2>1 DEF TypeOK
      <3> QED BY <1>0, <2>1, <3>1 DEF SkipPending, NotWorking
    <2>4. Settled(c)' BY <1>0, <2>1, <2>3 DEF Settled, Ended, Ticking, TypeOK
    <2> QED BY <2>2, <2>4, AloneSettled
  <1>5. CASE ExecTally(c)
    <2>1. /\ UNCHANGED <<status, spc, target, wpc>> /\ epc[c] = "tally" /\ epc' = [epc EXCEPT ![c] = "decide"]
          /\ verdict' = [verdict EXCEPT ![c] = Outcome(c)]
      BY <1>5 DEF ExecTally
    <2>2. Alone(c) BY <2>1 DEF Alone, TypeOK
    <2>3. \A d \in Devices : target[c][d] \in {"none", "succeeded", "failed", "skipped"}
      BY <1>0, <2>1 DEF AllSettled, Settled, NotWorking, TypeOK, TargetStatuses
    <2>4. verdict'[c] = "succeeded" => \A d \in Devices : target[c][d] \in {"none", "succeeded"}
      BY <2>1, <2>3 DEF Outcome, TypeOK
    <2>5. Settled(c)' BY <1>0, <2>1, <2>3, <2>4 DEF Settled, Ended, Ticking, TypeOK
    <2> QED BY <2>2, <2>5, AloneSettled
  <1>6. CASE ExecDecide(c) \/ ExecClear(c)
    <2>1. /\ UNCHANGED <<status, spc, target, wpc>> /\ epc[c] \in {"decide", "clear"}
          /\ \E pc \in {"clear", "finish"} : epc' = [epc EXCEPT ![c] = pc]
      BY <1>6 DEF ExecDecide, ExecClear
    <2>2. /\ verdict'[c] = "succeeded" => verdict[c] = "succeeded"
          /\ \A b \in Changes \ {c} : verdict'[b] = verdict[b]
      BY <1>6 DEF ExecDecide, ExecClear, TypeOK
    <2>3. Alone(c) BY <2>1, <2>2 DEF Alone, TypeOK
    <2>4. Settled(c)' BY <1>0, <2>1, <2>2 DEF AllSettled, Settled, Ended, Ticking, TypeOK
    <2> QED BY <2>3, <2>4, AloneSettled
  <1>7. CASE ExecFinish(c)
    <2>1. /\ UNCHANGED <<spc, target, wpc, verdict>> /\ epc[c] = "finish" /\ epc' = [epc EXCEPT ![c] = "unlock"]
          /\ status' = [status EXCEPT ![c] = verdict[c]]
      BY <1>7 DEF ExecFinish, SetStatus
    <2>2. Alone(c) BY <2>1 DEF Alone, TypeOK
    <2>3. status'[c] = verdict[c] /\ verdict[c] # "running" BY <2>1 DEF TypeOK
    <2>4. \A d \in Devices : target[c][d] # "running" BY <1>0, <2>1 DEF NotWorking
    <2>5. Settled(c)' BY <2>1, <2>3, <2>4 DEF AllSettled, Settled, TypeOK
    <2> QED BY <2>2, <2>5, AloneSettled
  <1>8. CASE ExecUnlock(c)
    <2>1. /\ UNCHANGED <<spc, target, status>> /\ epc[c] = "unlock" /\ epc' = [epc EXCEPT ![c] = "none"]
      BY <1>8 DEF ExecUnlock
    <2>2. Alone(c) BY <1>8, <2>1 DEF ExecUnlock, Alone, TypeOK
    <2>3. \A d \in Devices : target[c][d] # "running" BY <1>0, <2>1 DEF NotWorking
    <2>4. status[c] # "running" BY <1>0, <2>1 DEF AllSettled, Settled
    <2>5. Settled(c)' BY <2>1, <2>3, <2>4 DEF AllSettled, Settled, TypeOK
    <2> QED BY <2>2, <2>5, AloneSettled
  <1>9. ~ExecLoadFault(c) BY DEF ExecLoadFault
  <1> QED BY <1>1, <1>2, <1>3, <1>4, <1>5, <1>6, <1>7, <1>8, <1>9 DEF Execute

\* runTarget marks its target, and records its result.
LEMMA RunTargetSettled ==
  ASSUME ~DbFaults, TypeOK, LockDiscipline, TargetsFresh, AllSettled,
         NEW c \in Changes, NEW d \in Devices, RunTarget(c, d)
  PROVE  AllSettled'
  <1>1. UNCHANGED <<epc, status, spc, verdict>>
    BY DEF RunTarget, WorkerStart, WorkerMark, WorkerMarkFault, WorkerCheck, WorkerBackup, WorkerApply,
       WorkerRecord, WorkerRecordFault, WorkerCount, WorkerOnly, TargetOnly, dbVars, schedVars, execVars
  <1>2. ~WorkerMarkFault(c, d) /\ ~WorkerRecordFault(c, d) BY DEF WorkerMarkFault, WorkerRecordFault
  <1>3. ASSUME NEW from, NEW to, Step(c, d, from, to)
        PROVE  /\ wpc[c][d] = from /\ wpc'[c][d] = to
               /\ \A b \in Changes, e \in Devices : b # c \/ e # d => wpc'[b][e] = wpc[b][e]
    BY <1>3 DEF Step, TypeOK
  <1>4. ASSUME NEW s, SetTarget(c, d, s)
        PROVE  /\ target'[c][d] = IF target[c][d] = "none" THEN "none" ELSE s
               /\ \A b \in Changes, e \in Devices : b # c \/ e # d => target'[b][e] = target[b][e]
    BY <1>4 DEF SetTarget, TypeOK
  <1>5. wpc[c][d] \notin {"idle", "succeeded", "failed", "stopped"}
    BY <1>3 DEF RunTarget, WorkerStart, WorkerMark, WorkerMarkFault, WorkerCheck, WorkerBackup, WorkerApply,
       WorkerRecord, WorkerRecordFault, WorkerCount
  <1>6. /\ status[c] = "running" /\ epc[c] \notin {"none", "tally", "decide", "clear", "finish", "unlock"}
        /\ spc \in Ticking
    BY <1>5 DEF LockDiscipline, LocksCover, StatusAgrees, InFlight, NotWorking, At, Ticking
  <1>7. \A b \in Changes, e \in Devices : b # c \/ e # d => wpc'[b][e] = wpc[b][e] /\ target'[b][e] = target[b][e]
    <2>1. CASE WorkerMark(c, d) \/ WorkerRecord(c, d)
      BY <1>3, <1>4, <2>1 DEF WorkerMark, WorkerRecord
    <2>2. CASE WorkerStart(c, d) \/ WorkerCheck(c, d) \/ WorkerBackup(c, d) \/ WorkerApply(c, d) \/ WorkerCount(c, d)
      <3>1. UNCHANGED target
        BY <2>2 DEF WorkerStart, WorkerCheck, WorkerBackup, WorkerApply, WorkerCount, WorkerOnly, dbVars
      <3>2. \E from, to : Step(c, d, from, to)
        BY <2>2, Zenon DEF WorkerStart, WorkerCheck, WorkerBackup, WorkerApply, WorkerCount
      <3> QED BY <1>3, <3>1, <3>2
    <2> QED BY <1>2, <2>1, <2>2 DEF RunTarget
  <1>8. target'[c][d] = "running" => wpc'[c][d] \in Marked
    <2>1. wpc[c][d] \in {"launched", "uncounted"} => target[c][d] # "running"
      BY <1>6 DEF AllSettled, Settled, Marked, Ticking
    <2>2. CASE WorkerMark(c, d) BY <1>3, <2>2 DEF WorkerMark, Marked
    <2>3. CASE WorkerRecord(c, d) BY <1>4, <2>3 DEF WorkerRecord
    <2>4. CASE WorkerStart(c, d) \/ WorkerCount(c, d)
      BY <1>3, <2>1, <2>4 DEF WorkerStart, WorkerCount, WorkerOnly, dbVars
    <2>5. CASE WorkerCheck(c, d)
      <3>1. wpc'[c][d] \in {"err", "backup", "apply"} BY <1>3, <2>5 DEF WorkerCheck
      <3> QED BY <3>1 DEF Marked
    <2>6. CASE WorkerBackup(c, d) \/ WorkerApply(c, d) BY <1>3, <2>6 DEF WorkerBackup, WorkerApply, Marked
    <2> QED BY <1>2, <2>2, <2>3, <2>4, <2>5, <2>6 DEF RunTarget
  <1>9. Settled(c)' BY <1>1, <1>6, <1>7, <1>8 DEF AllSettled, Settled, Ended, Ticking
  <1>10. ASSUME NEW b \in Changes, b # c PROVE Settled(b)'
    BY <1>1, <1>7, <1>10 DEF AllSettled, Settled
  <1> QED BY <1>9, <1>10 DEF AllSettled

\* In every state, each statement has left what the next one counts on.
LEMMA SettledAlways == ~DbFaults => (Spec => []AllSettled)
  <1> SUFFICES ASSUME ~DbFaults PROVE Spec => []AllSettled OBVIOUS
  <1>1. Init => AllSettled BY DEF Init, AllSettled, Settled, Ticking, Ended
  <1>2. TypeOK /\ LockDiscipline /\ TargetsFresh /\ AllSettled /\ [Next]_vars => AllSettled'
    <2> SUFFICES ASSUME TypeOK, LockDiscipline, TargetsFresh, AllSettled, [Next]_vars PROVE AllSettled'
      OBVIOUS
    <2> QED BY PanelSettled, EnvironmentSettled, RecoverSettled, TickSettled, ExecuteSettled, RunTargetSettled
            DEF Next, Scheduler
  <1>3. Spec => []TypeOK /\ []LockDiscipline /\ []TargetsFresh BY TypeCorrect, LocksAreConsistent, FreshAlways, PTL
  <1> QED BY <1>1, <1>2, <1>3, PTL DEF Spec

\* While the database answers, the end of a change tells the truth: wherever a
\* crash, a cancel or a deleted device falls, no target of an ended change is
\* left pending or running, and "succeeded" is said only of a change all of
\* whose targets succeeded.
THEOREM EndsAreHonest == ~DbFaults => (Spec => []EndIsHonest)
  <1> SUFFICES ASSUME ~DbFaults PROVE Spec => []EndIsHonest OBVIOUS
  <1>1. AllSettled => EndIsHonest
    BY DEF AllSettled, Settled, EndIsHonest, EndedIsSettled, SucceededMeansAll, Ended
  <1> QED BY <1>1, SettledAlways, PTL

\* While the database answers, every change that is running after the recovery
\* has an executor that will end it: none is left running by a crash.
THEOREM RunningChangesAreExecuted == ~DbFaults => (Spec => []RunningIsExecuted)
  <1> SUFFICES ASSUME ~DbFaults PROVE Spec => []RunningIsExecuted OBVIOUS
  <1>1. AllSettled => RunningIsExecuted
    BY DEF AllSettled, Settled, RunningIsExecuted, Ticking
  <1> QED BY <1>1, SettledAlways, PTL

-----------------------------------------------------------------------------
(* The rollout, whatever statement fails. *)

\* The canaries of c all succeeded, as the pause checks.
AllSucceeded(c) == \A k \in canaries[c] : wpc[c][k] = "succeeded"

\* What the canary loop hands to the loop over the others, and what acquire
\* hands to a goroutine.
Gated(c) ==
  /\ epc[c] = "canary" => /\ \A d \in Devices : wpc[c][d] # "idle" => d \in canaries[c]
                          /\ \A d \in canaries[c] : d \in todo[c] \/ wpc[c][d] # "idle"
  /\ epc[c] \in {"fan", "acquire"} => todo[c] \cap canaries[c] = {}
  /\ \A d \in canaries[c] : wpc[c][d] \notin {"launched", "stopped"}
  /\ \A d \in Devices : wpc[c][d] = "failed" => failures[c] > 0
  /\ epc[c] = "fan" => AllSucceeded(c) \/ c \in cancel
  /\ epc[c] = "acquire" => AllSucceeded(c)
  /\ \A d \in Devices : d \notin canaries[c] /\ wpc[c][d] # "idle" => AllSucceeded(c)

\* Devices whose goroutine is at one of some places; goroutines past stop().
With(c, S) == {d \in Devices : wpc[c][d] \in S}
\* Where a worker stands between its start and its result.
LivePcs == {"cleared", "marked", "backup", "apply", "ok", "err", "uncounted"}

\* The semaphore bounds the goroutines, and those past stop() are counted with
\* the failures that stop() compared with the limit.
Bounded(c) ==
  /\ failures[c] = Cardinality(With(c, {"failed"}))
  /\ Cardinality(With(c, LivePcs \cup {"launched"})) <= plan[c].conc
  /\ failures[c] + Cardinality(With(c, LivePcs)) <= plan[c].maxFail + plan[c].conc

\* Gated and Bounded for every change.
Rollout == \A c \in Changes : Gated(c) /\ Bounded(c)

\* The limits of a plan, and the devices in flight.
LEMMA Limits ==
  ASSUME TypeOK, NEW c \in Changes
  PROVE  /\ plan[c].conc \in Nat /\ plan[c].conc >= 1 /\ plan[c].maxFail \in Nat
         /\ InFlight(c) = With(c, LivePcs \cup {"launched"})
  <1>1. plan[c] \in Plan \/ plan[c] = NoPlan BY DEF TypeOK
  <1>2. plan[c].conc \in 1..50 /\ plan[c].maxFail \in Nat BY <1>1 DEF Plan, NoPlan
  <1>3. \A d \in Devices : wpc[c][d] \in WorkerPcs BY DEF TypeOK
  <1>4. InFlight(c) = With(c, LivePcs \cup {"launched"}) BY <1>3 DEF InFlight, With, LivePcs, WorkerPcs
  <1> QED BY <1>2, <1>4

\* There are finitely many goroutines.
LEMMA WithFinite ==
  ASSUME NEW c \in Changes, NEW S PROVE IsFiniteSet(With(c, S)) /\ Cardinality(With(c, S)) \in Nat
  <1>1. With(c, S) \in SUBSET Devices BY DEF With
  <1>2. IsFiniteSet(With(c, S)) BY <1>1, ConstantsOK, FS_Subset DEF ConstantsOK
  <1> QED BY <1>2, FS_CardinalityType

\* The step of one goroutine adds it to a set, takes it away, or neither.
LEMMA WithStep ==
  ASSUME TypeOK, NEW c \in Changes, NEW d \in Devices, NEW S, NEW to, wpc' = [wpc EXCEPT ![c][d] = to]
  PROVE  /\ wpc[c][d] \in S /\ to \notin S => Cardinality(With(c, S))' = Cardinality(With(c, S)) - 1
         /\ wpc[c][d] \notin S /\ to \in S => Cardinality(With(c, S))' = Cardinality(With(c, S)) + 1
         /\ (wpc[c][d] \in S <=> to \in S) => Cardinality(With(c, S))' = Cardinality(With(c, S))
  <1>1. \A e \in Devices : wpc'[c][e] = IF e = d THEN to ELSE wpc[c][e] BY DEF TypeOK
  <1>2. IsFiniteSet(With(c, S)) BY WithFinite
  <1>3. CASE wpc[c][d] \in S /\ to \notin S
    <2>1. With(c, S)' = With(c, S) \ {d} BY <1>1, <1>3 DEF With
    <2>2. d \in With(c, S) BY <1>3 DEF With
    <2> QED BY <1>2, <1>3, <2>1, <2>2, FS_RemoveElement
  <1>4. CASE wpc[c][d] \notin S /\ to \in S
    <2>1. With(c, S)' = With(c, S) \cup {d} BY <1>1, <1>4 DEF With
    <2>2. d \notin With(c, S) BY <1>4 DEF With
    <2> QED BY <1>2, <1>4, <2>1, <2>2, FS_AddElement
  <1>5. CASE wpc[c][d] \in S <=> to \in S
    <2>1. With(c, S)' = With(c, S) BY <1>1, <1>5 DEF With
    <2> QED BY <1>5, <2>1
  <1> QED BY <1>3, <1>4, <1>5

\* The three counts of a rollout after the step of one goroutine.
LEMMA CountStep ==
  ASSUME TypeOK, NEW c \in Changes, NEW d \in Devices, NEW to, wpc' = [wpc EXCEPT ![c][d] = to]
  PROVE  /\ wpc[c][d] # "failed" => IF to = "failed"
              THEN Cardinality(With(c, {"failed"}))' = Cardinality(With(c, {"failed"})) + 1
              ELSE Cardinality(With(c, {"failed"}))' = Cardinality(With(c, {"failed"}))
         /\ IF wpc[c][d] \in LivePcs
            THEN IF to \in LivePcs
                 THEN Cardinality(With(c, LivePcs))' = Cardinality(With(c, LivePcs))
                 ELSE Cardinality(With(c, LivePcs))' = Cardinality(With(c, LivePcs)) - 1
            ELSE IF to \in LivePcs
                 THEN Cardinality(With(c, LivePcs))' = Cardinality(With(c, LivePcs)) + 1
                 ELSE Cardinality(With(c, LivePcs))' = Cardinality(With(c, LivePcs))
         /\ LET Busy == LivePcs \cup {"launched"}
            IN  IF wpc[c][d] \in Busy
                THEN IF to \in Busy
                     THEN Cardinality(With(c, Busy))' = Cardinality(With(c, Busy))
                     ELSE Cardinality(With(c, Busy))' = Cardinality(With(c, Busy)) - 1
                ELSE to \in Busy => Cardinality(With(c, Busy))' = Cardinality(With(c, Busy)) + 1
  <1>1. wpc[c][d] # "failed" => IF to = "failed"
              THEN Cardinality(With(c, {"failed"}))' = Cardinality(With(c, {"failed"})) + 1
              ELSE Cardinality(With(c, {"failed"}))' = Cardinality(With(c, {"failed"}))
    <2> DEFINE S == {"failed"}
    <2>1. /\ wpc[c][d] \notin S /\ to \in S => Cardinality(With(c, S))' = Cardinality(With(c, S)) + 1
          /\ (wpc[c][d] \in S <=> to \in S) => Cardinality(With(c, S))' = Cardinality(With(c, S))
      <3> HIDE DEF S
      <3> QED BY WithStep
    <2> QED BY <2>1
  <1>2. ASSUME NEW S
        PROVE IF wpc[c][d] \in S
              THEN IF to \in S
                   THEN Cardinality(With(c, S))' = Cardinality(With(c, S))
                   ELSE Cardinality(With(c, S))' = Cardinality(With(c, S)) - 1
              ELSE IF to \in S
                   THEN Cardinality(With(c, S))' = Cardinality(With(c, S)) + 1
                   ELSE Cardinality(With(c, S))' = Cardinality(With(c, S))
    BY WithStep
  <1> QED BY <1>1, <1>2

\* A change that has no goroutine is within its limits.
LEMMA IdleRollout ==
  ASSUME NEW c \in Changes, NEW p \in Plan \cup {NoPlan}, NEW w, w = IdleWorkers
  PROVE  /\ \A S : "idle" \notin S => Cardinality({d \in Devices : w[d] \in S}) = 0
         /\ 0 <= p.conc /\ 0 + 0 <= p.maxFail + p.conc
  <1>1. ASSUME NEW S, "idle" \notin S PROVE {d \in Devices : w[d] \in S} = {} BY <1>1 DEF IdleWorkers
  <1>2. p.conc \in 1..50 /\ p.maxFail \in Nat BY DEF Plan, NoPlan
  <1> QED BY <1>1, <1>2, FS_EmptySet

\* So is one whose goroutines a step ends, or that a step creates or starts.
LEMMA ResetRollout ==
  ASSUME NEW c \in Changes, TypeOK', wpc'[c] = IdleWorkers, failures'[c] = 0, epc'[c] \in {"none", "load"}
  PROVE  Gated(c)' /\ Bounded(c)'
  <1>1. plan'[c] \in Plan \cup {NoPlan} BY DEF TypeOK
  <1>2. Cardinality(With(c, {"failed"}))' = 0 /\ Cardinality(With(c, LivePcs))' = 0
        /\ Cardinality(With(c, LivePcs \cup {"launched"}))' = 0
    <2>1. \A S : "idle" \notin S => Cardinality({d \in Devices : wpc'[c][d] \in S}) = 0 BY <1>1, IdleRollout
    <2>2. "idle" \notin {"failed"} /\ "idle" \notin LivePcs /\ "idle" \notin LivePcs \cup {"launched"} BY DEF LivePcs
    <2> QED BY <2>1, <2>2, Zenon DEF With
  <1>3. 0 <= plan'[c].conc /\ 0 + 0 <= plan'[c].maxFail + plan'[c].conc BY <1>1, IdleRollout
  <1>4. Bounded(c)' BY <1>2, <1>3 DEF Bounded
  <1>5. \A d \in Devices : wpc'[c][d] = "idle" BY DEF IdleWorkers
  <1>6. canaries'[c] \subseteq Devices BY DEF TypeOK
  <1>7. Gated(c)' BY <1>5, <1>6 DEF Gated
  <1> QED BY <1>4, <1>7

\* Nor does a step that leaves a rollout alone disturb it.
LEMMA AsideRollout ==
  ASSUME Rollout, NEW c \in Changes,
         epc'[c] = epc[c], wpc'[c] = wpc[c], todo'[c] = todo[c], canaries'[c] = canaries[c],
         failures'[c] = failures[c], plan'[c] = plan[c], c \in cancel => c \in cancel'
  PROVE  Gated(c)' /\ Bounded(c)'
  <1>1. With(c, {"failed"})' = With(c, {"failed"}) /\ With(c, LivePcs)' = With(c, LivePcs)
        /\ With(c, LivePcs \cup {"launched"})' = With(c, LivePcs \cup {"launched"})
    BY DEF With
  <1>2. Bounded(c)' BY <1>1 DEF Rollout, Bounded
  <1>3. Gated(c)' BY DEF Rollout, Gated, AllSucceeded
  <1> QED BY <1>2, <1>3

\* Whoever has no goroutine has counted no failure.
LEMMA IdleCount ==
  ASSUME TypeOK, Rollout, NEW c \in Changes, wpc[c] = IdleWorkers PROVE failures[c] = 0
  <1>1. plan[c] \in Plan \cup {NoPlan} BY DEF TypeOK
  <1>2. \A S : "idle" \notin S => Cardinality({d \in Devices : wpc[c][d] \in S}) = 0 BY <1>1, IdleRollout
  <1>3. "idle" \notin {"failed"} OBVIOUS
  <1> QED BY <1>2, <1>3, Zenon DEF Rollout, Bounded, With

\* A step that moves no executor leaves every rollout alone.
LEMMA QuietRollout ==
  ASSUME Rollout, UNCHANGED <<epc, wpc, todo, canaries, failures, plan>>, cancel \subseteq cancel' PROVE Rollout'
  BY AsideRollout DEF Rollout

\* The panel: a change that is created has no goroutine.
LEMMA PanelRollout ==
  ASSUME TypeOK, TypeOK', LockDiscipline, TargetsFresh, Rollout, NEW c \in Changes, Panel(c) \/ ReachRunAt(c)
  PROVE  Rollout'
  <1> USE DEF dbVars, timeVars, apiVars, schedVars, execVars
  <1>1. ASSUME NEW u \in Users, NEW p \in Plans, Create(c, u, p) PROVE Rollout'
    <2>1. UNCHANGED <<epc, wpc, todo, canaries, failures, cancel>> /\ \A b \in Changes \ {c} : plan'[b] = plan[b]
      BY <1>1 DEF Create, TypeOK
    <2>2. epc[c] = "none" BY <1>1 DEF Create, LockDiscipline, StatusAgrees, At
    <2>3. wpc[c] = IdleWorkers /\ failures[c] = 0 BY <2>2, IdleCount DEF TargetsFresh, Fresh
    <2>4. Gated(c)' /\ Bounded(c)' BY <2>1, <2>2, <2>3, ResetRollout
    <2>5. ASSUME NEW b \in Changes \ {c} PROVE Gated(b)' /\ Bounded(b)' BY <2>1, AsideRollout
    <2> QED BY <2>4, <2>5 DEF Rollout
  <1>2. CASE Submit(c) \/ CancelPlanned(c) \/ CancelObserve(c) \/ CancelFlag(c) \/ RunNow(c) \/ ReachRunAt(c)
    BY <1>2, QuietRollout DEF Submit, CancelPlanned, CancelObserve, CancelFlag, RunNow, ReachRunAt, StatusOnly
  <1>3. ASSUME NEW u \in Users, NEW approve \in BOOLEAN, Decide(c, u, approve) PROVE Rollout'
    BY <1>3, QuietRollout DEF Decide
  <1> QED BY <1>1, <1>2, <1>3 DEF Panel

\* The scheduler starts a change without goroutines; a crash ends them all.
LEMMA SchedulerRollout ==
  ASSUME TypeOK, TypeOK', LockDiscipline, TargetsFresh, Rollout,
         \/ Scheduler \/ Crash \/ UNCHANGED vars
         \/ \E d \in Devices : DeleteDevice(d) \/ ToggleWindow(d)
  PROVE  Rollout'
  <1> USE DEF dbVars, timeVars, apiVars, schedVars, execVars
  <1>1. ASSUME \/ RecoverTargets \/ RecoverPending \/ RecoverChanges \/ TickList \/ TickAbort \/ UNCHANGED vars
               \/ \E c \in Changes : TickLock(c) \/ TickSkip(c) \/ TickLost(c) \/ TickStartFault(c)
               \/ \E d \in Devices : DeleteDevice(d) \/ ToggleWindow(d)
        PROVE  Rollout'
    <2>1. UNCHANGED <<epc, wpc, todo, canaries, failures, plan, cancel>>
      BY <1>1 DEF RecoverTargets, RecoverPending, RecoverChanges, TickList, TickAbort, TickLock, TickSkip,
         TickLost, TickStartFault, DeleteDevice, ToggleWindow, vars
    <2> QED BY <2>1, QuietRollout
  <1>2. ASSUME NEW c \in Changes, TickStart(c) PROVE Rollout'
    <2>1. UNCHANGED <<wpc, todo, canaries, failures, plan, cancel>> /\ epc' = [epc EXCEPT ![c] = "load"]
      BY <1>2 DEF TickStart
    <2>2. epc[c] = "none" BY <1>2 DEF TickStart, Oldest, LockDiscipline, StatusAgrees, At
    <2>3. wpc[c] = IdleWorkers /\ failures[c] = 0 BY <2>2, IdleCount DEF TargetsFresh, Fresh
    <2>4. Gated(c)' /\ Bounded(c)' BY <2>1, <2>3, ResetRollout DEF TypeOK
    <2>5. ASSUME NEW b \in Changes \ {c} PROVE Gated(b)' /\ Bounded(b)'
      <3>1. epc'[b] = epc[b] BY <2>1 DEF TypeOK
      <3> QED BY <2>1, <3>1, AsideRollout
    <2> QED BY <2>4, <2>5 DEF Rollout
  <1>3. CASE Crash
    BY <1>3, ResetRollout DEF Crash, Rollout
  <1> QED BY <1>1, <1>2, <1>3 DEF Scheduler

\* A step of execute c leaves the rollouts of the others alone.
LEMMA OthersRollout ==
  ASSUME Rollout, NEW c \in Changes, Gated(c)', Bounded(c)',
         \A b \in Changes \ {c} : /\ epc'[b] = epc[b] /\ wpc'[b] = wpc[b] /\ todo'[b] = todo[b]
                                  /\ canaries'[b] = canaries[b] /\ failures'[b] = failures[b]
                                  /\ plan'[b] = plan[b] /\ (b \in cancel => b \in cancel')
  PROVE  Rollout'
  BY AsideRollout DEF Rollout

\* The limits of a change hold as long as its goroutines stay where they are.
LEMMA SameBounds ==
  ASSUME Rollout, NEW c \in Changes, wpc'[c] = wpc[c], failures'[c] = failures[c], plan'[c] = plan[c]
  PROVE  Bounded(c)'
  <1>1. With(c, {"failed"})' = With(c, {"failed"}) /\ With(c, LivePcs)' = With(c, LivePcs)
        /\ With(c, LivePcs \cup {"launched"})' = With(c, LivePcs \cup {"launched"})
    BY DEF With
  <1> QED BY <1>1 DEF Rollout, Bounded

\* execute starts canaries one by one, and the others only when every canary
\* succeeded; stop() and the semaphore come before each start.
LEMMA ExecuteRollout ==
  ASSUME TypeOK, TypeOK', LockDiscipline, TargetsFresh, Rollout, NEW c \in Changes, Execute(c) PROVE Rollout'
  <1> USE DEF dbVars, timeVars, apiVars, schedVars, execVars, At, Goto, ExecOnly
  <1> DEFINE Others == \A b \in Changes \ {c} :
                          /\ epc'[b] = epc[b] /\ wpc'[b] = wpc[b] /\ todo'[b] = todo[b]
                          /\ canaries'[b] = canaries[b] /\ failures'[b] = failures[b]
                          /\ plan'[b] = plan[b] /\ (b \in cancel => b \in cancel')
  <1>0. canaries[c] \subseteq Devices /\ failures[c] \in Nat /\ \A d \in Devices : wpc[c][d] \in WorkerPcs
    BY DEF TypeOK
  <1>1. CASE ExecLoad(c)
    <2>1. Others BY <1>1 DEF ExecLoad, TypeOK
    <2>2. /\ UNCHANGED <<wpc, plan>> /\ epc'[c] = "canary" /\ todo'[c] = TargetDevices(c) /\ failures'[c] = 0
          /\ canaries'[c] = CanariesOf(c, TargetDevices(c))
      BY <1>1 DEF ExecLoad, TypeOK
    <2>3. wpc[c] = IdleWorkers BY <1>1 DEF ExecLoad, TargetsFresh, Fresh
    <2>4. failures[c] = 0 BY <2>3, IdleCount
    <2>5. Bounded(c)' BY <2>2, <2>4, SameBounds
    <2>6. canaries'[c] \subseteq todo'[c] BY <2>2 DEF CanariesOf
    <2>7. \A d \in Devices : wpc'[c][d] = "idle" BY <2>2, <2>3 DEF IdleWorkers
    <2>8. todo'[c] \subseteq Devices BY <2>2 DEF TargetDevices
    <2>9. Gated(c)' BY <2>2, <2>6, <2>7, <2>8 DEF Gated
    <2> QED BY <2>1, <2>5, <2>9, OthersRollout
  <1>2. CASE ExecLoadFault(c) \/ ExecWait(c) \/ ExecSkip(c) \/ ExecTally(c) \/ ExecDecide(c) \/ ExecClear(c) \/ ExecFinish(c)
    <2>1. /\ UNCHANGED <<wpc, plan, todo, canaries, failures>> /\ cancel \ {c} \subseteq cancel'
          /\ \E pc \in {"unlock", "skip", "tally", "decide", "clear", "finish"} : epc' = [epc EXCEPT ![c] = pc]
      BY <1>2 DEF ExecLoadFault, ExecWait, ExecSkip, ExecTally, ExecDecide, ExecClear, ExecFinish
    <2>2. Others BY <2>1 DEF TypeOK
    <2>3. Bounded(c)' BY <2>1, SameBounds
    <2>4. epc'[c] \notin {"canary", "fan", "acquire"} BY <2>1 DEF TypeOK
    <2>5. Gated(c)' BY <2>1, <2>4 DEF Rollout, Gated, AllSucceeded
    <2> QED BY <2>2, <2>3, <2>5, OthersRollout
  <1>3. CASE CanaryEnd(c)
    <2>1. Others BY <1>3 DEF CanaryEnd, TypeOK
    <2>2. /\ UNCHANGED <<wpc, plan, canaries, failures, cancel>> /\ epc[c] = "canary" /\ InFlight(c) = {}
          /\ todo'[c] = todo[c] \ canaries[c] /\ epc'[c] = AfterCanaries(c)
          /\ Stop(c) \/ todo[c] \cap canaries[c] = {}
      BY <1>3 DEF CanaryEnd, TypeOK
    <2>3. Bounded(c)' BY <2>2, SameBounds
    <2>4. failures[c] = 0 => AllSucceeded(c) \/ c \in cancel
      <3> SUFFICES ASSUME failures[c] = 0, c \notin cancel PROVE AllSucceeded(c) OBVIOUS
      <3>1. ~Stop(c) BY Limits DEF Stop
      <3>2. \A d \in canaries[c] : wpc[c][d] # "idle" BY <2>2, <3>1 DEF Rollout, Gated
      <3>3. \A d \in canaries[c] : wpc[c][d] \in {"idle", "succeeded", "failed", "stopped"}
        BY <1>0, <2>2 DEF InFlight
      <3>4. \A d \in canaries[c] : wpc[c][d] \notin {"failed", "stopped"} BY <1>0 DEF Rollout, Gated
      <3> QED BY <3>2, <3>3, <3>4 DEF AllSucceeded
    <2>5. Gated(c)'
      <3>1. epc'[c] \in {"skip", "fan"} /\ (epc'[c] = "fan" => failures[c] = 0)
        BY <1>0, <2>2 DEF AfterCanaries
      <3>2. AllSucceeded(c)' <=> AllSucceeded(c) BY <2>2 DEF AllSucceeded
      <3> QED BY <2>2, <2>4, <3>1, <3>2 DEF Rollout, Gated
    <2> QED BY <2>1, <2>3, <2>5, OthersRollout
  <1>4. CASE FanCheck(c)
    <2>1. Others BY <1>4 DEF FanCheck, TypeOK
    <2>2. /\ UNCHANGED <<wpc, plan, canaries, failures, cancel, todo>> /\ epc[c] = "fan"
          /\ epc'[c] \in {"wait", "acquire"} /\ (epc'[c] = "acquire" => ~Stop(c))
      BY <1>4 DEF FanCheck, TypeOK
    <2>3. Bounded(c)' BY <2>2, SameBounds
    <2>4. AllSucceeded(c)' <=> AllSucceeded(c) BY <2>2 DEF AllSucceeded
    <2>5. Gated(c)' BY <2>2, <2>4 DEF Rollout, Gated, Stop
    <2> QED BY <2>1, <2>3, <2>5, OthersRollout
  <1>5. ASSUME NEW d \in Devices, CanaryRun(c, d) PROVE Rollout'
    <2>1. Others BY <1>5 DEF CanaryRun, TypeOK
    <2>2. /\ UNCHANGED <<plan, canaries, failures, cancel, epc>> /\ epc[c] = "canary" /\ InFlight(c) = {} /\ ~Stop(c)
          /\ d \in todo[c] \cap canaries[c] /\ todo'[c] = todo[c] \ {d} /\ wpc' = [wpc EXCEPT ![c][d] = "cleared"]
      BY <1>5 DEF CanaryRun, First, TypeOK
    <2>3. wpc[c][d] = "idle" BY <2>2 DEF TargetsFresh, Fresh
    <2>4. \A e \in Devices : wpc'[c][e] = IF e = d THEN "cleared" ELSE wpc[c][e] BY <2>2 DEF TypeOK
    <2>5. Bounded(c)'
      <3>1. Cardinality(With(c, {"failed"}))' = Cardinality(With(c, {"failed"})) BY <2>2, <2>3, CountStep DEF LivePcs
      <3>2. Cardinality(With(c, LivePcs))' = Cardinality(With(c, LivePcs)) + 1 BY <2>2, <2>3, CountStep DEF LivePcs
      <3>3. Cardinality(With(c, LivePcs \cup {"launched"}))' = Cardinality(With(c, LivePcs \cup {"launched"})) + 1
        BY <2>2, <2>3, CountStep DEF LivePcs
      <3>4. Cardinality(With(c, LivePcs \cup {"launched"})) = 0 /\ Cardinality(With(c, LivePcs)) = 0
        <4>1. With(c, LivePcs \cup {"launched"}) = {} /\ With(c, LivePcs) = {} BY <2>2, Limits DEF With
        <4> QED BY <4>1, FS_EmptySet
      <3>5. failures[c] <= plan[c].maxFail BY <1>0, <2>2, Limits DEF Stop
      <3>6. plan[c].conc \in Nat /\ plan[c].conc >= 1 /\ plan[c].maxFail \in Nat BY Limits
      <3>7. Bounded(c) BY DEF Rollout
      <3> QED BY <1>0, <2>2, <3>1, <3>2, <3>3, <3>4, <3>5, <3>6, <3>7 DEF Bounded
    <2>6. Gated(c)' BY <1>0, <2>2, <2>4 DEF Rollout, Gated
    <2> QED BY <2>1, <2>5, <2>6, OthersRollout
  <1>6. ASSUME NEW d \in Devices, FanLaunch(c, d) PROVE Rollout'
    <2>1. Others BY <1>6 DEF FanLaunch, TypeOK
    <2>2. /\ UNCHANGED <<plan, canaries, failures, cancel>> /\ epc[c] = "acquire" /\ epc'[c] = "fan"
          /\ Cardinality(InFlight(c)) < plan[c].conc
          /\ d \in todo[c] /\ todo'[c] = todo[c] \ {d} /\ wpc' = [wpc EXCEPT ![c][d] = "launched"]
      BY <1>6 DEF FanLaunch, First, TypeOK
    <2>3. wpc[c][d] = "idle" BY <2>2 DEF TargetsFresh, Fresh
    <2>4. \A e \in Devices : wpc'[c][e] = IF e = d THEN "launched" ELSE wpc[c][e] BY <2>2 DEF TypeOK
    <2>5. Bounded(c)'
      <3>1. Cardinality(With(c, {"failed"}))' = Cardinality(With(c, {"failed"}))
        <4>1. wpc[c][d] # "failed" => IF "launched" = "failed"
                THEN Cardinality(With(c, {"failed"}))' = Cardinality(With(c, {"failed"})) + 1
                ELSE Cardinality(With(c, {"failed"}))' = Cardinality(With(c, {"failed"}))
          BY <2>2, CountStep, Zenon
        <4> QED BY <2>3, <4>1
      <3>2. Cardinality(With(c, LivePcs))' = Cardinality(With(c, LivePcs)) BY <2>2, <2>3, CountStep DEF LivePcs
      <3>3. Cardinality(With(c, LivePcs \cup {"launched"}))' = Cardinality(With(c, LivePcs \cup {"launched"})) + 1
        BY <2>2, <2>3, CountStep DEF LivePcs
      <3>4. Cardinality(With(c, LivePcs \cup {"launched"})) \in Nat BY WithFinite
      <3>5. plan[c].conc \in Nat /\ Cardinality(With(c, LivePcs \cup {"launched"})) < plan[c].conc BY <2>2, Limits
      <3>6. Bounded(c) BY DEF Rollout
      <3> QED BY <2>2, <3>1, <3>2, <3>3, <3>4, <3>5, <3>6 DEF Bounded
    <2>6. d \notin canaries[c] BY <2>2 DEF Rollout, Gated
    <2>7. AllSucceeded(c) BY <2>2 DEF Rollout, Gated
    <2>8. AllSucceeded(c)' BY <1>0, <2>2, <2>4, <2>6, <2>7 DEF AllSucceeded
    <2>9. Gated(c)' BY <1>0, <2>2, <2>4, <2>6, <2>8 DEF Rollout, Gated
    <2> QED BY <2>1, <2>5, <2>9, OthersRollout
  <1>7. CASE ExecUnlock(c)
    <2>1. Others BY <1>7 DEF ExecUnlock, Unlock, TypeOK
    <2>2. wpc'[c] = IdleWorkers /\ failures'[c] = 0 /\ epc'[c] = "none" BY <1>7 DEF ExecUnlock, TypeOK
    <2>3. Gated(c)' /\ Bounded(c)' BY <2>2, ResetRollout
    <2> QED BY <2>1, <2>3, OthersRollout
  <1> QED BY <1>1, <1>2, <1>3, <1>4, <1>5, <1>6, <1>7 DEF Execute

\* runTarget: past stop() a goroutine is counted as live until it is counted
\* as a failure or has succeeded, and what succeeded stays.
LEMMA RunTargetRollout ==
  ASSUME TypeOK, LockDiscipline, TargetsFresh, Rollout, NEW c \in Changes, NEW d \in Devices, RunTarget(c, d)
  PROVE  Rollout'
  <1> USE DEF dbVars, timeVars, apiVars, schedVars, execVars
  <1>1. UNCHANGED <<epc, todo, canaries, plan, cancel>>
    BY DEF RunTarget, WorkerStart, WorkerMark, WorkerMarkFault, WorkerCheck, WorkerBackup, WorkerApply,
       WorkerRecord, WorkerRecordFault, WorkerCount, WorkerOnly, TargetOnly
  <1>2. PICK to :
          /\ wpc' = [wpc EXCEPT ![c][d] = to]
          /\ \/ wpc[c][d] = "launched" /\ to = "stopped" /\ UNCHANGED failures
             \/ wpc[c][d] = "launched" /\ to = "cleared" /\ ~Stop(c) /\ UNCHANGED failures
             \/ wpc[c][d] \in LivePcs /\ to \in LivePcs \cup {"succeeded"} /\ UNCHANGED failures
             \/ wpc[c][d] = "uncounted" /\ to = "failed" /\ failures' = [failures EXCEPT ![c] = @ + 1]
    <2> USE DEF LivePcs
    <2>1. CASE WorkerStart(c, d) BY <2>1 DEF WorkerStart, WorkerOnly, Step
    <2>2. CASE WorkerMark(c, d) BY <2>2 DEF WorkerMark, TargetOnly, Step
    <2>3. CASE WorkerMarkFault(c, d) BY <2>3 DEF WorkerMarkFault, TargetOnly, Step
    <2>4. CASE WorkerCheck(c, d)
      <3>1. UNCHANGED failures BY <2>4 DEF WorkerCheck, WorkerOnly
      <3>2. CASE Step(c, d, "marked", "err") BY <3>1, <3>2 DEF Step
      <3>3. CASE Step(c, d, "marked", "backup") BY <3>1, <3>3 DEF Step
      <3>4. CASE Step(c, d, "marked", "apply") BY <3>1, <3>4 DEF Step
      <3> QED BY <2>4, <3>2, <3>3, <3>4 DEF WorkerCheck
    <2>5. CASE WorkerBackup(c, d) BY <2>5 DEF WorkerBackup, WorkerOnly, Step
    <2>6. CASE WorkerApply(c, d) BY <2>6 DEF WorkerApply, WorkerOnly, Step
    <2>7. CASE WorkerRecord(c, d) BY <2>7 DEF WorkerRecord, TargetOnly, Step
    <2>8. CASE WorkerRecordFault(c, d) BY <2>8 DEF WorkerRecordFault, WorkerOnly, Step
    <2>9. CASE WorkerCount(c, d) BY <2>9 DEF WorkerCount, Step
    <2> QED BY <2>1, <2>2, <2>3, <2>4, <2>5, <2>6, <2>7, <2>8, <2>9 DEF RunTarget
  <1>3. /\ canaries[c] \subseteq Devices /\ failures[c] \in Nat /\ failures'[c] \in Nat
        /\ failures'[c] >= failures[c] /\ \A b \in Changes \ {c} : failures'[b] = failures[b]
    BY <1>2 DEF TypeOK
  <1>4. /\ \A e \in Devices : wpc'[c][e] = IF e = d THEN to ELSE wpc[c][e]
        /\ \A b \in Changes \ {c} : wpc'[b] = wpc[b]
    BY <1>2 DEF TypeOK
  <1>5. wpc[c][d] \notin {"idle", "succeeded", "failed", "stopped"} /\ to \notin {"idle", "launched"}
    BY <1>2 DEF LivePcs
  <1>6. Gated(c)'
    <2>1. AllSucceeded(c) => AllSucceeded(c)' BY <1>1, <1>3, <1>4, <1>5 DEF AllSucceeded
    <2>2. to = "failed" => failures'[c] > 0 BY <1>2, <1>3, <1>5 DEF LivePcs, TypeOK
    <2>3. d \in canaries[c] => to \notin {"launched", "stopped"}
      BY <1>2 DEF Rollout, Gated, LivePcs
    <2> QED BY <1>1, <1>3, <1>4, <1>5, <2>1, <2>2, <2>3 DEF Rollout, Gated
  <1>7. Bounded(c)'
    <2>1. Bounded(c) BY DEF Rollout
    <2>2. plan[c].conc \in Nat /\ plan[c].maxFail \in Nat BY Limits
    <2>3. /\ Cardinality(With(c, {"failed"})) \in Nat /\ Cardinality(With(c, LivePcs)) \in Nat
          /\ Cardinality(With(c, LivePcs \cup {"launched"})) \in Nat
      BY WithFinite
    <2>4. Cardinality(With(c, {"failed"}))' = IF to = "failed" THEN Cardinality(With(c, {"failed"})) + 1
                                                             ELSE Cardinality(With(c, {"failed"}))
      BY <1>2, <1>5, CountStep
    <2> DEFINE Busy == LivePcs \cup {"launched"}
    <2>0. ASSUME NEW S, wpc[c][d] \in S
          PROVE  Cardinality(With(c, S))' \in {Cardinality(With(c, S)), Cardinality(With(c, S)) - 1}
      BY <1>2, <2>0, WithStep
    <2>5. Cardinality(With(c, Busy))' \in {Cardinality(With(c, Busy)), Cardinality(With(c, Busy)) - 1}
      <3>1. wpc[c][d] \in Busy BY <1>2 DEF LivePcs
      <3> HIDE DEF Busy
      <3> QED BY <2>0, <3>1
    <2>6. CASE wpc[c][d] = "launched" /\ to = "stopped" /\ UNCHANGED failures
      <3>1. Cardinality(With(c, LivePcs))' = Cardinality(With(c, LivePcs)) BY <1>2, <2>6, CountStep DEF LivePcs
      <3> QED BY <1>1, <2>1, <2>2, <2>3, <2>4, <2>5, <2>6, <3>1 DEF Bounded
    <2>7. CASE wpc[c][d] = "launched" /\ to = "cleared" /\ ~Stop(c) /\ UNCHANGED failures
      <3>1. Cardinality(With(c, LivePcs))' <= Cardinality(With(c, LivePcs \cup {"launched"}))'
        <4>1. With(c, LivePcs \cup {"launched"})' \in SUBSET Devices
              /\ With(c, LivePcs)' \in SUBSET With(c, LivePcs \cup {"launched"})'
          BY DEF With
        <4>2. IsFiniteSet(With(c, LivePcs \cup {"launched"})') BY <4>1, ConstantsOK, FS_Subset DEF ConstantsOK
        <4> QED BY <4>1, <4>2, FS_Subset
      <3>2. Cardinality(With(c, LivePcs))' = Cardinality(With(c, LivePcs)) + 1 BY <1>2, <2>7, CountStep DEF LivePcs
      <3>3. failures[c] <= plan[c].maxFail BY <1>3, <2>2, <2>7 DEF Stop
      <3>4. Cardinality(With(c, LivePcs \cup {"launched"}))' = Cardinality(With(c, LivePcs \cup {"launched"}))
        BY <1>2, <2>7, CountStep DEF LivePcs
      <3> QED BY <1>1, <1>3, <2>1, <2>2, <2>3, <2>4, <2>5, <2>7, <3>1, <3>2, <3>3, <3>4 DEF Bounded
    <2>8. CASE wpc[c][d] \in LivePcs /\ to \in LivePcs \cup {"succeeded"} /\ UNCHANGED failures
      <3>1. Cardinality(With(c, LivePcs))' \in {Cardinality(With(c, LivePcs)), Cardinality(With(c, LivePcs)) - 1}
        BY <2>0, <2>8
      <3>2. to # "failed" BY <2>8 DEF LivePcs
      <3> QED BY <1>1, <1>3, <2>1, <2>2, <2>3, <2>4, <2>5, <2>8, <3>1, <3>2 DEF Bounded
    <2>9. CASE wpc[c][d] = "uncounted" /\ to = "failed" /\ failures' = [failures EXCEPT ![c] = @ + 1]
      <3>1. Cardinality(With(c, LivePcs))' = Cardinality(With(c, LivePcs)) - 1
        BY <1>2, <2>9, CountStep DEF LivePcs
      <3>2. failures'[c] = failures[c] + 1 BY <2>9 DEF TypeOK
      <3> QED BY <1>1, <1>3, <2>1, <2>2, <2>3, <2>4, <2>5, <2>9, <3>1, <3>2 DEF Bounded
    <2> QED BY <1>2, <2>6, <2>7, <2>8, <2>9
  <1> QED BY <1>1, <1>3, <1>4, <1>6, <1>7, OthersRollout

\* Every rollout is gated and bounded in every state.
LEMMA RolloutAlways == Spec => []Rollout
  <1>1. Init => Rollout
    <2> SUFFICES ASSUME Init, NEW c \in Changes PROVE Gated(c) /\ Bounded(c) BY DEF Rollout
    <2>1. /\ wpc[c] = IdleWorkers /\ failures[c] = 0 /\ epc[c] = "none" /\ canaries[c] = {}
          /\ plan[c] = NoPlan
      BY DEF Init
    <2>2. plan[c] \in Plan \cup {NoPlan} BY <2>1
    <2>3. 0 <= plan[c].conc /\ 0 + 0 <= plan[c].maxFail + plan[c].conc BY <2>1, <2>2, IdleRollout
    <2>4. \A S : "idle" \notin S => Cardinality({d \in Devices : wpc[c][d] \in S}) = 0 BY <2>1, <2>2, IdleRollout
    <2>5. "idle" \notin {"failed"} /\ "idle" \notin LivePcs /\ "idle" \notin LivePcs \cup {"launched"} BY DEF LivePcs
    <2>6. Cardinality(With(c, {"failed"})) = 0 /\ Cardinality(With(c, LivePcs)) = 0
          /\ Cardinality(With(c, LivePcs \cup {"launched"})) = 0
      BY <2>4, <2>5, Zenon DEF With
    <2>7. Bounded(c) BY <2>1, <2>3, <2>6 DEF Bounded
    <2>8. \A d \in Devices : wpc[c][d] = "idle" BY <2>1 DEF IdleWorkers
    <2>9. Gated(c) BY <2>1, <2>8 DEF Gated
    <2> QED BY <2>7, <2>9
  <1>2. TypeOK /\ TypeOK' /\ LockDiscipline /\ TargetsFresh /\ Rollout /\ [Next]_vars => Rollout'
    <2> SUFFICES ASSUME TypeOK, TypeOK', LockDiscipline, TargetsFresh, Rollout, [Next]_vars PROVE Rollout'
      OBVIOUS
    <2> QED BY PanelRollout, SchedulerRollout, ExecuteRollout, RunTargetRollout DEF Next
  <1> QED BY <1>1, <1>2, TypeCorrect, LocksAreConsistent, FreshAlways, PTL DEF Spec

\* A rollout stops in time, whatever statement fails and wherever a cancel
\* falls: no target after the canaries is worked on unless every canary
\* succeeded, and at most max_failures plus concurrency targets fail.
THEOREM RolloutsAreGated == Spec => []RolloutIsGated
  <1>1. TypeOK /\ Rollout => RolloutIsGated
    <2> SUFFICES ASSUME TypeOK, Rollout PROVE RolloutIsGated OBVIOUS
    <2>1. CanaryGate
      BY DEF Rollout, Gated, AllSucceeded, CanaryGate
    <2>2. FailureBound
      <3> SUFFICES ASSUME NEW c \in Changes
                   PROVE  Cardinality({d \in Devices : wpc[c][d] \in {"err", "uncounted", "failed"}})
                            <= plan[c].maxFail + plan[c].conc
        BY DEF FailureBound
      <3> DEFINE Bad == {d \in Devices : wpc[c][d] \in {"err", "uncounted", "failed"}}
                 F == With(c, {"failed"})
                 W == With(c, LivePcs)
      <3>1. IsFiniteSet(F) /\ Cardinality(F) \in Nat /\ IsFiniteSet(W) /\ Cardinality(W) \in Nat BY WithFinite
      <3>2. Bad \in SUBSET (F \cup W) /\ F \cap W = {} BY DEF With, LivePcs
      <3>3. IsFiniteSet(F \cup W) /\ Cardinality(F \cup W) = Cardinality(F) + Cardinality(W) - Cardinality(F \cap W)
        <4> HIDE DEF F, W
        <4> QED BY <3>1, FS_Union
      <3>4. Cardinality(F \cup W) = Cardinality(F) + Cardinality(W)
        <4>1. Cardinality(F \cap W) = 0 BY <3>2, FS_EmptySet
        <4> HIDE DEF F, W
        <4> QED BY <3>1, <3>3, <4>1
      <3>5. IsFiniteSet(Bad) /\ Cardinality(Bad) <= Cardinality(F \cup W)
        <4> HIDE DEF F, W, Bad
        <4> QED BY <3>2, <3>3, FS_Subset
      <3>6. Cardinality(Bad) \in Nat BY <3>5, FS_CardinalityType
      <3>7. Cardinality(F) + Cardinality(W) <= plan[c].maxFail + plan[c].conc BY DEF Rollout, Bounded
      <3>8. plan[c].maxFail \in Nat /\ plan[c].conc \in Nat BY Limits
      <3> HIDE DEF F, W, Bad
      <3>9. Cardinality(Bad) <= plan[c].maxFail + plan[c].conc BY <3>1, <3>4, <3>5, <3>6, <3>7, <3>8
      <3> QED BY <3>9 DEF Bad
    <2> QED BY <2>1, <2>2 DEF RolloutIsGated
  <1> QED BY <1>1, TypeCorrect, RolloutAlways, PTL

-----------------------------------------------------------------------------
(* The workflow implements ChangeLifecycle, when the database does not fail. *)

\* A target has a row only while its device has one (ON DELETE CASCADE).
RowsHaveDevices == \A c \in Changes, d \in Devices : d \notin devices => target[c][d] = "none"

\* No statement inserts a target but Create, which checks its devices.
LEMMA RowsAlways == Spec => []RowsHaveDevices
  <1>1. Init => RowsHaveDevices BY DEF Init, RowsHaveDevices
  <1>2. TypeOK /\ RowsHaveDevices /\ [Next]_vars => RowsHaveDevices'
    <2> SUFFICES ASSUME TypeOK, RowsHaveDevices, [Next]_vars PROVE RowsHaveDevices' OBVIOUS
    <2> USE DEF dbVars, timeVars, apiVars, schedVars, execVars
    <2>0. UNCHANGED <<devices, target>> => RowsHaveDevices' BY DEF RowsHaveDevices
    <2>1. ASSUME NEW c \in Changes, Panel(c) \/ ReachRunAt(c) PROVE RowsHaveDevices'
      <3>1. ASSUME NEW u \in Users, NEW p \in Plans, Create(c, u, p) PROVE RowsHaveDevices'
        <4>1. /\ UNCHANGED devices /\ PlanDevs(p) \subseteq devices
              /\ \A d \in Devices : target'[c][d] = IF d \in PlanDevs(p) THEN "pending" ELSE "none"
              /\ \A b \in Changes \ {c} : target'[b] = target[b]
          BY <3>1 DEF Create, TypeOK
        <4> QED BY <4>1 DEF RowsHaveDevices
      <3>2. CASE CancelPlanned(c)
        <4>1. UNCHANGED devices /\ target'[c] = SkipPending(c) /\ \A b \in Changes \ {c} : target'[b] = target[b]
          BY <3>2 DEF CancelPlanned, TypeOK
        <4> QED BY <4>1 DEF RowsHaveDevices, SkipPending
      <3>3. CASE Submit(c) \/ CancelObserve(c) \/ CancelFlag(c) \/ RunNow(c) \/ ReachRunAt(c)
        BY <2>0, <3>3 DEF Submit, StatusOnly, CancelObserve, CancelFlag, RunNow, ReachRunAt
      <3>4. ASSUME NEW u \in Users, NEW approve \in BOOLEAN, Decide(c, u, approve) PROVE RowsHaveDevices'
        BY <2>0, <3>4 DEF Decide
      <3> QED BY <2>1, <3>1, <3>2, <3>3, <3>4 DEF Panel
    <2>2. ASSUME NEW d \in Devices, DeleteDevice(d) \/ ToggleWindow(d) PROVE RowsHaveDevices'
      BY <2>2 DEF DeleteDevice, ToggleWindow, RowsHaveDevices, TypeOK
    <2>3. CASE Scheduler
      <3>1. UNCHANGED devices /\ \A c \in Changes, d \in Devices : target[c][d] = "none" => target'[c][d] = "none"
        <4>1. CASE RecoverTargets \/ RecoverPending
          <5>1. UNCHANGED devices BY <4>1 DEF RecoverTargets, RecoverPending
          <5>2. \A c \in Changes : target'[c] \in {target[c], Interrupt(c), SkipPending(c)}
            BY <4>1 DEF RecoverTargets, RecoverPending, TypeOK
          <5>3. ASSUME NEW c \in Changes, NEW d \in Devices, target[c][d] = "none" PROVE target'[c][d] = "none"
            BY <5>2, <5>3 DEF Interrupt, SkipPending
          <5> QED BY <5>1, <5>3
        <4>2. CASE ~(RecoverTargets \/ RecoverPending)
          <5>1. UNCHANGED <<devices, target>>
            BY <2>3, <4>2 DEF Scheduler, RecoverChanges, TickList, TickAbort, TickLock, TickSkip, TickStart, TickLost,
               TickStartFault
          <5> QED BY <5>1
        <4> QED BY <4>1, <4>2
      <3> QED BY <3>1 DEF RowsHaveDevices
    <2>4. ASSUME NEW c \in Changes, Execute(c) PROVE RowsHaveDevices'
      <3>1. CASE ExecSkip(c)
        <4>1. UNCHANGED devices /\ (UNCHANGED target \/ target' = [target EXCEPT ![c] = SkipPending(c)])
          BY <3>1 DEF ExecSkip
        <4>2. target' = [target EXCEPT ![c] = SkipPending(c)]
              => target'[c] = SkipPending(c) /\ \A b \in Changes \ {c} : target'[b] = target[b]
          BY DEF TypeOK
        <4> QED BY <2>0, <4>1, <4>2 DEF RowsHaveDevices, SkipPending
      <3>2. CASE ~ExecSkip(c)
        BY <2>0, <2>4, <3>2 DEF Execute, ExecLoad, ExecLoadFault, CanaryRun, FanLaunch, CanaryEnd, FanCheck, ExecWait,
           ExecTally, ExecDecide, ExecClear, ExecFinish, ExecUnlock, ExecOnly
      <3> QED BY <3>1, <3>2
    <2>5. ASSUME NEW c \in Changes, NEW d \in Devices, RunTarget(c, d) PROVE RowsHaveDevices'
      <3>1. UNCHANGED devices /\ (UNCHANGED target \/ \E s : SetTarget(c, d, s))
        BY <2>5, Zenon DEF RunTarget, WorkerStart, WorkerMark, WorkerMarkFault, WorkerCheck, WorkerBackup,
           WorkerApply, WorkerRecord, WorkerRecordFault, WorkerCount, WorkerOnly, TargetOnly
      <3>2. ASSUME NEW s, SetTarget(c, d, s)
            PROVE  \A b \in Changes, e \in Devices : target[b][e] = "none" => target'[b][e] = "none"
        BY <3>2 DEF SetTarget, TypeOK
      <3> QED BY <2>0, <3>1, <3>2 DEF RowsHaveDevices
    <2>6. CASE Crash \/ UNCHANGED vars BY <2>0, <2>6 DEF Crash, vars
    <2> QED BY <2>1, <2>2, <2>3, <2>4, <2>5, <2>6 DEF Next
  <1> QED BY <1>1, <1>2, TypeCorrect, PTL DEF Spec

\* The lease of a device is the one change that holds it.
LEMMA LeaseIsHeld ==
  ASSUME NEW h, \A b, c \in Changes : b # c => h[b] \cap h[c] = {}
  PROVE  LET lease == [d \in Devices |-> IF \E c \in Changes : d \in h[c]
                                         THEN CHOOSE c \in Changes : d \in h[c] ELSE Free]
         IN  \A d \in Devices : /\ \A c \in Changes : d \in h[c] <=> lease[d] = c
                                /\ (\A c \in Changes : d \notin h[c]) <=> lease[d] = Free
  <1> DEFINE lease == [d \in Devices |-> IF \E c \in Changes : d \in h[c]
                                         THEN CHOOSE c \in Changes : d \in h[c] ELSE Free]
  <1> SUFFICES ASSUME NEW d \in Devices
               PROVE  /\ \A c \in Changes : d \in h[c] <=> lease[d] = c
                      /\ (\A c \in Changes : d \notin h[c]) <=> lease[d] = Free
    OBVIOUS
  <1>1. CASE \E c \in Changes : d \in h[c]
    <2>1. PICK c \in Changes : d \in h[c] BY <1>1
    <2>2. lease[d] = CHOOSE k \in Changes : d \in h[k] BY <1>1
    <2> DEFINE l == lease[d]
    <2>3. l \in Changes /\ d \in h[l] BY <2>1, <2>2
    <2> HIDE DEF l
    <2>4. \A b \in Changes : d \in h[b] <=> b = l BY <2>3
    <2>5. (\A b \in Changes : d \in h[b] <=> l = b) /\ ((\A b \in Changes : d \notin h[b]) <=> l = Free)
      BY <2>1, <2>3, <2>4, FreeOK
    <2> QED BY <2>5 DEF l
  <1>2. CASE ~\E c \in Changes : d \in h[c]
    BY <1>2, FreeOK
  <1> QED BY <1>1, <1>2

\* What does not change below does not change above.
LEMMA SameBars ==
  /\ UNCHANGED status => UNCHANGED phaseBar
  /\ UNCHANGED held => UNCHANGED leaseBar
  /\ UNCHANGED <<devices, target>> => UNCHANGED workBar
  <1>1. UNCHANGED status => UNCHANGED phaseBar BY DEF phaseBar
  <1>2. UNCHANGED held => UNCHANGED leaseBar BY Zenon DEF leaseBar
  <1>3. UNCHANGED <<devices, target>> => UNCHANGED workBar
    <2> SUFFICES ASSUME devices' = devices, target' = target PROVE workBar' = workBar OBVIOUS
    <2> QED BY DEF workBar, WorkOf
  <1> QED BY <1>1, <1>2, <1>3

\* What ChangeLifecycle calls the work of a change on a device.
Works == {"gone", "outside", "waiting", "going", "over"}

\* What the refinement mapping reads of the workers.
WorkReads ==
  /\ workBar \in [Changes -> [Devices -> Works]]
  /\ \A c \in Changes, d \in Devices :
        /\ workBar[c][d] = "gone" <=> d \notin devices
        /\ workBar[c][d] = "outside" <=> d \in devices /\ target[c][d] = "none"
        /\ workBar[c][d] = "waiting" <=> target[c][d] = "pending"
        /\ workBar[c][d] = "going" <=> target[c][d] = "running"
        /\ workBar[c][d] = "over" <=> target[c][d] \in {"succeeded", "failed", "skipped"}

\* What it reads of the locks.
LeaseReads ==
  /\ leaseBar \in [Devices -> Changes \cup {Free}]
  /\ \A d \in Devices : /\ \A c \in Changes : d \in held[c] <=> leaseBar[d] = c
                        /\ (\A c \in Changes : d \notin held[c]) <=> leaseBar[d] = Free

\* What it reads of the statuses.
PhaseReads ==
  /\ phaseBar \in [Changes -> {"open", "authorised", "active", "over"}]
  /\ \A c \in Changes : phaseBar[c] = PhaseOf(status[c])

\* How the three variables of ChangeLifecycle read the state below.
Reads == WorkReads /\ LeaseReads /\ PhaseReads

\* They read it so in every state the invariants allow.
LEMMA BarsRead == TypeOK /\ LockDiscipline /\ RowsHaveDevices => Reads
  <1> SUFFICES ASSUME TypeOK, LockDiscipline, RowsHaveDevices PROVE Reads OBVIOUS
  <1>1. WorkReads
    <2>1. \A c \in Changes, d \in Devices : target[c][d] \in TargetStatuses BY DEF TypeOK
    <2>2. \A c \in Changes, d \in Devices : workBar[c][d] = WorkOf(c, d) BY DEF workBar
    <2>3. ASSUME NEW c \in Changes, NEW d \in Devices
          PROVE  /\ WorkOf(c, d) \in Works
                 /\ WorkOf(c, d) = "gone" <=> d \notin devices
                 /\ WorkOf(c, d) = "outside" <=> d \in devices /\ target[c][d] = "none"
                 /\ WorkOf(c, d) = "waiting" <=> target[c][d] = "pending"
                 /\ WorkOf(c, d) = "going" <=> target[c][d] = "running"
                 /\ WorkOf(c, d) = "over" <=> target[c][d] \in {"succeeded", "failed", "skipped"}
      <3>1. CASE d \notin devices BY <3>1 DEF WorkOf, Works, RowsHaveDevices
      <3>2. CASE d \in devices
        <4>1. target[c][d] \in TargetStatuses BY <2>1
        <4>2. CASE target[c][d] \in {"none", "pending", "running"} BY <3>2, <4>2 DEF WorkOf, Works
        <4>3. CASE target[c][d] \in {"succeeded", "failed", "skipped"} BY <3>2, <4>3 DEF WorkOf, Works
        <4> QED BY <4>1, <4>2, <4>3 DEF TargetStatuses
      <3> QED BY <3>1, <3>2
    <2>4. workBar \in [Changes -> [Devices -> Works]] BY <2>3 DEF workBar
    <2> QED BY <2>2, <2>3, <2>4 DEF WorkReads
  <1>2. LeaseReads
    <2>1. \A b, c \in Changes : b # c => held[b] \cap held[c] = {} BY DEF LockDiscipline
    <2>2. \A d \in Devices : /\ \A c \in Changes : d \in held[c] <=> leaseBar[d] = c
                             /\ (\A c \in Changes : d \notin held[c]) <=> leaseBar[d] = Free
      BY <2>1, LeaseIsHeld, Zenon DEF leaseBar
    <2>3. \A d \in Devices : leaseBar[d] \in Changes \cup {Free} BY <2>2
    <2>4. leaseBar = [d \in Devices |-> leaseBar[d]] BY DEF leaseBar
    <2>5. leaseBar \in [Devices -> Changes \cup {Free}] BY <2>3, <2>4
    <2> QED BY <2>2, <2>5, Zenon DEF LeaseReads
  <1>3. PhaseReads
    <2>1. \A c \in Changes : PhaseOf(status[c]) \in {"open", "authorised", "active", "over"} BY DEF PhaseOf
    <2> QED BY <2>1 DEF PhaseReads, phaseBar
  <1> QED BY <1>1, <1>2, <1>3 DEF Reads

\* Also in the next one.
LEMMA BarsReadNext == TypeOK' /\ LockDiscipline' /\ RowsHaveDevices' => Reads'
  BY BarsRead, PTL

\* Two tables of works that agree everywhere are the same.
LEMMA SameWorks ==
  ASSUME NEW f \in [Changes -> [Devices -> Works]], NEW g \in [Changes -> [Devices -> Works]],
         \A c \in Changes, d \in Devices : f[c][d] = g[c][d]
  PROVE  f = g
  <1>1. \A c \in Changes : f[c] = g[c] OBVIOUS
  <1> QED BY <1>1

\* A change of one status is a change of one phase.
LEMMA PhaseStep ==
  ASSUME TypeOK, Reads, Reads', NEW c \in Changes, NEW s, status' = [status EXCEPT ![c] = s]
  PROVE  phaseBar' = [phaseBar EXCEPT ![c] = PhaseOf(s)]
  <1>1. status'[c] = s /\ \A b \in Changes \ {c} : status'[b] = status[b] BY DEF TypeOK
  <1>2. \A b \in Changes : phaseBar'[b] = IF b = c THEN PhaseOf(s) ELSE phaseBar[b]
    <2>1. \A b \in Changes : phaseBar'[b] = PhaseOf(status'[b]) /\ phaseBar[b] = PhaseOf(status[b])
      BY DEF Reads, PhaseReads, PhaseOf
    <2> QED BY <1>1, <2>1
  <1> QED BY <1>2 DEF Reads, PhaseReads

\* Work is the same where the target and the device are.
LEMMA WorkSame ==
  ASSUME Reads, Reads', UNCHANGED devices, NEW c \in Changes, NEW d \in Devices, target'[c][d] = target[c][d]
  PROVE  workBar'[c][d] = workBar[c][d]
  <1>1. workBar[c][d] \in Works /\ workBar'[c][d] \in Works BY DEF Reads, WorkReads
  <1> QED BY <1>1 DEF Reads, WorkReads, Works

\* Skipping what is pending ends what is waiting.
LEMMA SkippingEnds ==
  ASSUME TypeOK, Reads, Reads', UNCHANGED devices, NEW c \in Changes, target' = [target EXCEPT ![c] = SkipPending(c)]
  PROVE  workBar' = [workBar EXCEPT ![c] = L!EndAll(c, "waiting")]
  <1> DEFINE g == [workBar EXCEPT ![c] = L!EndAll(c, "waiting")]
  <1>1. workBar \in [Changes -> [Devices -> Works]] /\ workBar' \in [Changes -> [Devices -> Works]]
    BY DEF Reads, WorkReads
  <1>2. g \in [Changes -> [Devices -> Works]] BY <1>1 DEF L!EndAll, Works
  <1>3. \A d \in Devices : target'[c][d] = IF target[c][d] = "pending" THEN "skipped" ELSE target[c][d]
    <2>1. target'[c] = SkipPending(c) BY DEF TypeOK
    <2> QED BY <2>1 DEF SkipPending
  <1>4. ASSUME NEW d \in Devices PROVE workBar'[c][d] = g[c][d]
    <2>1. g[c][d] = IF workBar[c][d] = "waiting" THEN "over" ELSE workBar[c][d] BY <1>1 DEF L!EndAll
    <2>2. CASE target[c][d] = "pending" BY <1>3, <2>1, <2>2 DEF Reads, WorkReads
    <2>3. CASE target[c][d] # "pending"
      <3>1. workBar'[c][d] = workBar[c][d] BY <1>3, <2>3, WorkSame
      <3> QED BY <2>1, <2>3, <3>1 DEF Reads, WorkReads
    <2> QED BY <2>2, <2>3
  <1>5. ASSUME NEW b \in Changes, b # c, NEW d \in Devices PROVE workBar'[b][d] = g[b][d]
    <2>1. target'[b][d] = target[b][d] BY <1>5 DEF TypeOK
    <2>2. workBar'[b][d] = workBar[b][d] BY <2>1, WorkSame
    <2> QED BY <1>1, <1>5, <2>2
  <1> HIDE DEF g
  <1>6. workBar' = g BY <1>1, <1>2, <1>4, <1>5, SameWorks
  <1> QED BY <1>6 DEF g

\* A step that stays below: nothing ChangeLifecycle sees changes.
LEMMA Unseen ==
  ASSUME UNCHANGED <<status, held, devices, target>> PROVE [L!Next]_(L!vars)
  BY SameBars DEF L!vars

\* Planning, authorisation and withdrawal.
LEMMA PanelRefines ==
  ASSUME TypeOK, LockDiscipline, TargetsFresh, Reads, Reads', NEW c \in Changes, Panel(c) \/ ReachRunAt(c)
  PROVE  [L!Next]_(L!vars)
  <1> USE DEF dbVars, timeVars, apiVars, schedVars, execVars
  <1>1. ASSUME NEW u \in Users, NEW p \in Plans, Create(c, u, p) PROVE L!Next
    <2>1. /\ UNCHANGED <<devices, held>> /\ status[c] = "none" /\ status' = [status EXCEPT ![c] = "draft"]
          /\ PlanDevs(p) \subseteq devices
          /\ target' = [target EXCEPT ![c] = [d \in Devices |-> IF d \in PlanDevs(p) THEN "pending" ELSE "none"]]
      BY <1>1 DEF Create
    <2>2. UNCHANGED <<phaseBar, leaseBar>> /\ phaseBar[c] = "open"
      <3>1. phaseBar' = [phaseBar EXCEPT ![c] = "open"] BY <2>1, PhaseStep DEF PhaseOf
      <3>2. phaseBar[c] = "open" BY <2>1 DEF Reads, PhaseReads, PhaseOf
      <3>3. phaseBar' = phaseBar BY <3>1, <3>2 DEF Reads, PhaseReads
      <3> QED BY <2>1, <3>2, <3>3, SameBars
    <2>3. \A d \in Devices : workBar[c][d] \in {"outside", "gone"}
      BY <2>1 DEF Reads, WorkReads, TargetsFresh, Fresh
    <2>4. PlanDevs(p) \in SUBSET Devices /\ \A d \in PlanDevs(p) : workBar[c][d] = "outside"
      BY <2>1, <2>3 DEF Reads, WorkReads, TypeOK
    <2>5. \A b \in Changes, d \in Devices :
             workBar'[b][d] = IF b = c /\ d \in PlanDevs(p) THEN "waiting" ELSE workBar[b][d]
      <3>1. \A d \in Devices : target'[c][d] = IF d \in PlanDevs(p) THEN "pending" ELSE "none" BY <2>1 DEF TypeOK
      <3>2. \A b \in Changes \ {c} : target'[b] = target[b] BY <2>1 DEF TypeOK
      <3>3. ASSUME NEW d \in Devices PROVE workBar'[c][d] = IF d \in PlanDevs(p) THEN "waiting" ELSE workBar[c][d]
        BY <2>1, <2>3, <3>1 DEF Reads, WorkReads, Works
      <3>4. ASSUME NEW b \in Changes, b # c, NEW d \in Devices PROVE workBar'[b][d] = workBar[b][d]
        <4>1. target'[b][d] = target[b][d] BY <3>2, <3>4
        <4>2. workBar[b][d] \in Works BY DEF Reads, WorkReads
        <4> QED BY <2>1, <4>1, <4>2 DEF Reads, WorkReads, Works
      <3> QED BY <3>3, <3>4
    <2>6. workBar' = [workBar EXCEPT ![c] = [d \in Devices |-> IF d \in PlanDevs(p) THEN "waiting" ELSE workBar[c][d]]]
      <3> DEFINE g == [workBar EXCEPT ![c] = [d \in Devices |-> IF d \in PlanDevs(p) THEN "waiting" ELSE workBar[c][d]]]
      <3>1. workBar \in [Changes -> [Devices -> Works]] /\ workBar' \in [Changes -> [Devices -> Works]]
        BY DEF Reads, WorkReads
      <3>2. g \in [Changes -> [Devices -> Works]] BY <3>1 DEF Works
      <3>3. \A b \in Changes, d \in Devices : workBar'[b][d] = g[b][d] BY <2>5, <3>1
      <3> HIDE DEF g
      <3>4. workBar' = g BY <3>1, <3>2, <3>3, SameWorks
      <3> QED BY <3>4 DEF g
    <2>7. L!Plan(c, PlanDevs(p)) BY <2>2, <2>3, <2>4, <2>6 DEF L!Plan
    <2> QED BY <2>4, <2>7 DEF L!Next
  <1>2. ASSUME UNCHANGED <<devices, held, target>>, NEW s, status' = [status EXCEPT ![c] = s],
               \/ status[c] \in {"draft", "pending"} /\ s \in {"pending", "approved"}
               \/ status[c] = "pending" /\ s = "rejected"
        PROVE  [L!Next]_(L!vars)
    <2>1. phaseBar' = [phaseBar EXCEPT ![c] = PhaseOf(s)] /\ UNCHANGED <<leaseBar, workBar>>
      BY <1>2, PhaseStep, SameBars
    <2>2. phaseBar[c] = "open" BY <1>2 DEF Reads, PhaseReads, PhaseOf
    <2>3. CASE s = "pending"
      <3>1. phaseBar' = phaseBar BY <2>1, <2>2, <2>3 DEF Reads, PhaseReads, PhaseOf
      <3> QED BY <2>1, <3>1 DEF L!vars
    <2>4. CASE s = "approved"
      <3>1. L!Authorise(c) BY <2>1, <2>2, <2>4 DEF L!Authorise, PhaseOf
      <3> QED BY <3>1 DEF L!Next
    <2>5. CASE s = "rejected"
      <3>1. L!Withdraw(c) BY <2>1, <2>2, <2>5 DEF L!Withdraw, PhaseOf
      <3> QED BY <3>1 DEF L!Next
    <2> QED BY <1>2, <2>3, <2>4, <2>5
  <1>3. CASE Submit(c) BY <1>2, <1>3 DEF Submit, SetStatus, StatusOnly
  <1>4. ASSUME NEW u \in Users, NEW approve \in BOOLEAN, Decide(c, u, approve) PROVE [L!Next]_(L!vars)
    BY <1>2, <1>4 DEF Decide, SetStatus
  <1>5. CASE CancelPlanned(c)
    <2>1. /\ UNCHANGED <<devices, held>> /\ status[c] \in Planned /\ status' = [status EXCEPT ![c] = "cancelled"]
          /\ target' = [target EXCEPT ![c] = SkipPending(c)]
      BY <1>5 DEF CancelPlanned, SetStatus, Planned
    <2>2. phaseBar' = [phaseBar EXCEPT ![c] = "over"]
      <3>1. phaseBar' = [phaseBar EXCEPT ![c] = PhaseOf("cancelled")] BY <2>1, PhaseStep
      <3> QED BY <3>1 DEF PhaseOf
    <2>3. phaseBar[c] \in {"open", "authorised"} BY <2>1 DEF Reads, PhaseReads, PhaseOf, Planned
    <2>4. workBar' = [workBar EXCEPT ![c] = L!EndAll(c, "waiting")] BY <2>1, SkippingEnds
    <2>5. L!Withdraw(c) BY <2>1, <2>2, <2>3, <2>4, SameBars DEF L!Withdraw
    <2> QED BY <2>5 DEF L!Next
  <1>6. CASE CancelObserve(c) \/ CancelFlag(c) \/ RunNow(c) \/ ReachRunAt(c)
    BY <1>6, Unseen DEF CancelObserve, CancelFlag, RunNow, ReachRunAt
  <1> QED BY <1>1, <1>3, <1>4, <1>5, <1>6 DEF Panel

\* The recovery is a sweep, a deleted device is removed, a crash is a restart.
LEMMA SweepRefines ==
  ASSUME ~DbFaults, TypeOK, LockDiscipline, TargetsFresh, AllSettled, Reads, Reads',
         \/ RecoverTargets \/ RecoverPending \/ RecoverChanges \/ Crash
         \/ \E d \in Devices : DeleteDevice(d)
  PROVE  L!Next
  <1> USE DEF dbVars, timeVars, apiVars, schedVars, execVars
  <1>0. workBar \in [Changes -> [Devices -> Works]] /\ workBar' \in [Changes -> [Devices -> Works]]
    BY DEF Reads, WorkReads
  <1>1. spc \notin Ticking => L!Unleased
    <2>1. spc \notin Ticking => \A c \in Changes : held[c] = {} BY DEF LockDiscipline, Ticking
    <2>2. spc \notin Ticking => \A d \in Devices : leaseBar[d] = Free BY <2>1 DEF Reads, LeaseReads
    <2>3. leaseBar \in [Devices -> Changes \cup {Free}] BY DEF Reads, LeaseReads
    <2> QED BY <2>2, <2>3 DEF L!Unleased
  <1>2. CASE RecoverTargets
    <2>1. UNCHANGED <<status, held, devices>> /\ spc \notin Ticking /\ target' = [c \in Changes |-> Interrupt(c)]
      BY <1>2 DEF RecoverTargets, Ticking
    <2>2. workBar' = [c \in Changes |-> L!EndAll(c, "going")]
      <3> DEFINE g == [c \in Changes |-> L!EndAll(c, "going")]
      <3>1. g \in [Changes -> [Devices -> Works]] BY <1>0 DEF L!EndAll, Works
      <3>2. ASSUME NEW c \in Changes, NEW d \in Devices PROVE workBar'[c][d] = g[c][d]
        <4>1. g[c][d] = IF workBar[c][d] = "going" THEN "over" ELSE workBar[c][d] BY DEF L!EndAll
        <4>2. target'[c][d] = IF target[c][d] = "running" THEN "failed" ELSE target[c][d] BY <2>1 DEF Interrupt
        <4>3. CASE target[c][d] = "running" BY <4>1, <4>2, <4>3 DEF Reads, WorkReads
        <4>4. CASE target[c][d] # "running"
          <5>1. workBar'[c][d] = workBar[c][d] BY <2>1, <4>2, <4>4, WorkSame
          <5> QED BY <4>1, <4>4, <5>1 DEF Reads, WorkReads
        <4> QED BY <4>3, <4>4
      <3> HIDE DEF g
      <3>3. workBar' = g BY <1>0, <3>1, <3>2, SameWorks
      <3> QED BY <3>3 DEF g
    <2>3. L!SweepGoing BY <1>1, <2>1, <2>2, SameBars DEF L!SweepGoing
    <2> QED BY <2>3 DEF L!Next
  <1>3. CASE RecoverPending
    <2>1. /\ UNCHANGED <<status, held, devices>> /\ spc \notin Ticking
          /\ target' = [c \in Changes |-> IF status[c] = "running" THEN SkipPending(c) ELSE target[c]]
      BY <1>3 DEF RecoverPending, Ticking
    <2>2. workBar' = [c \in Changes |-> IF phaseBar[c] = "active" THEN L!EndAll(c, "waiting") ELSE workBar[c]]
      <3> DEFINE g == [c \in Changes |-> IF phaseBar[c] = "active" THEN L!EndAll(c, "waiting") ELSE workBar[c]]
      <3>1. g \in [Changes -> [Devices -> Works]] BY <1>0 DEF L!EndAll, Works
      <3>2. ASSUME NEW c \in Changes, NEW d \in Devices PROVE workBar'[c][d] = g[c][d]
        <4>0. phaseBar[c] = "active" <=> status[c] = "running" BY DEF Reads, PhaseReads, PhaseOf
        <4>1. g[c][d] = IF status[c] = "running" /\ workBar[c][d] = "waiting" THEN "over" ELSE workBar[c][d]
          BY <4>0 DEF L!EndAll
        <4>2. target'[c][d] = IF status[c] = "running" /\ target[c][d] = "pending" THEN "skipped" ELSE target[c][d]
          BY <2>1 DEF SkipPending
        <4>3. CASE status[c] = "running" /\ target[c][d] = "pending" BY <4>1, <4>2, <4>3 DEF Reads, WorkReads
        <4>4. CASE ~(status[c] = "running" /\ target[c][d] = "pending")
          <5>1. workBar'[c][d] = workBar[c][d] BY <2>1, <4>2, <4>4, WorkSame
          <5> QED BY <4>1, <4>4, <5>1 DEF Reads, WorkReads
        <4> QED BY <4>3, <4>4
      <3> HIDE DEF g
      <3>3. workBar' = g BY <1>0, <3>1, <3>2, SameWorks
      <3> QED BY <3>3 DEF g
    <2>3. L!SweepWaiting BY <1>1, <2>1, <2>2, SameBars DEF L!SweepWaiting
    <2> QED BY <2>3 DEF L!Next
  <1>4. CASE RecoverChanges
    <2>1. /\ UNCHANGED <<held, devices, target>> /\ spc = "recoverChanges"
          /\ status' = [c \in Changes |-> IF status[c] = "running" THEN "failed" ELSE status[c]]
      BY <1>4 DEF RecoverChanges
    <2>2. ASSUME NEW c \in Changes, phaseBar[c] = "active" PROVE L!WorkIsOver(c)
      <3>1. status[c] = "running" BY <2>2 DEF Reads, PhaseReads, PhaseOf
      <3>2. \A d \in Devices : wpc[c][d] = "idle"
        <4>1. epc[c] = "none" BY <2>1 DEF LockDiscipline, At
        <4> QED BY <4>1 DEF TargetsFresh, Fresh, IdleWorkers
      <3>3. \A d \in Devices : target[c][d] \notin {"pending", "running"}
        BY <2>1, <3>1, <3>2 DEF AllSettled, Settled, Marked
      <3> QED BY <3>3 DEF L!WorkIsOver, Reads, WorkReads
    <2>3. phaseBar' = [c \in Changes |-> IF phaseBar[c] = "active" THEN "over" ELSE phaseBar[c]]
      <3>1. ASSUME NEW c \in Changes PROVE phaseBar'[c] = IF phaseBar[c] = "active" THEN "over" ELSE phaseBar[c]
        <4>1. phaseBar[c] = PhaseOf(status[c]) /\ phaseBar'[c] = PhaseOf(status'[c])
          BY DEF Reads, PhaseReads, PhaseOf
        <4>2. phaseBar[c] = "active" <=> status[c] = "running" BY <4>1 DEF PhaseOf
        <4>3. CASE status[c] = "running"
          <5>1. status'[c] = "failed" BY <2>1, <4>3
          <5> QED BY <4>1, <4>2, <4>3, <5>1 DEF PhaseOf
        <4>4. CASE status[c] # "running"
          <5>1. status'[c] = status[c] BY <2>1, <4>4
          <5> QED BY <4>1, <4>2, <4>4, <5>1
        <4> QED BY <4>3, <4>4
      <3> QED BY <3>1 DEF Reads, PhaseReads
    <2>4. L!SweepActive BY <1>1, <2>1, <2>2, <2>3, SameBars DEF L!SweepActive, Ticking
    <2> QED BY <2>4 DEF L!Next
  <1>5. CASE Crash
    <2>1. UNCHANGED <<status, devices, target>> /\ held' = [c \in Changes |-> {}] BY <1>5 DEF Crash
    <2>2. \A d \in Devices : leaseBar'[d] = Free BY <2>1 DEF Reads, LeaseReads
    <2>3. leaseBar' = [d \in Devices |-> Free] BY <2>2 DEF Reads, LeaseReads
    <2>4. L!Restart BY <2>1, <2>3, SameBars DEF L!Restart
    <2> QED BY <2>4 DEF L!Next
  <1>6. ASSUME NEW d \in Devices, DeleteDevice(d) PROVE L!Next
    <2>1. /\ UNCHANGED <<status, held>> /\ devices' = devices \ {d}
          /\ target' = [c \in Changes |-> [target[c] EXCEPT ![d] = "none"]]
      BY <1>6 DEF DeleteDevice
    <2>2. workBar' = [c \in Changes |-> [workBar[c] EXCEPT ![d] = "gone"]]
      <3> DEFINE g == [c \in Changes |-> [workBar[c] EXCEPT ![d] = "gone"]]
      <3>1. g \in [Changes -> [Devices -> Works]] BY <1>0 DEF Works
      <3>2. ASSUME NEW c \in Changes PROVE workBar'[c][d] = g[c][d]
        BY <1>0, <2>1 DEF Reads, WorkReads
      <3>3. ASSUME NEW c \in Changes, NEW e \in Devices, e # d PROVE workBar'[c][e] = g[c][e]
        <4>1. target'[c][e] = target[c][e] /\ (e \in devices' <=> e \in devices) BY <2>1, <3>3 DEF TypeOK
        <4>2. workBar[c][e] \in Works /\ workBar'[c][e] \in Works BY <1>0
        <4>3. workBar'[c][e] = workBar[c][e] BY <4>1, <4>2 DEF Reads, WorkReads, Works
        <4> QED BY <1>0, <3>3, <4>3
      <3> HIDE DEF g
      <3>4. workBar' = g BY <1>0, <3>1, <3>2, <3>3, SameWorks
      <3> QED BY <3>4 DEF g
    <2>3. L!Remove(d) BY <2>1, <2>2, SameBars DEF L!Remove
    <2> QED BY <2>3 DEF L!Next
  <1> QED BY <1>2, <1>3, <1>4, <1>5, <1>6

\* A change that gives back what it holds while it is not active releases it.
LEMMA ReleaseRefines ==
  ASSUME TypeOK, Reads, Reads', NEW c \in Changes, UNCHANGED <<status, devices, target>>, status[c] # "running",
         held' = [held EXCEPT ![c] = {}]
  PROVE  L!Next
  <1>1. held'[c] = {} /\ \A b \in Changes \ {c} : held'[b] = held[b] BY DEF TypeOK
  <1>2. ASSUME NEW d \in Devices PROVE leaseBar'[d] = IF leaseBar[d] = c THEN Free ELSE leaseBar[d]
    <2>1. leaseBar[d] \in Changes \cup {Free} BY DEF Reads, LeaseReads
    <2>2. CASE leaseBar[d] = c
      <3>1. \A b \in Changes : b # c => d \notin held[b] BY <2>2 DEF Reads, LeaseReads
      <3>2. \A b \in Changes : d \notin held'[b] BY <1>1, <3>1
      <3> QED BY <2>2, <3>2 DEF Reads, LeaseReads
    <2>3. CASE leaseBar[d] \in Changes /\ leaseBar[d] # c
      <3> DEFINE b == leaseBar[d]
      <3>1. b \in Changes /\ b # c /\ d \in held[b] BY <2>3 DEF Reads, LeaseReads
      <3> HIDE DEF b
      <3>2. d \in held'[b] BY <1>1, <3>1
      <3>3. leaseBar'[d] = b BY <3>1, <3>2 DEF Reads, LeaseReads
      <3> QED BY <2>3, <3>3 DEF b
    <2>4. CASE leaseBar[d] = Free
      <3>1. \A b \in Changes : d \notin held[b] BY <2>4 DEF Reads, LeaseReads
      <3>2. \A b \in Changes : d \notin held'[b] BY <1>1, <3>1
      <3> QED BY <2>4, <3>2, FreeOK DEF Reads, LeaseReads
    <2> QED BY <2>1, <2>2, <2>3, <2>4
  <1>3. leaseBar' = [d \in Devices |-> IF leaseBar[d] = c THEN Free ELSE leaseBar[d]]
    BY <1>2 DEF Reads, LeaseReads
  <1>4. phaseBar[c] # "active" BY DEF Reads, PhaseReads, PhaseOf
  <1>5. L!Release(c) BY <1>3, <1>4, SameBars DEF L!Release
  <1> QED BY <1>5 DEF L!Next

\* Tick reserves all devices of a change, and begins it or releases them.
LEMMA TickRefines ==
  ASSUME ~DbFaults, TypeOK, LockDiscipline, AllSettled, Reads, Reads',
         \/ TickList \/ TickAbort
         \/ \E c \in Changes : TickLock(c) \/ TickSkip(c) \/ TickStart(c) \/ TickLost(c) \/ TickStartFault(c)
  PROVE  [L!Next]_(L!vars)
  <1> USE DEF dbVars, timeVars, apiVars, schedVars, execVars
  <1>1. ASSUME TickList \/ \E c \in Changes : TickSkip(c) PROVE [L!Next]_(L!vars)
    BY <1>1, Unseen DEF TickList, TickSkip
  <1>2. ~TickAbort /\ \A c \in Changes : ~TickStartFault(c) BY DEF TickAbort, TickStartFault
  <1>3. ASSUME NEW c \in Changes, TickLock(c) PROVE L!Next
    <2> DEFINE S == TargetDevices(c)
    <2>1. /\ UNCHANGED <<status, devices, target>> /\ spc = "scan" /\ Oldest(c) /\ S \cap locked = {}
          /\ held' = [held EXCEPT ![c] = S] /\ S \in SUBSET Devices
      BY <1>3 DEF TickLock, Taken, TargetDevices
    <2>2. held[c] = {}
      <3>1. c \in queue BY <2>1 DEF Oldest
      <3>2. epc[c] = "none" BY <3>1 DEF LockDiscipline, StatusAgrees, At
      <3>3. ~Starting(c) BY <2>1 DEF Starting
      <3> QED BY <3>2, <3>3 DEF LockDiscipline, LocksCover, At
    <2>3. ASSUME NEW d \in S PROVE leaseBar[d] = Free
      <3>1. d \in Devices /\ d \notin locked BY <2>1
      <3>2. \A b \in Changes : d \notin held[b] BY <3>1 DEF LockDiscipline, LocksCover
      <3> QED BY <3>1, <3>2 DEF Reads, LeaseReads
    <2> HIDE DEF S
    <2>4. held'[c] = S /\ \A b \in Changes \ {c} : held'[b] = held[b] BY <2>1 DEF TypeOK
    <2>5. ASSUME NEW d \in Devices PROVE leaseBar'[d] = IF d \in S THEN c ELSE leaseBar[d]
      <3>1. CASE d \in S BY <2>4, <3>1 DEF Reads, LeaseReads
      <3>2. CASE d \notin S
        <4>1. \A b \in Changes : d \in held'[b] <=> d \in held[b] BY <2>2, <2>4, <3>2
        <4>2. leaseBar[d] \in Changes \cup {Free} BY DEF Reads, LeaseReads
        <4>3. CASE leaseBar[d] = Free
          <5>1. \A b \in Changes : d \notin held[b] BY <4>3 DEF Reads, LeaseReads
          <5>2. \A b \in Changes : d \notin held'[b] BY <4>1, <5>1
          <5>3. leaseBar'[d] = Free BY <5>2 DEF Reads, LeaseReads
          <5> QED BY <3>2, <4>3, <5>3
        <4>4. CASE leaseBar[d] \in Changes
          <5> DEFINE b == leaseBar[d]
          <5>1. b \in Changes /\ d \in held[b] BY <4>4 DEF Reads, LeaseReads
          <5> HIDE DEF b
          <5>2. leaseBar'[d] = b BY <4>1, <5>1 DEF Reads, LeaseReads
          <5> QED BY <3>2, <5>2 DEF b
        <4> QED BY <3>2, <4>2, <4>3, <4>4
      <3> QED BY <3>1, <3>2
    <2>6. leaseBar' = [d \in Devices |-> IF d \in S THEN c ELSE leaseBar[d]] BY <2>5 DEF Reads, LeaseReads
    <2>7. L!Reserve(c, S) BY <2>1, <2>3, <2>6, SameBars DEF L!Reserve
    <2> QED BY <2>1, <2>7 DEF L!Next
  <1>4. ASSUME NEW c \in Changes, TickStart(c) PROVE L!Next
    <2>1. UNCHANGED <<held, devices, target>> /\ status[c] = "approved" /\ status' = [status EXCEPT ![c] = "running"]
      BY <1>4 DEF TickStart, SetStatus
    <2>2. phaseBar' = [phaseBar EXCEPT ![c] = "active"]
      <3>1. phaseBar' = [phaseBar EXCEPT ![c] = PhaseOf("running")] BY <2>1, PhaseStep
      <3> QED BY <3>1 DEF PhaseOf
    <2>3. phaseBar[c] = "authorised" BY <2>1 DEF Reads, PhaseReads, PhaseOf
    <2>4. L!Begin(c) BY <2>1, <2>2, <2>3, SameBars DEF L!Begin
    <2> QED BY <2>4 DEF L!Next
  <1>5. ASSUME NEW c \in Changes, TickLost(c) PROVE L!Next
    <2>1. UNCHANGED <<status, devices, target>> /\ held' = [held EXCEPT ![c] = {}] /\ spc = "start" /\ c \in queue
      BY <1>5 DEF TickLost, Unlock, Oldest
    <2>2. status[c] # "running"
      BY <2>1 DEF LockDiscipline, StatusAgrees, At, AllSettled, Settled, Ticking
    <2> QED BY <2>1, <2>2, ReleaseRefines
  <1> QED BY <1>1, <1>2, <1>3, <1>4, <1>5

\* execute drops what it did not start, finishes, and only then releases.
LEMMA ExecuteRefines ==
  ASSUME ~DbFaults, TypeOK, LockDiscipline, AllSettled, Reads, Reads', NEW c \in Changes, Execute(c)
  PROVE  [L!Next]_(L!vars)
  <1> USE DEF dbVars, timeVars, apiVars, schedVars, execVars, At, Goto, ExecOnly
  <1>0. /\ epc[c] \notin {"none", "unlock"} => phaseBar[c] = "active"
        /\ epc[c] # "none" => spc \in Ticking
    BY DEF LockDiscipline, StatusAgrees, Reads, PhaseReads, PhaseOf, Ticking
  <1>1. ASSUME \/ ExecLoad(c) \/ CanaryEnd(c) \/ FanCheck(c) \/ ExecWait(c) \/ ExecTally(c) \/ ExecDecide(c) \/ ExecClear(c)
               \/ \E d \in Devices : CanaryRun(c, d) \/ FanLaunch(c, d)
        PROVE  [L!Next]_(L!vars)
    BY <1>1, Unseen DEF ExecLoad, CanaryEnd, FanCheck, ExecWait, ExecTally, ExecDecide, ExecClear, CanaryRun, FanLaunch
  <1>2. CASE ExecSkip(c)
    <2>1. UNCHANGED <<status, held, devices>> /\ epc[c] = "skip" /\ target' = [target EXCEPT ![c] = SkipPending(c)]
      BY <1>2 DEF ExecSkip
    <2>2. workBar' = [workBar EXCEPT ![c] = L!EndAll(c, "waiting")] BY <2>1, SkippingEnds
    <2>3. L!DropWaiting(c) BY <1>0, <2>1, <2>2, SameBars DEF L!DropWaiting
    <2> QED BY <2>3 DEF L!Next
  <1>3. CASE ExecFinish(c)
    <2>1. UNCHANGED <<held, devices, target>> /\ epc[c] = "finish" /\ status' = [status EXCEPT ![c] = verdict[c]]
      BY <1>3 DEF ExecFinish, SetStatus
    <2>2. phaseBar' = [phaseBar EXCEPT ![c] = "over"]
      <3>1. phaseBar' = [phaseBar EXCEPT ![c] = PhaseOf(verdict[c])] BY <2>1, PhaseStep
      <3>2. verdict[c] \in {"succeeded", "failed", "partial", "cancelled"} BY DEF TypeOK
      <3> QED BY <3>1, <3>2 DEF PhaseOf
    <2>3. L!WorkIsOver(c)
      <3>1. \A d \in Devices : wpc[c][d] \notin Marked
        BY <2>1 DEF LockDiscipline, LocksCover, NotWorking, InFlight, Marked
      <3>2. \A d \in Devices : target[c][d] \notin {"pending", "running"}
        BY <1>0, <2>1, <3>1 DEF AllSettled, Settled, Ticking
      <3> QED BY <3>2 DEF L!WorkIsOver, Reads, WorkReads
    <2>4. L!Finish(c) BY <1>0, <2>1, <2>2, <2>3, SameBars DEF L!Finish
    <2> QED BY <2>4 DEF L!Next
  <1>4. CASE ExecUnlock(c)
    <2>1. UNCHANGED <<status, devices, target>> /\ held' = [held EXCEPT ![c] = {}] /\ epc[c] = "unlock"
      BY <1>4 DEF ExecUnlock, Unlock
    <2>2. status[c] # "running" BY <1>0, <2>1 DEF AllSettled, Settled
    <2> QED BY <2>1, <2>2, ReleaseRefines
  <1>5. ~ExecLoadFault(c) BY DEF ExecLoadFault
  <1> QED BY <1>1, <1>2, <1>3, <1>4, <1>5 DEF Execute

\* runTarget starts and ends work under the lease of its change.
LEMMA RunTargetRefines ==
  ASSUME ~DbFaults, TypeOK, LockDiscipline, TargetsFresh, Reads, Reads',
         NEW c \in Changes, NEW d \in Devices, RunTarget(c, d)
  PROVE  [L!Next]_(L!vars)
  <1> USE DEF dbVars, timeVars, apiVars, schedVars, execVars
  <1>1. UNCHANGED <<status, held, devices>>
    BY DEF RunTarget, WorkerStart, WorkerMark, WorkerMarkFault, WorkerCheck, WorkerBackup, WorkerApply,
       WorkerRecord, WorkerRecordFault, WorkerCount, WorkerOnly, TargetOnly
  <1>2. UNCHANGED target => [L!Next]_(L!vars) BY <1>1, Unseen
  <1>3. wpc[c][d] \notin {"idle", "succeeded", "failed", "stopped"}
    BY DEF RunTarget, WorkerStart, WorkerMark, WorkerMarkFault, WorkerCheck, WorkerBackup, WorkerApply,
       WorkerRecord, WorkerRecordFault, WorkerCount, Step
  <1>4. phaseBar[c] = "active" /\ leaseBar[d] = c
    <2>1. d \in InFlight(c) BY <1>3 DEF InFlight
    <2>2. d \in held[c] BY <2>1 DEF LockDiscipline, LocksCover
    <2>3. epc[c] \notin {"none", "unlock"} BY <2>1 DEF LockDiscipline, LocksCover, NotWorking
    <2>4. status[c] = "running" BY <2>3 DEF LockDiscipline, StatusAgrees
    <2> QED BY <2>2, <2>4 DEF Reads, LeaseReads, PhaseReads, PhaseOf
  <1>5. ASSUME NEW s, SetTarget(c, d, s), target[c][d] # "none", NEW w \in Works, workBar'[c][d] = w
        PROVE  workBar' = [workBar EXCEPT ![c][d] = w]
    <2> DEFINE g == [workBar EXCEPT ![c][d] = w]
    <2>1. workBar \in [Changes -> [Devices -> Works]] /\ workBar' \in [Changes -> [Devices -> Works]]
      BY DEF Reads, WorkReads
    <2>2. g \in [Changes -> [Devices -> Works]] BY <2>1
    <2>3. ASSUME NEW b \in Changes, NEW e \in Devices PROVE workBar'[b][e] = g[b][e]
      <3>1. CASE b = c /\ e = d BY <1>5, <2>1, <3>1
      <3>2. CASE b # c \/ e # d
        <4>1. target'[b][e] = target[b][e] BY <1>5, <3>2 DEF SetTarget, TypeOK
        <4>2. workBar'[b][e] = workBar[b][e] BY <1>1, <4>1, WorkSame
        <4> QED BY <2>1, <3>2, <4>2
      <3> QED BY <3>1, <3>2
    <2> HIDE DEF g
    <2>4. workBar' = g BY <2>1, <2>2, <2>3, SameWorks
    <2> QED BY <2>4 DEF g
  <1>6. ASSUME NEW s, SetTarget(c, d, s)
        PROVE  target'[c][d] = (IF target[c][d] = "none" THEN "none" ELSE s) /\ (target[c][d] = "none" => UNCHANGED target)
    BY <1>6 DEF SetTarget, TypeOK
  <1>7. CASE WorkerMark(c, d)
    <2>1. wpc[c][d] = "cleared" /\ SetTarget(c, d, "running") BY <1>7 DEF WorkerMark, Step
    <2>2. CASE target[c][d] = "none" BY <1>2, <1>6, <2>1, <2>2
    <2>3. CASE target[c][d] # "none"
      <3>1. target[c][d] = "pending" /\ target'[c][d] = "running"
        BY <1>6, <2>1, <2>3 DEF TargetsFresh, Fresh, Untouched
      <3>2. workBar[c][d] = "waiting" /\ workBar'[c][d] = "going" BY <3>1 DEF Reads, WorkReads
      <3>3. workBar' = [workBar EXCEPT ![c][d] = "going"] BY <1>5, <2>1, <2>3, <3>2 DEF Works
      <3>4. L!StartWork(c, d) BY <1>1, <1>4, <3>2, <3>3, SameBars DEF L!StartWork
      <3> QED BY <3>4 DEF L!Next
    <2> QED BY <2>2, <2>3
  <1>8. CASE WorkerRecord(c, d)
    <2>1. PICK s \in {"succeeded", "failed"} : wpc[c][d] \in {"ok", "err"} /\ SetTarget(c, d, s)
      BY <1>8 DEF WorkerRecord, Step
    <2>2. CASE target[c][d] = "none" BY <1>2, <1>6, <2>1, <2>2
    <2>3. CASE target[c][d] # "none"
      <3>1. target[c][d] = "running" /\ target'[c][d] = s
        BY <1>6, <2>1, <2>3 DEF TargetsFresh, Fresh
      <3>2. workBar[c][d] = "going" /\ workBar'[c][d] = "over" BY <3>1 DEF Reads, WorkReads
      <3>3. workBar' = [workBar EXCEPT ![c][d] = "over"] BY <1>5, <2>1, <2>3, <3>2 DEF Works
      <3>4. L!EndWork(c, d) BY <1>1, <1>4, <3>2, <3>3, SameBars DEF L!EndWork
      <3> QED BY <3>4 DEF L!Next
    <2> QED BY <2>2, <2>3
  <1>9. CASE WorkerStart(c, d) \/ WorkerCheck(c, d) \/ WorkerBackup(c, d) \/ WorkerApply(c, d) \/ WorkerCount(c, d)
    BY <1>2, <1>9 DEF WorkerStart, WorkerCheck, WorkerBackup, WorkerApply, WorkerCount, WorkerOnly
  <1>10. ~WorkerMarkFault(c, d) /\ ~WorkerRecordFault(c, d) BY DEF WorkerMarkFault, WorkerRecordFault
  <1> QED BY <1>7, <1>8, <1>9, <1>10 DEF RunTarget

\* While the database answers, every step of the workflow, the scheduler, the
\* executors and the recovery is a step ChangeLifecycle allows, whatever the
\* number of changes and devices: leases are exclusive and outlast the work,
\* work happens only in an active change, what is over stays over.
THEOREM EngineImplementsLifecycle == ~DbFaults => (Spec => Lifecycle)
  <1> SUFFICES ASSUME ~DbFaults PROVE Spec => Lifecycle OBVIOUS
  <1>1. Init => L!Init
    <2> SUFFICES ASSUME Init PROVE L!Init OBVIOUS
    <2>1. phaseBar = [c \in Changes |-> "open"] BY DEF Init, phaseBar, PhaseOf
    <2>2. leaseBar = [d \in Devices |-> Free] BY DEF Init, leaseBar
    <2>3. workBar = [c \in Changes |-> [d \in Devices |-> "outside"]] BY DEF Init, workBar, WorkOf
    <2> QED BY <2>1, <2>2, <2>3 DEF L!Init
  <1> DEFINE Inv == TypeOK /\ LockDiscipline /\ TargetsFresh /\ AllSettled /\ RowsHaveDevices
  <1>2. Inv /\ Inv' /\ [Next]_vars => [L!Next]_(L!vars)
    <2> SUFFICES ASSUME Inv, Inv', [Next]_vars PROVE [L!Next]_(L!vars) OBVIOUS
    <2>1. Reads /\ Reads' BY BarsRead, BarsReadNext
    <2>2. CASE UNCHANGED vars BY <2>2, Unseen DEF vars, dbVars
    <2>3. ASSUME NEW d \in Devices, ToggleWindow(d) PROVE [L!Next]_(L!vars)
      BY <2>3, Unseen DEF ToggleWindow, dbVars
    <2> QED BY <2>1, <2>2, <2>3, PanelRefines, SweepRefines, TickRefines, ExecuteRefines, RunTargetRefines
            DEF Next, Scheduler
  <1>3. Spec => []Inv BY TypeCorrect, LocksAreConsistent, FreshAlways, SettledAlways, RowsAlways, PTL
  <1> QED BY <1>1, <1>2, <1>3, PTL DEF Spec, Lifecycle, L!Spec

-----------------------------------------------------------------------------
(* The windows a change runs in, and when it will start: ChangeRules *)

\* A set of naturals that is not empty has a least member.
LEMMA LeastOf ==
    ASSUME NEW T \in SUBSET Nat, T # {}
    PROVE  \E n \in T : \A m \in T : n <= m
<1>1. PICK n \in T : \A m \in T : ~(<<m, n>> \in OpToRel(<, Nat))
  BY NatLessThanWellFounded, WFMin
<1>2. \A m \in T : ~(m < n)
  BY <1>1 DEF OpToRel
<1>. QED
  BY <1>2

\* A product grows with its first factor.
LEMMA TimesGrows ==
    ASSUME NEW a \in Int, NEW b \in Int, NEW n \in Nat, a <= b
    PROVE  a * n <= b * n
OBVIOUS

LEMMA TimesSum ==
    ASSUME NEW a \in Int, NEW b \in Int, NEW n \in Int
    PROVE  (a + b) * n = a * n + b * n /\ a * n \in Int
OBVIOUS

LEMMA DayOf ==
    ASSUME NEW t \in Int
    PROVE  Day(t) \in Int /\ Day(t) * DayMinutes <= t /\ t < Day(t) * DayMinutes + DayMinutes
BY RulesConstants DEF Day

LEMMA WeekdayAhead ==
    ASSUME NEW q \in Int, NEW k \in 0..6
    PROVE  \E day \in (q + 1)..(q + 7) : day % 7 = k
<1>. DEFINE m == (q + 1) % 7
<1>1. m \in 0..6
  OBVIOUS
<1>2. \A e \in 0..6 : (q + 1 + e) % 7 = IF m + e <= 6 THEN m + e ELSE m + e - 7
  OBVIOUS
<1>3. CASE m <= k
  <2>1. (q + 1 + (k - m)) % 7 = k /\ q + 1 + (k - m) \in (q + 1)..(q + 7)
    BY <1>1, <1>2, <1>3
  <2>. QED
    BY <2>1
<1>4. CASE m > k
  <2>1. (q + 1 + (7 + k - m)) % 7 = k /\ q + 1 + (7 + k - m) \in (q + 1)..(q + 7)
    BY <1>1, <1>2, <1>4
  <2>. QED
    BY <2>1
<1>. QED
  BY <1>1, <1>3, <1>4

\* A set of times that has a lower bound has an earliest one.
LEMMA EarliestIs ==
    ASSUME NEW S \in SUBSET Int, S # {}, NEW b \in Int, \A s \in S : b <= s
    PROVE  Earliest(S) # {}
<1>. DEFINE T == {n \in Nat : b + n \in S}
<1>1. T # {} /\ T \in SUBSET Nat
  <2>1. PICK s \in S : TRUE
    OBVIOUS
  <2>2. s - b \in T
    BY <2>1
  <2>. QED
    BY <2>2
<1>2. PICK n \in T : \A m \in T : n <= m
  <2>. HIDE DEF T
  <2>. QED
    BY <1>1, LeastOf
<1>3. ASSUME NEW r \in S PROVE b + n <= r
  <2>1. r - b \in T
    BY <1>3
  <2>. QED
    BY <1>2, <2>1
<1>4. b + n \in Earliest(S)
  BY <1>2, <1>3 DEF Earliest
<1>. QED
  BY <1>4

\* A window that was saved.
Saved(w) == w \in Window /\ Valid(w)

\* Its occurrences begin at least a day apart.
LEMMA Occurrences ==
    ASSUME NEW w, Saved(w), NEW d \in Int, NEW e \in Int
    PROVE  /\ StartOn(w, d) \in Int /\ Day(StartOn(w, d)) = d
           /\ d < e => StartOn(w, d) + DayMinutes <= StartOn(w, e)
<1>0. w.start \in 0..(DayMinutes - 1) /\ DayMinutes \in Nat /\ DayMinutes > 0
  BY RulesConstants DEF Saved, Window
<1>. DEFINE x == StartOn(w, d)
<1>1. x \in Int /\ d * DayMinutes <= x /\ x < d * DayMinutes + DayMinutes
  BY <1>0, TimesSum DEF StartOn
<1>2. Day(x) = d
  <2>. DEFINE q == Day(x)
  <2>1. q \in Int /\ q * DayMinutes <= x /\ x < q * DayMinutes + DayMinutes
    BY <1>1, DayOf
  <2>. HIDE DEF x, q
  <2>2. ~(q < d)
    <3>1. (q + 1) * DayMinutes = q * DayMinutes + DayMinutes
      BY <1>0, <2>1, TimesSum
    <3>2. q < d => (q + 1) * DayMinutes <= d * DayMinutes
      BY <1>0, <2>1, TimesGrows
    <3>. QED
      BY <1>0, <1>1, <2>1, <3>1, <3>2, TimesSum
  <2>3. ~(d < q)
    <3>1. (d + 1) * DayMinutes = d * DayMinutes + DayMinutes
      BY <1>0, TimesSum
    <3>2. d < q => (d + 1) * DayMinutes <= q * DayMinutes
      BY <1>0, <2>1, TimesGrows
    <3>. QED
      BY <1>0, <1>1, <2>1, <3>1, <3>2, TimesSum
  <2>. QED
    BY <2>1, <2>2, <2>3 DEF q
<1>3. d < e => StartOn(w, d) + DayMinutes <= StartOn(w, e)
  <2>1. (d + 1) * DayMinutes = d * DayMinutes + DayMinutes
    BY <1>0, TimesSum
  <2>2. d < e => (d + 1) * DayMinutes <= e * DayMinutes
    BY <1>0, TimesGrows
  <2>. QED
    BY <1>0, <2>1, <2>2, TimesSum DEF StartOn
<1>. QED
  BY <1>1, <1>2, <1>3

\* At most the occurrence of today or of yesterday contains a time.
LEMMA TodayOrYesterday ==
    ASSUME NEW w, Saved(w), NEW t \in Int, NEW d \in Int, Contains(w, d, t)
    PROVE  d = Day(t) \/ d = Day(t) - 1
<1>0. w.start \in 0..(DayMinutes - 1) /\ DayMinutes \in Nat /\ DayMinutes > 0 /\ w.minutes \in Nat /\ w.minutes <= DayMinutes
  BY RulesConstants DEF Saved, Window, Valid
<1>. DEFINE q == Day(t)
<1>1. q \in Int /\ q * DayMinutes <= t /\ t < q * DayMinutes + DayMinutes
  BY DayOf
<1>2. d * DayMinutes + w.start <= t /\ t < d * DayMinutes + w.start + w.minutes
  BY DEF Contains, StartOn
<1>. HIDE DEF q
<1>3. ~(q < d)
  <2>1. (q + 1) * DayMinutes = q * DayMinutes + DayMinutes
    BY <1>0, <1>1, TimesSum
  <2>2. q < d => (q + 1) * DayMinutes <= d * DayMinutes
    BY <1>0, <1>1, TimesGrows
  <2>. QED
    BY <1>0, <1>1, <1>2, <2>1, <2>2, TimesSum
<1>4. ~(d + 1 < q)
  <2>1. (d + 2) * DayMinutes = d * DayMinutes + 2 * DayMinutes
    BY <1>0, TimesSum
  <2>2. d + 1 < q => (d + 2) * DayMinutes <= q * DayMinutes
    BY <1>0, <1>1, TimesGrows
  <2>. QED
    BY <1>0, <1>1, <1>2, <2>1, <2>2, TimesSum
<1>. QED
  BY <1>1, <1>3, <1>4 DEF q

\* openAt: the occurrence that contains the time, of which there is one at most.
LEMMA OpenAtIs ==
    ASSUME NEW w, Saved(w), NEW t \in Int
    PROVE  /\ \A d \in Int : w.enabled /\ Contains(w, d, t) => OpenAt(w, t) = {StartOn(w, d)}
           /\ OpenAt(w, t) # {} => w.enabled /\ \E d \in Int : Contains(w, d, t) /\ OpenAt(w, t) = {StartOn(w, d)}
           /\ OpenAt(w, t) # {} <=> IsOpen(w, t)
<1>0. DayMinutes \in Nat /\ w.minutes \in Nat /\ w.minutes <= DayMinutes
  BY RulesConstants DEF Saved, Window, Valid
<1>1. Day(t) \in Int
  BY DayOf
<1>2. ASSUME NEW d \in Int, NEW e \in Int, Contains(w, d, t), Contains(w, e, t) PROVE ~(d < e)
  <2>1. StartOn(w, d) \in Int /\ StartOn(w, e) \in Int /\ (d < e => StartOn(w, d) + DayMinutes <= StartOn(w, e))
    BY Occurrences
  <2>. QED
    BY <1>0, <1>2, <2>1 DEF Contains
<1>3. ASSUME NEW d \in Int, w.enabled, Contains(w, d, t) PROVE OpenAt(w, t) = {StartOn(w, d)}
  <2>1. d = Day(t) \/ d = Day(t) - 1
    BY <1>3, TodayOrYesterday
  <2>2. d = Day(t) - 1 => ~Contains(w, Day(t), t)
    BY <1>1, <1>2, <1>3
  <2>. QED
    BY <1>3, <2>1, <2>2 DEF OpenAt
<1>4. ASSUME OpenAt(w, t) # {}
      PROVE  w.enabled /\ \E d \in {Day(t), Day(t) - 1} : Contains(w, d, t) /\ OpenAt(w, t) = {StartOn(w, d)}
  BY <1>4 DEF OpenAt
<1>5. OpenAt(w, t) # {} => IsOpen(w, t)
  <2>1. Day(t) \in (Day(t) - 14)..(Day(t) + 14) /\ Day(t) - 1 \in (Day(t) - 14)..(Day(t) + 14)
    BY <1>1
  <2>. QED
    BY <1>4, <2>1 DEF IsOpen
<1>6. IsOpen(w, t) => OpenAt(w, t) # {}
  <2>1. (Day(t) - 14)..(Day(t) + 14) \subseteq Int
    BY <1>1
  <2>. QED
    BY <1>3, <2>1 DEF IsOpen
<1>7. {Day(t), Day(t) - 1} \subseteq Int
  BY <1>1
<1>. QED
  BY <1>3, <1>4, <1>5, <1>6, <1>7

\* next: an occurrence of the window, the open one or else the first one ahead.
LEMMA NextStartIs ==
    ASSUME NEW w, Saved(w), w.enabled, NEW t \in Int
    PROVE  /\ NextStart(w, t) # {}
           /\ \A x \in NextStart(w, t) :
                 /\ \E d \in Int : OccursOn(w, d) /\ x = StartOn(w, d)
                 /\ \/ OpenAt(w, t) = {x}
                    \/ /\ OpenAt(w, t) = {} /\ x > t
                       /\ \A e \in Int : OccursOn(w, e) /\ StartOn(w, e) > t => x <= StartOn(w, e)
<1>0. DayMinutes \in Nat /\ DayMinutes > 0 /\ Day(t) \in Int /\ t < Day(t) * DayMinutes + DayMinutes
  BY RulesConstants, DayOf
<1>1. CASE OpenAt(w, t) # {}
  <2>1. PICK d \in Int : Contains(w, d, t) /\ OpenAt(w, t) = {StartOn(w, d)}
    BY <1>1, OpenAtIs
  <2>. QED
    BY <1>1, <2>1 DEF NextStart, Contains
<1>2. CASE OpenAt(w, t) = {}
  <2>. DEFINE S == StartsAhead(w, t)
  <2>1. /\ S \in SUBSET Int /\ \A s \in S : s > t
        /\ \A s \in S : \E d \in Int : OccursOn(w, d) /\ s = StartOn(w, d)
        /\ \A e \in Day(t)..(Day(t) + 7) : OccursOn(w, e) /\ StartOn(w, e) > t => StartOn(w, e) \in S
    <3>1. \A d \in Day(t)..(Day(t) + 7) : d \in Int /\ StartOn(w, d) \in Int
      BY <1>0, Occurrences
    <3>. QED
      BY <3>1 DEF StartsAhead
  <2>2. \A d \in Int : d > Day(t) => StartOn(w, d) > t
    <3>. SUFFICES ASSUME NEW d \in Int, d > Day(t) PROVE StartOn(w, d) > t
      OBVIOUS
    <3>1. StartOn(w, Day(t)) + DayMinutes <= StartOn(w, d) /\ StartOn(w, d) \in Int
      BY <1>0, Occurrences
    <3>2. Day(t) * DayMinutes <= StartOn(w, Day(t)) /\ Day(t) * DayMinutes \in Int /\ StartOn(w, Day(t)) \in Int
      BY <1>0, TimesSum DEF StartOn, Saved, Window
    <3>. QED
      BY <1>0, <3>1, <3>2
  <2>3. S # {}
    <3>1. PICK k \in w.weekdays : k \in 0..6
      BY DEF Saved, Valid, Window
    <3>. DEFINE q == Day(t)
    <3>4. q \in Int /\ k \in 0..6
      BY <1>0, <3>1
    <3>. HIDE DEF q
    <3>5. \E d \in (q + 1)..(q + 7) : d % 7 = k
      BY <3>4, WeekdayAhead, Zenon
    <3>2. PICK d \in (Day(t) + 1)..(Day(t) + 7) : d % 7 = k
      BY <3>5 DEF q
    <3>3. OccursOn(w, d) /\ d \in Day(t)..(Day(t) + 7) /\ d \in Int /\ d > Day(t)
      BY <1>0, <3>1, <3>2 DEF OccursOn
    <3>. QED
      BY <2>1, <2>2, <3>3
  <2>. HIDE DEF S
  <2>4. NextStart(w, t) = Earliest(S) /\ Earliest(S) # {} /\ Earliest(S) \subseteq S
    <3>1. \A s \in S : t <= s
      BY <2>1
    <3>. QED
      BY <1>2, <2>1, <2>3, <3>1, EarliestIs DEF NextStart, Earliest, S
  <2>5. ASSUME NEW x \in NextStart(w, t), NEW e \in Int, OccursOn(w, e), StartOn(w, e) > t PROVE x <= StartOn(w, e)
    <3>0. x \in S /\ \A s \in S : x <= s
      BY <2>4 DEF Earliest
    <3>1. CASE e \in Day(t)..(Day(t) + 7)
      BY <2>1, <2>5, <3>0, <3>1
    <3>2. CASE e < Day(t)
      <4>1. StartOn(w, e) + DayMinutes <= StartOn(w, Day(t)) /\ StartOn(w, e) \in Int /\ StartOn(w, Day(t)) \in Int
        BY <1>0, <3>2, Occurrences
      <4>2. StartOn(w, Day(t)) < Day(t) * DayMinutes + DayMinutes /\ Day(t) * DayMinutes \in Int
        BY <1>0, TimesSum DEF StartOn, Saved, Window
      <4>3. Day(t) * DayMinutes <= t
        BY DayOf
      <4>. QED
        BY <1>0, <2>5, <4>1, <4>2, <4>3
    <3>3. CASE e > Day(t) + 7
      <4>1. PICK d \in Int : OccursOn(w, d) /\ x = StartOn(w, d) /\ d \in Day(t)..(Day(t) + 7)
        BY <1>0, <3>0 DEF S, StartsAhead
      <4>2. StartOn(w, d) + DayMinutes <= StartOn(w, e) /\ StartOn(w, d) \in Int /\ StartOn(w, e) \in Int
        BY <1>0, <3>3, <4>1, Occurrences
      <4>. QED
        BY <1>0, <4>1, <4>2
    <3>. QED
      BY <1>0, <3>1, <3>2, <3>3
  <2>. QED
    BY <1>2, <2>1, <2>4, <2>5
<1>. QED
  BY <1>1, <1>2

\* A window is open when it begins.
LEMMA OpenAtStart ==
    ASSUME NEW w, Saved(w), w.enabled, NEW d \in Int, OccursOn(w, d)
    PROVE  StartOn(w, d) \in Int /\ OpenAt(w, StartOn(w, d)) = {StartOn(w, d)}
<1>1. StartOn(w, d) \in Int /\ w.minutes \in Nat /\ w.minutes > 0
  BY RulesConstants, Occurrences DEF Saved, Window, Valid
<1>2. Contains(w, d, StartOn(w, d))
  BY <1>1 DEF Contains
<1>. QED
  BY <1>1, <1>2, OpenAtIs

\* What the rounds for a window give, seen at time t: an opening at t or later,
\* or the one of the occurrence that is open.
Opening(w, t, x) ==
    /\ w.enabled /\ \E d \in Int : OccursOn(w, d) /\ x = StartOn(w, d)
    /\ x >= t \/ OpenAt(w, t) = {x}

\* The first round.
LEMMA FirstRound ==
    ASSUME NEW w, Saved(w), NEW t \in Int, NEW x \in NextStart(w, t)
    PROVE  Opening(w, t, x)
<1>1. w.enabled
  BY DEF NextStart, OpenAt
<1>2. x \in Int
  BY <1>1, NextStartIs, Occurrences
<1>. QED
  BY <1>1, <1>2, NextStartIs DEF Opening

\* The next round never goes back.
LEMMA NextRound ==
    ASSUME NEW w, Saved(w), NEW t \in Int, NEW y, Opening(w, t, y), NEW x \in NextStart(w, y + 1)
    PROVE  Opening(w, t, x)
<1>0. w.enabled /\ DayMinutes \in Nat /\ DayMinutes > 0 /\ w.minutes \in Nat /\ w.minutes <= DayMinutes
  BY RulesConstants DEF Opening, Saved, Window, Valid
<1>1. PICK d \in Int : OccursOn(w, d) /\ y = StartOn(w, d)
  BY DEF Opening
<1>2. y \in Int /\ y + 1 \in Int
  BY <1>1, Occurrences
<1>3. PICK e \in Int : OccursOn(w, e) /\ x = StartOn(w, e)
  BY <1>0, <1>2, NextStartIs
<1>4. x \in Int
  BY <1>3, Occurrences
<1>5. ~(e < d)
  <2>1. ASSUME e < d PROVE x + DayMinutes <= y
    BY <1>1, <1>3, <2>1, Occurrences
  <2>2. CASE OpenAt(w, y + 1) = {x}
    <3>1. PICK g \in Int : Contains(w, g, y + 1) /\ OpenAt(w, y + 1) = {StartOn(w, g)}
      BY <1>2, <2>2, OpenAtIs
    <3>2. x = StartOn(w, g)
      BY <2>2, <3>1
    <3>3. y + 1 < x + w.minutes
      BY <3>1, <3>2 DEF Contains
    <3>. QED
      BY <1>0, <1>2, <1>4, <2>1, <3>3
  <2>3. CASE x > y + 1
    BY <1>0, <1>2, <1>4, <2>1, <2>3
  <2>. QED
    BY <1>0, <1>2, <2>2, <2>3, NextStartIs
<1>6. x = y \/ y + DayMinutes <= x
  BY <1>1, <1>3, <1>5, Occurrences
<1>7. CASE y >= t
  BY <1>0, <1>2, <1>3, <1>4, <1>6, <1>7 DEF Opening
<1>8. CASE OpenAt(w, t) = {y}
  <2>1. PICK g \in Int : Contains(w, g, t) /\ OpenAt(w, t) = {StartOn(w, g)}
    BY <1>8, OpenAtIs
  <2>2. y = StartOn(w, g)
    BY <1>8, <2>1
  <2>3. t < y + w.minutes
    BY <2>1, <2>2 DEF Contains
  <2>4. x = y \/ x >= t
    BY <1>0, <1>2, <1>4, <1>6, <2>3
  <2>. QED
    BY <1>0, <1>3, <1>8, <2>4 DEF Opening
<1>. QED
  BY <1>7, <1>8 DEF Opening

\* One more round.
Following(w, S) == UNION {NextStart(w, s + 1) : s \in S}

\* A round follows the one before.
Rounded(w, t, r) == r = [k \in 1..8 |-> IF k = 1 THEN NextStart(w, t) ELSE Following(w, r[k - 1])]

\* The eight rounds exist.
LEMMA RoundsExist ==
    ASSUME NEW w, NEW t
    PROVE  \E r : Rounded(w, t, r)
<1>1. PICK a1 : a1 = NextStart(w, t)
  OBVIOUS
<1>2. PICK a2 : a2 = Following(w, a1)
  OBVIOUS
<1>3. PICK a3 : a3 = Following(w, a2)
  OBVIOUS
<1>4. PICK a4 : a4 = Following(w, a3)
  OBVIOUS
<1>5. PICK a5 : a5 = Following(w, a4)
  OBVIOUS
<1>6. PICK a6 : a6 = Following(w, a5)
  OBVIOUS
<1>7. PICK a7 : a7 = Following(w, a6)
  OBVIOUS
<1>8. PICK a8 : a8 = Following(w, a7)
  OBVIOUS
<1>. DEFINE r == [k \in 1..8 |-> IF k = 1 THEN a1 ELSE IF k = 2 THEN a2 ELSE IF k = 3 THEN a3 ELSE IF k = 4 THEN a4
                                 ELSE IF k = 5 THEN a5 ELSE IF k = 6 THEN a6 ELSE IF k = 7 THEN a7 ELSE a8]
<1>9. /\ r[1] = a1 /\ r[2] = a2 /\ r[3] = a3 /\ r[4] = a4 /\ r[5] = a5 /\ r[6] = a6 /\ r[7] = a7 /\ r[8] = a8
      /\ r = [k \in 1..8 |-> r[k]]
  OBVIOUS
<1>. HIDE DEF r
<1>10. \A k \in 1..8 : r[k] = IF k = 1 THEN NextStart(w, t) ELSE Following(w, r[k - 1])
  <2>. SUFFICES ASSUME NEW k \in 1..8 PROVE r[k] = IF k = 1 THEN NextStart(w, t) ELSE Following(w, r[k - 1])
    OBVIOUS
  <2>1. k = 1 \/ k = 2 \/ k = 3 \/ k = 4 \/ k = 5 \/ k = 6 \/ k = 7 \/ k = 8
    OBVIOUS
  <2>. QED
    BY <2>1, <1>1, <1>2, <1>3, <1>4, <1>5, <1>6, <1>7, <1>8, <1>9
<1>11. r = [k \in 1..8 |-> IF k = 1 THEN NextStart(w, t) ELSE Following(w, r[k - 1])]
  BY <1>9, <1>10
<1>. QED
  BY <1>11 DEF Rounded

\* The rounds: the next start is among them, and each gives openings.
LEMMA RoundsAre ==
    ASSUME NEW w, Saved(w), NEW t \in Int
    PROVE  /\ NextStart(w, t) \subseteq Rounds(w, t)
           /\ \A x \in Rounds(w, t) : Opening(w, t, x)
<1>. DEFINE r == CHOOSE f : f = [k \in 1..8 |-> IF k = 1 THEN NextStart(w, t) ELSE UNION {NextStart(w, s + 1) : s \in f[k - 1]}]
<1>1. r = [k \in 1..8 |-> IF k = 1 THEN NextStart(w, t) ELSE UNION {NextStart(w, s + 1) : s \in r[k - 1]}]
  <2>1. \E f : f = [k \in 1..8 |-> IF k = 1 THEN NextStart(w, t) ELSE UNION {NextStart(w, s + 1) : s \in f[k - 1]}]
    <3>1. PICK f : Rounded(w, t, f)
      BY RoundsExist
    <3>2. f = [k \in 1..8 |-> IF k = 1 THEN NextStart(w, t) ELSE UNION {NextStart(w, s + 1) : s \in f[k - 1]}]
      BY <3>1 DEF Rounded, Following
    <3>. QED
      BY <3>2, Zenon
  <2>. QED
    BY <2>1, Zenon
<1>2. Rounds(w, t) = UNION {r[k] : k \in 1..8}
  BY DEF Rounds
<1>. HIDE DEF r
<1>3. \A k \in 1..8 : r[k] = IF k = 1 THEN NextStart(w, t) ELSE UNION {NextStart(w, s + 1) : s \in r[k - 1]}
  <2>. SUFFICES ASSUME NEW k \in 1..8 PROVE r[k] = IF k = 1 THEN NextStart(w, t) ELSE UNION {NextStart(w, s + 1) : s \in r[k - 1]}
    OBVIOUS
  <2>. QED
    BY <1>1
<1>4. r[1] = NextStart(w, t)
  BY <1>3
<1>. DEFINE Gives(k) == \A x \in r[k] : Opening(w, t, x)
<1>5. Gives(1)
  BY <1>4, FirstRound
<1>6. ASSUME NEW k \in 1..7, Gives(k) PROVE Gives(k + 1)
  <2>1. r[k + 1] = UNION {NextStart(w, s + 1) : s \in r[k]}
    BY <1>3
  <2>2. ASSUME NEW x \in r[k + 1] PROVE Opening(w, t, x)
    <3>1. PICK s \in r[k] : x \in NextStart(w, s + 1)
      BY <2>1
    <3>2. Opening(w, t, s)
      BY <1>6
    <3>. QED
      BY <3>1, <3>2, NextRound
  <2>. QED
    BY <2>2
<1>. HIDE DEF Gives
<1>7. Gives(2) /\ Gives(3) /\ Gives(4)
  <2>1. Gives(1 + 1)
    BY <1>5, <1>6
  <2>2. Gives(2 + 1)
    BY <2>1, <1>6
  <2>3. Gives(3 + 1)
    BY <2>2, <1>6
  <2>. QED
    BY <2>1, <2>2, <2>3
<1>8. Gives(5) /\ Gives(6) /\ Gives(7) /\ Gives(8)
  <2>1. Gives(4 + 1)
    BY <1>7, <1>6
  <2>2. Gives(5 + 1)
    BY <2>1, <1>6
  <2>3. Gives(6 + 1)
    BY <2>2, <1>6
  <2>4. Gives(7 + 1)
    BY <2>3, <1>6
  <2>. QED
    BY <2>1, <2>2, <2>3, <2>4
<1>9. ASSUME NEW k \in 1..8 PROVE Gives(k)
  <2>1. k = 1 \/ k = 2 \/ k = 3 \/ k = 4 \/ k = 5 \/ k = 6 \/ k = 7 \/ k = 8
    OBVIOUS
  <2>. QED
    BY <2>1, <1>5, <1>7, <1>8
<1>. QED
  BY <1>2, <1>4, <1>9 DEF Gives
\* The saved windows, and the clock.
RulesInv == windows \subseteq {w \in Window : Valid(w)} /\ now \in Nat

\* Only valid windows are saved.
LEMMA RulesHold == RulesSpec => []RulesInv
<1>1. RulesInit => RulesInv
  BY DEF RulesInit, RulesInv
<1>2. RulesInv /\ [RulesNext]_ruleVars => RulesInv'
  BY RulesConstants DEF RulesInv, RulesNext, InsertWindow, UpdateWindow, DeleteWindow, Advance, ruleVars
<1>. QED
  BY <1>1, <1>2, PTL DEF RulesSpec

\* A device may be changed at t exactly when no window holds it back.
LEMMA FreeIs ==
    ASSUME RulesInv, NEW g, NEW t \in Int
    PROVE  DueInWindows({g}, windows, t) <=> FreeAt(g, t)
<1>1. ASSUME NEW w \in windows PROVE (OpenAt(w, t) # {}) <=> IsOpen(w, t)
  <2>1. Saved(w)
    BY DEF RulesInv, Saved
  <2>. QED
    BY <2>1, OpenAtIs
<1>2. ASSUME NEW w \in windows PROVE IsOpen(w, t) => w.enabled
  BY DEF IsOpen
<1>3. DueInWindows({g}, windows, t) <=> InWindow(windows, g, t)
  BY DEF DueInWindows
<1>4. InWindow(windows, g, t) <=> FreeAt(g, t)
  BY <1>1, <1>2 DEF InWindow, FreeAt, Covers
<1>. QED
  BY <1>3, <1>4

\* Looking at today's and yesterday's occurrence is enough, in every week and
\* across midnight: openAt finds an occurrence exactly when some day has one.
THEOREM WindowsOpenOnTime == RulesSpec => []OpenAtFindsOccurrence
<1>1. ASSUME RulesInv PROVE OpenAtFindsOccurrence
  <2>1. \A w \in windows : Saved(w) /\ now \in Int
    BY <1>1 DEF RulesInv, Saved
  <2>. QED
    BY <2>1, OpenAtIs DEF OpenAtFindsOccurrence
<1>2. RulesInv => OpenAtFindsOccurrence
  BY <1>1
<1>. QED
  BY <1>2, RulesHold, PTL

\* An opening is no more than a day ago.
LEMMA OpeningsAreNear ==
    ASSUME NEW w, Saved(w), NEW t \in Int, NEW x, Opening(w, t, x)
    PROVE  x \in Int /\ t - DayMinutes <= x
<1>0. DayMinutes \in Nat /\ w.minutes \in Nat /\ w.minutes <= DayMinutes
  BY RulesConstants DEF Saved, Window, Valid
<1>1. x \in Int
  BY Occurrences DEF Opening
<1>2. CASE OpenAt(w, t) = {x}
  <2>1. PICK d \in Int : Contains(w, d, t) /\ OpenAt(w, t) = {StartOn(w, d)}
    BY <1>2, OpenAtIs
  <2>2. x = StartOn(w, d)
    BY <1>2, <2>1
  <2>3. t < x + w.minutes
    BY <2>1, <2>2 DEF Contains
  <2>. QED
    BY <1>0, <1>1, <2>3
<1>. QED
  BY <1>0, <1>1, <1>2 DEF Opening

\* The estimate is the earliest of the candidates at which the change is due.
LEMMA EstimateIsRight ==
    ASSUME RulesInv, NEW g
    PROVE  \E s \in NextRun({g}, windows, now) :
              /\ FreeAt(g, s)
              /\ s > now => \A t \in now..(s - 1) : ~FreeAt(g, t)
              /\ s <= now => FreeAt(g, now) \/ \E w \in windows : w.group \notin {g, NoGroup} /\ OpenAt(w, now) = {s}
<1>0. now \in Int /\ DayMinutes \in Nat /\ \A w \in windows : Saved(w)
  BY RulesConstants DEF RulesInv, Saved
<1>. DEFINE S == {s \in {now} \cup UNION {Rounds(w, now) : w \in windows} : DueInWindows({g}, windows, s)}
<1>1. ASSUME NEW s \in S, s # now
      PROVE  \E w \in windows : Opening(w, now, s)
  BY <1>0, <1>1, RoundsAre
<1>2. ASSUME NEW s \in S
      PROVE  s \in Int /\ now - DayMinutes <= s /\ FreeAt(g, s)
  <2>1. s \in Int /\ now - DayMinutes <= s
    BY <1>0, <1>1, <1>2, OpeningsAreNear
  <2>2. DueInWindows({g}, windows, s)
    BY <1>2
  <2>. QED
    BY <2>1, <2>2, FreeIs
<1>3. FreeAt(g, now) => now \in S
  BY <1>0, FreeIs
<1>4. ASSUME NEW w \in windows, w.enabled, w.group \in {g, NoGroup}, NEW s \in NextStart(w, now)
      PROVE  s \in S /\ s \in Int
  <2>1. Saved(w)
    BY <1>0
  <2>2. PICK d \in Int : OccursOn(w, d) /\ s = StartOn(w, d)
    BY <1>0, <1>4, <2>1, NextStartIs
  <2>3. s \in Int /\ OpenAt(w, s) # {}
    BY <1>4, <2>1, <2>2, OpenAtStart
  <2>4. IsOpen(w, s)
    BY <2>1, <2>3, OpenAtIs
  <2>5. DueInWindows({g}, windows, s)
    BY <1>4, <2>3, <2>4, FreeIs DEF FreeAt
  <2>6. s \in Rounds(w, now)
    BY <1>0, <2>1, RoundsAre
  <2>. QED
    BY <2>3, <2>5, <2>6
<1>5. S # {}
  <2>1. CASE FreeAt(g, now)
    BY <1>3, <2>1
  <2>2. CASE ~FreeAt(g, now)
    <3>1. PICK w \in windows : w.enabled /\ w.group \in {g, NoGroup}
      BY <2>2 DEF FreeAt
    <3>2. NextStart(w, now) # {}
      BY <1>0, <3>1, NextStartIs
    <3>. HIDE DEF S
    <3>. QED
      BY <1>4, <3>1, <3>2
  <2>. QED
    BY <2>1, <2>2
<1>6. NextRun({g}, windows, now) = Earliest(S)
  BY DEF NextRun
<1>. HIDE DEF S
<1>7. PICK s \in Earliest(S) : TRUE
  <2>1. S \in SUBSET Int /\ now - DayMinutes \in Int
    BY <1>0, <1>2
  <2>. QED
    BY <1>2, <1>5, <2>1, EarliestIs
<1>8. s \in S /\ \A r \in S : s <= r
  BY <1>7 DEF Earliest
<1>9. s \in Int /\ FreeAt(g, s)
  BY <1>2, <1>8
<1>10. ASSUME s > now, NEW t \in now..(s - 1), FreeAt(g, t)
       PROVE  FALSE
  <2>1. ~FreeAt(g, now)
    BY <1>0, <1>3, <1>8, <1>9, <1>10
  <2>2. t \in Int /\ now <= t /\ t < s
    BY <1>0, <1>9, <1>10
  <2>3. PICK w \in windows : w.group \in {g, NoGroup} /\ IsOpen(w, t)
    BY <1>10, <2>1 DEF FreeAt
  <2>4. Saved(w) /\ w.enabled
    BY <1>0, <2>3 DEF IsOpen
  <2>5. OpenAt(w, now) = {}
    <3>1. ~IsOpen(w, now)
      BY <2>1, <2>3 DEF FreeAt
    <3>. QED
      BY <1>0, <2>4, <3>1, OpenAtIs
  <2>6. PICK d \in Int : Contains(w, d, t)
    BY <2>2, <2>3, <2>4, OpenAtIs
  <2>7. StartOn(w, d) \in Int /\ StartOn(w, d) <= t /\ t < StartOn(w, d) + w.minutes /\ OccursOn(w, d) /\ w.minutes \in Nat
    BY <2>4, <2>6, Occurrences DEF Contains, Saved, Window
  <2>8. StartOn(w, d) > now
    <3>1. ~Contains(w, d, now)
      BY <1>0, <2>4, <2>5, OpenAtIs
    <3>. QED
      BY <1>0, <2>2, <2>7, <3>1 DEF Contains
  <2>9. PICK y \in NextStart(w, now) : TRUE
    BY <1>0, <2>4, NextStartIs
  <2>10. y <= StartOn(w, d)
    <3>1. OpenAt(w, now) # {y}
      BY <2>5
    <3>. QED
      BY <1>0, <2>4, <2>7, <2>8, <3>1, NextStartIs
  <2>11. s <= y /\ y \in Int
    BY <1>4, <1>8, <2>3, <2>4
  <2>. QED
    BY <1>9, <2>2, <2>7, <2>10, <2>11
<1>11. ASSUME s <= now, ~FreeAt(g, now)
       PROVE  \E w \in windows : w.group \notin {g, NoGroup} /\ OpenAt(w, now) = {s}
  <2>1. s # now
    BY <1>9, <1>11
  <2>2. PICK w \in windows : Opening(w, now, s)
    BY <1>1, <1>8, <2>1
  <2>3. OpenAt(w, now) = {s}
    BY <1>0, <1>9, <1>11, <2>1, <2>2 DEF Opening
  <2>4. IsOpen(w, now)
    BY <1>0, <2>3, OpenAtIs
  <2>5. w.group \notin {g, NoGroup}
    BY <1>11, <2>4 DEF FreeAt
  <2>. QED
    BY <2>3, <2>5
<1>. QED
  BY <1>6, <1>7, <1>9, <1>10, <1>11

\* The panel's estimate of the start is right for devices of one group: the
\* first minute at which no window holds them back, or they may start now.
THEOREM EstimatesAreRight == RulesSpec => []EstimateIsFirst
<1>1. RulesInv => EstimateIsFirst
  BY EstimateIsRight DEF EstimateIsFirst
<1>. QED
  BY <1>1, RulesHold, PTL
=============================================================================
