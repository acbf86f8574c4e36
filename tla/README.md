# TaktaPlus: specifications, checks and proofs

TaktaPlus (`src/`) is a Go server that manages Fortinet devices: it keeps an
inventory, polls devices, stores and restores their configurations, plans and
executes changes with approvals, serves packages and firmware, and answers
two-factor logins. State is in one PostgreSQL database, a directory of files,
and the memory of one process. This directory models the parts of it that are
hard to test: several goroutines, requests and restarts over shared tables.

## 1. Inventory

| Component | State it keeps | Operations | What is hard | What makes it correct |
|---|---|---|---|---|
| changes: workflow and engine (`internal/changes`) | tables `changes`, `change_targets`, `change_approvals`; in memory the locked devices and cancel flags | Create, Submit, Decide, Cancel, RunNow; Tick, execute, runTarget; recovery | Tick acts on an old list, goroutines fan out, cancels race the finish, crashes | one change per device, only approved changes run, canaries gate the rest, results are final, everything ends |
| changes: windows (`windows.go`, `dueAt`, `nextRun`) | table of windows | SaveWindow, DeleteWindow, openAt, next, covers | midnight, week end, several groups | agrees with the definition by occurrences |
| backup (`internal/backup`) | `backups`, `restore_jobs`, `backup_policies`, encrypted files | Run, Delete, SetLock, Restore, watch, RecoverJobs, policies, RunDue | files and rows change in separate steps, retention runs beside everything, requests are abandoned | a stored row has its file, newest kept, one restore at a time, jobs end |
| inventory, monitor (`internal/inventory`, `internal/monitor`) | `devices`, status, metrics; due times and the running set | Create, Update, Delete, Probe, SaveHealth, MarkUnreachable, Refresh, schedule | a refresh beside a poll, timeouts, cascades | one poll per device, status of the latest answer |
| alerts (`internal/alerts`) | rules, channels, alerts, pending conditions | Evaluate, Ack, notify, edits | an error in the middle of Evaluate, lost messages, rules edited while alerts are open | the channel knows the open alerts, durations hold, an open alert is notified |
| auth (`internal/auth`, session middleware of `internal/api`) | users, sessions | Login, Authenticate, VerifyMFA, EnableTOTP, Reauthenticate, user administration | what was read is stale when it is written | resets and new passwords end what they should, an administrator remains |
| otp, ldap, radius (`internal/otp`, `internal/radiussrv`) | two-factor users, challenges, client cache | Create, Update, import, CheckPassword, StartChallenge, VerifyChallenge, SetClient | packets repeated and handled at once, capacity checked before the write | capacity is kept, a code is used once, failures and sends are counted |
| license (`internal/license`) | active license, clock floor; stored token | Install, Load, TouchClock, Heartbeat, Clear | guard and table change one after the other, answers arrive late or not | guard and row agree, expiry stays, a revocation arrives |
| packages (`internal/packages`) | catalogue, content files, sources | Upload, Update, Delete, bundle import, SaveSource, Sync | file and row in two steps, concurrent syncs, stale reads | a row has its content, a sync restores what is offered |
| file server (`internal/fileserver`) | grants | Grant, Revoke, lookup, TFTP and FTP sessions | sessions outlive their grant | nothing is served beyond its time |
| deploy, scripts (`internal/deploy`, `internal/scripts`) | runners of changes; scripts, variables | install, verify, firmware path, script runs, RunReadOnly | resolved and rendered again when run, reboots, variables and device data that change | what ran is what was approved, on the release it fits |
| sms, smtpgw | messages sent; synced local users | Send, mail sessions, SyncUsers | several senders, one recipient of several fails | an accepted mail was delivered, the rate limit is shared |
| device drivers, audit, settings, secretbox, config, store, tlscert, web panel | none of their own, or one value | input and output | | not modelled |

Interaction: the panel's handlers call the services; the change executor calls
`backup.Run` before it touches a device, and deploy's executors; the backup
scheduler, the monitor, the license heartbeat and the change scheduler are
goroutines of `main`; everything meets in the database, and deleting a device
removes its rows in every table by cascade.

## 2. Modules

| Module | Models |
|---|---|
| `ChangeEngine` | `changes.go`, `engine.go`: workflow, scheduler, executor, goroutines, recovery |
| `ChangeLifecycle` | what a change promises its users: the abstract life of changes and who works on a device |
| `ChangeRefinement` | the mapping from `ChangeEngine` to `ChangeLifecycle` |
| `ChangeRules` | `windows.go`, `dueAt`, `nextRun`, as operators against reference definitions |
| `ChangesProofs` | theorems about `ChangeEngine`, its refinement, and `ChangeRules` |
| `BackupStore` | `backup.go`, `restore.go` for one device |
| `BackupStoreProofs` | theorems about `BackupStore` |
| `Access` | `internal/auth`, the session middleware and the sign-in and user handlers |
| `AccessProofs` | theorems about `Access` |
| `License` | `internal/license`: guard, manager, heartbeat loop |
| `LicenseProofs` | theorems about `License` |
| `Radius` | `internal/radiussrv` and the challenges of `internal/otp` |
| `RadiusProofs` | theorems about `Radius` |
| `SmsGateway` | two-factor users and import (`internal/otp`), `internal/smtpgw`, the rate limit of `internal/sms` |
| `SmsGatewayProofs` | theorems about `SmsGateway` |
| `Monitoring` | `internal/monitor`, the device rows of `internal/inventory`, `internal/alerts` |
| `MonitoringProofs` | theorems about `Monitoring` |
| `Packages` | `internal/packages` |
| `Runners` | `internal/deploy`, `internal/scripts`, `internal/fileserver`; extends `Packages` |
| `RunnersProofs` | theorems about `Packages` and `Runners` |
| `MC...` | instances for TLC |

**ChangeEngine.** Variables under "PostgreSQL" are columns; those under
"memory" vanish in `Crash`. One action is one statement, one transaction or
one critical section of the service's mutex. `Tick` is `TickList` (the list,
the devices and windows it reads), then for the oldest listed change `TickSkip`
or `TickLock` (lock takes all devices or none), then the conditional UPDATE
(`TickStart`, or `TickLost` when the change is no longer approved). `execute`
is a program counter per change (`epc`), `runTarget` one per change and device
(`wpc`). Cancel of a running change reads the status (`CancelObserve`) and sets
the flag later (`CancelFlag`). With `DbFaults` statements of Tick, execute and
runTarget may fail. The approval policy appears as the number of approvals a
plan requires (0, 1 or 2, as `requiredFor` yields).

**ChangeRules.** A week of `DayMinutes`-long days and windows down to
`MinMinutes`; the code has 1440 and 15. The operators follow the code's
arithmetic; `Contains` and `OccursOn` define occurrences directly. Its
specification is `RulesSpec`, so that one module of proofs can extend it and
`ChangeEngine`.

**BackupStore.** A call of Run, Delete or Restore is a process; a file is
named by the number of its write (time plus four random bytes in the code). A
restore inlines its safety backup (`pc` goes through Run's steps). `rule` is the
most specific enabled policy's retention, `story.slots` the times its schedule
names; `RunDue` is a scheduled Run. `gone` holds calls whose request context has
ended: their next statement fails, and an INSERT may have been applied all the
same (`story.abandoned` says for which calls). Database errors for other reasons
are left out.

**Access.** A call is one HTTP request: `AuthRead` (and `AuthTouch`) load the
session, the rest are the handler's statements. Passwords and secrets are the
number of their replacement. `resets`, `late` and `stale` observe what the
tables do not keep: how often a second factor was reset, and which writes were
overtaken.

**License.** `lic` and `floor` are the guard, `token` and `maxSeen` the row.
A request uploads a token or activates online; the loop sends heartbeats whose
answers (`ServerAnswers`, external) may be lost, late or wrong. `torn` marks the
cases in which nothing in the code keeps guard and row together: two writers at
once, a failed write, the end of the process in between.

**Radius.** A packet is a process that walks through ServeRADIUS: look up the
client, check the password, count and send a code, open a challenge; or verify
one. `wrong` and `tries` count independently of the code; `raced` holds the
users for whom two packets were between a read and its write.

**SmsGateway.** Panel requests, imports, mails, RADIUS sign-ins and sync passes
are calls over `users`, `synced` and `sent`. Here and in `Radius` the codes
counted are, as in the code, the messages logged as sent: one that the provider
took while its answer was lost is logged as failed, and no limit counts it.

**Monitoring.** Contacts are the monitor's polls, the panel's refreshes and the
probe of a device just created. Whoever answers may report a serial that another
row has (`SerialTaken`): the UPDATE of Probe is refused by `devices_serial_key`
and the row stays as it was, and `createDevice` deletes the new device again
(`Undo`). A contact whose context has ended (a probe that timed out, a request of
the panel that was cancelled) stores nothing (`Drop`, `Cancelled`). The license
says of a serial that it is good, near its end or in grace, expired, or not in it;
the first two allow signatures and health, the middle two concern a license
rule. A pass of Evaluate reads a snapshot, applies the rule to a device at a
time and notifies at the end. One rule with one channel; conditions are kinds.
An alert counts as notified when `last_notified_at` is set, which the code does
although the channel may have refused the message.

**Packages, Runners.** Contents stand for their SHA-256. A job is a request or
a sync, one action per statement or file operation. The host key a request of
SaveSource carries is taken to be that of its host; when it carries none, as the
panel's, the stored key is kept unless the host changed. `Runners` adds the run of
one change on one device: it is previewed (`Create...`), resolved again when it
runs, and meanwhile catalogue, variables, inventory and device change. A script's
body is copied into the change. What fills it is not: `BeginScript` reads the
device's row (`listed`: a datum of `.Device`, and whether the device is in the
group that has a value), and `RunScript` renders the body again with it and with
the variables of that moment, while `EditDevice` and `SetVariable` write both. The
composition is by EXTENDS: a step is one of the catalogue or one of a runner.

Several properties hold *unless* something happened that the code does not
guard against (two calls overlapped at a certain point). Each such exception is
an observation variable set by exactly that interleaving, so that the property
still says that nothing else goes wrong, and the exception is listed as a note
of its hazard in `PROJECT.json`.

## 3. Runs

| Run | Instance | Shows |
|---|---|---|
| `overlap` | two changes sharing a device, one with a canary, the other cancellable, the device deletable, one crash | exclusivity, settled ends, honest outcome, a step of `ChangeLifecycle` each; a run-now change starts, a running one ends |
| `execution` | one change; three devices with 0 to 2 canaries, 1 or 2 goroutines, 0 or 1 failure allowed; two with backup and approval; one with two approvals and every run mode; failing statements, one crash | lock protocol, approvals, canary gate, failure bound, final results |
| `windows` | two window rows of every start and length over two weeks | window arithmetic, the estimate for one group |
| `backup` | six stories of one device: two Runs and a Delete that keep one backup; with restart and device deletion; retention by count at once; by age with a lock; two restores, one abandoned, a Run and a restart; a schedule with a missed day and a restart | rows have files, newest kept, slots served once, one restore at a time, safety backup first, jobs are owned and end |
| `access` | two users (administrator and administrator, viewer without second factor, or none yet), three sessions, two requests, lock after 2 | second factor since the last reset, old passwords, last administrator, secrets |
| `license` | a license, its successor, one of another installation; one request beside the loop, clock to 2, one crash | expiry, agreement of guard and row, no older license, revocations arrive |
| `radius` | two users, three packets, two challenges, limits of one code and one attempt, lock after 2, one event | one acceptance by the owner, bounded attempts and sends, counted failures, current cache |
| `gateway` | two users, one device, three calls, capacity up to 2, one code per mobile, one event | capacity, whole imports, delivered mails, shared rate limit, synced users |
| `monitoring` | two contacts with a new device; an offline rule with duration and repeat and a metric rule beside one contact; a license rule on two devices; two or three events; serials of other rows, cancelled requests | one poll per device, latest status, what the channel knows, durations, notification in the end |
| `delivery` | two contents of one name, two sources, two hosts, two jobs; deployments beside uploads and deletions; every catalogue of four releases; a script with a variable in three scopes, on a device whose data and group change | catalogue and runner properties |

A property that makes one promise in several respects is a conjunction of named
parts, each with its own comment: `EndIsHonest`, `RolloutIsGated`,
`JobsAreOwned`, `NothingIsLost`, `SecondFactorHolds`, `GuardAgreesWithRow`,
`GivesWayOnlyToNewer`, `CodesAreSafe`, `CountsHold`, `SendingHolds`,
`UsersAreKept`, `InventoryIsTrue`, `CatalogueIsSound`, `SyncIsFaithful`,
`RunsAsApproved`, `RunsTellTheTruth`. Each part has a mutant of its own. The
module's type invariant is a part of one of them.

Two runs find a disagreement between the code and what it says of itself (under
`findings` in `PROJECT.json`):

* `backup_cascade`: retention deletes the backup under restore, its job goes by
  cascade, and a second restore starts. The `backup` run has restores without a
  retention rule.
* `script_text`: the comments on `scripts.Spec` and on the preview say that
  approvers see exactly the text that runs. A variable set, or the device's data
  or group changed, between preview and run changes it (`RunsApprovedText`). The
  `delivery` run checks what the code does keep (`ApprovedTextRuns`): without such
  a change the approved text runs, whatever becomes of the script.

What the models show of the code beyond that, as notes of the hazards: an old
due change is not among the 200 rows Tick reads while 200 newer ones wait;
`nextRun` finds no estimate for two groups whose windows meet only at a later
opening, and can give the past start of another group's open window; an abandoned restore request leaves its job active until a restart; a
backup locked during a Delete is removed; administrators can demote each other
at once; codes, failures and capacity are counted before they are written; a
revocation that arrives late takes the license that replaced the revoked one.

*Bounds.* Two changes and one shared device are enough for every conflict of
locks; three devices with two goroutines give a canary, one in flight and one
waiting. Two calls plus a deletion give every pair of removals of one row.
Two requests, packets or jobs give every pair of overlapping calls, a third one
the retry of what was lost; limits (attempts, sends, failures, capacity, TTL) are
1 or 2 so that they are reached. Four releases give upgrade paths of one to three
steps with dead ends. `MaxCrashes`, `MaxBackups`, `MaxClock`, `MaxEvents`,
`MaxCap`, `ListLimit`, `Cancellable` and `Deletable`, and the fields of the
stories (`jobs`, `events`, `lockable`, `clock`, `crashes`) are the named bounds.
A story is an initial state that switches on the actors of one question, so that
one run asks several without their product. Symmetric are users in `execution`,
packets and challenges in `radius`, calls and names in `gateway`, hosts and jobs
in `delivery`; none of these runs checks liveness. In `overlap` one of the two
changes can be cancelled: a cancel disturbs the other one only through the lock. `CHECK_DEADLOCK FALSE`: the instances
run out of changes and calls, and a quiet server is no error.

*Fairness.* Weak fairness of the scheduler, of each execute and each
runTarget, and of a begun backup or restore: they are goroutines whose every
wait has a timeout. Weak fairness of a pass of Evaluate, which the monitor's
ticker starts. For `RevocationArrives`: weak fairness of the heartbeat's steps,
strong fairness of its start (a ticker, interrupted by restarts) and of the
server's answer to it (not every heartbeat is lost). Nothing is assumed of users, windows, devices, reboots or
crashes.

*Mutants.* Each property of a passing run has one or more mutated definitions (in
the modules, marked "Mutant") that TLC shows to break it.

## 4. Proofs

Every theorem is about instances of any size and rests on the named assumptions
on the constants only: `ConstantsOK` and `FreeOK` (finitely many devices and
users; the value for "no change" is no change), `BackupConstants`,
`LicenseConstants`, `AccessConstants` (the states of the database `Story`
allows: somebody administers it, open sessions belong to users that exist and
hold their password, an enabled second factor has its secret), `GatewayConstants` (finitely many
names), `RadiusConstants` (limits of at least one), `MonitoringConstants` (there
is a device), `RulesConstants` (a day has minutes, a window is no longer than a
day), `PackagesConstants` and `RunnersConstants` (there is a host; finitely many
firmware releases, numbered from 1 in their order; an image's list names
releases). Where a theorem has a condition of its own, it is named below.

**ChangesProofs, the workflow.**

* `TypeCorrect`: `Spec => []TypeOK`, action by action.
* `LocksAreConsistent`: `Spec => []LockDiscipline`. That no two changes work on
  a device is not inductive: it holds because goroutines work only on devices
  captured at lock time, captured devices are locked, two changes capture
  disjoint sets, and the lock is given back after the last goroutine.
  `LockDiscipline` says this, with the status each step of execute implies.
  Most actions are shown `Quiet` (they touch no lock and no program counter of
  execute); the steps inside execute are `Inside`; lock, start, give-up, unlock
  and crash are done one by one. It covers failing statements.
* `DevicesAreExclusive`, `WorkIsRunning`: consequences.
* `RunsAreApproved`: with `Vetted` (no approval by the creator, none before the
  change exists, enough of them once it is approved) as the invariant; all
  steps but those of the panel are `Unvetting`.

**ChangesProofs, the executor and the refinement.** All build on `TypeOK` and
`LockDiscipline`.

* `ResultsStay`: no result is written over, also with failing statements. The
  invariant `TargetsFresh` says that the targets still to be launched, and those
  of goroutines before their last update, have no result yet, and that a change
  that has not started has none at all.
* `EndsAreHonest`, `RunningChangesAreExecuted`, for `~DbFaults`: the invariant
  `AllSettled` states what each statement of execute, and each of the two
  statements of the recovery, leaves for the next one. The condition is needed:
  when the UPDATE of a target fails the code goes on, and the target stays
  "running" under an ended change.
* `RolloutsAreGated`, with failing statements: `Gated` ties the phase of
  execute to the canaries' outcome; `Bounded` counts: failures plus
  goroutines past `stop()` never exceed `max_failures` plus the concurrency.
* `EngineImplementsLifecycle`, for `~DbFaults`: `Spec => Lifecycle`, the
  refinement of `ChangeLifecycle`. `Reads` says what the mapping makes of a state
  (work, lease, phase); every action is then shown to be one abstract step or a
  stutter from the reading before and after.

**ChangesProofs, windows.** For a day of any length and windows of any minutes up
to a day, as `SaveWindow` admits them (`RulesInv`).

* `WindowsOpenOnTime`: occurrences of one window begin at least a day apart and
  last no longer, so only the one of today or of yesterday can contain a time, and
  one at most (`TodayOrYesterday`); openAt looks at exactly these two.
* `EstimatesAreRight`: the openings that count are bounded below and some exist
  (`Following`), so there is a least one; a round of `nextRun` gives an opening
  from now on or the beginning of the one that is open (`Opening`), and for one
  group the first round already gives the first. The eight rounds are a function
  over 1..8, unrolled (`RoundsAre`).

**BackupStoreProofs.**

* `BackupsAreReadable`: rows have files, where no request is abandoned (that is
  part of `RowHasFile`). `FileDiscipline` adds that no two rows name a file, that
  a file waiting for its row belongs to one call and to no row, and that a file
  about to be removed belongs to a row that is gone.
* `EveryJobIsOwned`: `Typed` adds to the types that there is room for every row
  and file still to come (`Room`, a count of the calls before their INSERT), and
  that fetched and stored texts are configurations (`Known`). `Restores` says of
  each restore at each of its steps which job it has (`Attended`), and that at
  most one job is active.
* `OneRestoreAtATime`: `Spec => [](BackupsStay => RestoreExclusive)`, from
  `Restores`. Without `BackupsStay` it is false, which is what the run
  `backup_cascade` shows.
* `TheWayBackStays`: `Drops` says that a stored row a call is about to remove
  by retention has a newer stored one; with `Restores` the uploading restore has
  stored what it fetched.
* `SlotsAreServedOnce`: `Slots`, passes are at most the slots up to the last one
  served.

**LicenseProofs.** `GuardAndRowAgree`, `LicensesGiveWay` from `LicenseInv`: the
floor leads the row, at most one call is between guard and row and the guard has
what it is about to write, only bound tokens get to the row, an answer "revoked"
is about a license that is.

**AccessProofs.** `SecondFactorIsWhole`, `OldPasswordsEnd`, `AnAdminRemains` from
`AccessInv`: what a request between two statements can still rely on
(`CallsHold`: its session's user, the code it checked, its own role when it
updates itself) and that who can sign in has a row (`RowsHold`).

**SmsGatewayProofs.** `SendingIsWhole`, `UsersStay`, `AddingIsLicensed` from
`GatewayInv`: `Fits` says what the record of a call is good for at each step;
every step of another call keeps it or marks the call as disturbed or raced.
The counting of licensed users is by cardinality (`OneMore`).

**RadiusProofs.** `CodesStaySafe`, `CountsAreKept`, `CachedClientIsCurrent` from
`RadiusInv`: a packet that found its code right holds a deleted challenge
(`Fits`), no two hold the same one (`HeldOnce`), and the wrong codes of an open
challenge are its attempts (`TriedIsCounted`).

**MonitoringProofs.** `InventoryStaysTrue` from `InventoryInv`: `Monitor.running`
is the devices of the polls, each of which has one (`PollsAreRunning`), and an
answer on its way is the device's latest unless another one was
(`AnswerIsLatest`). The status is that of the latest answer, but for a device
that answered two contacts before either was stored, and one whose answer was not
stored (timeout, cancelled request, end of the process, serial of another row);
`blurred` holds these until the next answer that is stored and meets no other. `ChannelStaysInStep` and `AlertsWaitTheirTime` from
`AlertInv`: a pass treats a device once, a message it has gathered is about the
alert as it stands (`MessagesAreTrue`), and what `alert_pending` records was seen
at least as long (`SeenLongEnough`).

**RunnersProofs, the catalogue.** For any number of jobs, sources, hosts and
contents.

* `CatalogueStaysSound` from `CatalogueInv`: what a job at each step is (`Sane`);
  a file is stored before its row is written (`StoredBeforeRow`); deletions and
  edits that meet a write are seen (`DeletionsAreSeen`, `EditsAreSeen`), so that
  the exceptions cover no more than those meetings.
* `SyncsAreFaithful` from `SyncInv`: a sync treats what was listed and nothing
  else (`Covers`), and what it has done stands while no other job moves
  (`AloneStands`).
* `RunnersReadTheCatalogue`: `RunnersSpec => Spec`. Every step of a runner is a
  step of `Packages` or leaves its variables alone, so both theorems hold of the
  composition too.

**RunnersProofs, the runners.** All from `RunnersInv`, with the catalogue free to
change at any step.

* `RunsAreTrue`: `RunsTellTheTruth`, part by part.
  *The path is shortest* (`PathsAreShortest`), for every set of releases and every
  catalogue of images. `Breadth` is the invariant of the breadth-first search,
  with the number of steps to each release as an auxiliary function: the queue is
  in order of it and spans at most two values (`Level`), what is done has been
  followed (`Followed`), each release seen is one step beyond its predecessor
  (`Reached`). `SearchIsShortest` compares this with any other way; the way back
  along `prev` is `BackSteps` and `BackLeads`. The search ends because each step
  takes a release that was not done. Induction over the steps is stated with sets
  of naturals (`NatInd`, `Iterates`).
  *The value is of the narrowest scope* (`MergedIs`), the group's for its devices
  only: the rows are read in an unspecified order, and in each order the winner
  is the highest scope (`WinnerIsHighest`), so that all orders agree
  (`OrdersAgree`).
  *A verified package is on the device* from `DoneIsShown`, *a run outside a
  change only reads* from its own part of the invariant.
* `RunsKeepTheirApproval`: `RunsAsApproved`, an action property. `OnPath`: the
  images left lead from the release on the device to the target, each accepted by
  the one after it; `GrantsAreKnown`: neither a grant nor the session that logged
  in with it ends later than the file was granted; `TextIsApproved`: a planned
  script renders to what was approved, with the device as it is listed or as
  the run has read it, unless a variable or the device's row changed.

Four of these proofs failed first for a reason in the code or in the model. The
exceptions in three properties are now wider than TLC's instances needed:

* *Administrators.* With four requests, an actor demoted before its own-row
  comparison and promoted again can end as the last administrator while its
  stale update of itself demotes it. `AdminRemains` therefore excepts an update
  that was compared, not only one that was written, for an actor already
  demoted.
* *Safety backups.* When a user or retention removes the safety backup before
  the job names it, that UPDATE fails on its foreign key, Restore returns, and
  its job stays active and blocks the device until a restart. `ActiveIsOwned`,
  `SafetyNet` and `AttendedEnds` are about stories in which backups stay
  (`BackupsStay`).

* *Verified packages.* A device reports versions, not files: verify is also
  content with another package of the same version. `VerifiedIsInstalled` says
  so.

The fourth is an observation: `edited` of `Packages` was set by an Update that
found no row to write. One property said too little: `StatusIsLatest` compared
the status with the answer stored last, so that its exception for overlapping
contacts was never needed; it now compares with the answer *given* last, and the
exception ends with the next answer that is stored and meets no other.

Every invariant and every action property that a passing run checks has a
theorem. Only model-checked is liveness (`RunNowIsStarted`, `RunningEnds`,
`AttendedEnds`, `RevocationArrives`, `NotifiedInTheEnd`): fairness and ENABLED are
outside the prover. The theorems about `RunningIsExecuted` and `JobsAreOwned` are
the safety half of three of them: what runs, and what is active, has somebody
whose steps end it.

## 5. Plan

1. Done: change engine, windows, abstract life cycle, backup store with its
   scheduler, sign-in and administration, license, RADIUS, SMS gateway,
   monitoring and alerts, package catalogue, runners and file server; theorems
   about the safety of all of them.
2. Left with TLC: liveness.
3. Open: hazards that no property covers are listed with their reason in
   `PROJECT.json`.

## 6. Not modelled

Device drivers, HTTP routing and JSON, the web panel and the support packages
are input and output; configuration diffing, script templates, package name
guessing, provider templates and message wording are text processing without
state. Approval policies appear as the number of approvals a plan requires.
Discovery of devices, metric history, event logs and the clean-up of expired
sessions have no reader whose correctness depends on their order.
