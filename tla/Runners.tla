-------------------------------- MODULE Runners --------------------------------
(* What a change does on a device: signature deployments and firmware upgrades  *)
(* (internal/deploy), scripts (internal/scripts). A change is previewed when it *)
(* is created and resolved again when it runs; in between, catalogue, variables *)
(* and devices change. Devices pull files from the file server under a grant    *)
(* (internal/fileserver).                                                       *)
EXTENDS Packages, Sequences

CONSTANTS
    Version,      \* version of a package
    Compatible,   \* packages that fit the device
    Releases,     \* firmware versions, 1..n
    Catalogs,     \* firmware catalogues: release -> releases it upgrades from
    Values,       \* values of a script variable, and of what a template sees of a device
    Writes,       \* the values that make the script write
    Plots,        \* initial states: pairs of a story and a record of Tale
    TTL,          \* lifetime of a grant
    MaxClock      \* bound on the clock

\* kind: the runner. other: the version another database of the device reports.
\* events: how often devices, variables or scripts change, or the process restarts.
Tale == [kind: {"none", "signatures", "firmware", "script"}, other: Nat, events: Nat]

ASSUME RunnersConstants ==
    /\ Plots \subseteq Stories \X Tale /\ Compatible \subseteq Contents /\ Writes \subseteq Values
    /\ Releases \subseteq Nat \ {0} /\ IsFiniteSet(Releases) /\ 1 \in Releases
    /\ Catalogs \subseteq [Releases -> SUBSET Releases] /\ Catalogs # {}
    /\ TTL \in Nat /\ MaxClock \in Nat

VARIABLES
    tale,       \* the chosen initial state
    change,     \* the change: a row of table changes and its run
    device,     \* external: firmware and packages on the device
    recorded,   \* table devices: the firmware last probed
    images,     \* firmware images of the catalogue
    script,     \* table scripts: the body of one script
    variable,   \* table variables: one name, by scope
    listed,     \* table devices, what templates see: one datum of .Device (a name, the
                \* host, firmware, group, ...) and whether the device is in variable's group
    readonly,   \* a run of RunReadOnly: the body it has read
    grant,      \* Registry.grants: the grant of the running install
    session,    \* a logged-in FTP session: its grant
    transfer,   \* files on their way to the device
    clock, strokes,
    \* observation
    foreign,    \* the inventory was behind when the run began, others changed the
                \* device since, or a variable or the device's row since the preview
    ran,        \* texts that ran: in the change, outside of it
    granted     \* until when a file was granted at most, -1 for never

runner == <<change, device, recorded, script, variable, listed, readonly, grant, session, transfer, clock, strokes, foreign, ran, granted>>
allvars == <<vars, tale, images, runner>>

Unset == "unset"
Listed == [data: Values \cup {Unset}, member: BOOLEAN]
Unprobed == [data |-> Unset, member |-> TRUE]
NoChange == [pc |-> "none", verify |-> FALSE, want |-> {}, latest |-> FALSE, target |-> 0, body |-> "none", text |-> <<>>,
             dev |-> Unprobed, list |-> {}, todo |-> {}, cur |-> {}, path |-> <<>>]
NoGrant == [active |-> FALSE, file |-> {}, until |-> 0]

\* What a body has besides its own words: nothing, the variable, the datum of
\* the device, or a command that writes.
Bodies == {"plain", "uses", "device", "writes"}
Scopes == {"global", "group", "device"}

RunnersTypeOK ==
    /\ TypeOK
    /\ <<story, tale>> \in Plots /\ images \in Catalogs
    /\ change.pc \in {"none", "planned", "install", "pull", "verify", "reboot", "script", "ok", "failed"}
    /\ change.list \subseteq Contents /\ change.todo \subseteq change.list
    /\ change.path \in Seq(Releases) /\ change.target \in Releases \cup {0}
    /\ device.got \subseteq Contents /\ device.fw \in Releases /\ recorded \in Releases
    /\ script \in Bodies /\ readonly \in Bodies \cup {"none"}
    /\ variable \in [Scopes -> Values \cup {Unset}] /\ listed \in Listed
    /\ grant.file \subseteq Contents /\ session.file \subseteq Contents /\ transfer \subseteq Contents
    /\ clock \in 0..MaxClock /\ strokes \in 0..tale.events
    \* a grant lives as long as the pull it was made for
    /\ grant.active <=> change.pc = "pull"

RunnersInit ==
    /\ Init
    /\ \E p \in Plots : story = p[1] /\ tale = p[2]
    /\ images \in IF tale.kind = "firmware" THEN Catalogs ELSE {CHOOSE k \in Catalogs : TRUE}
    /\ change = NoChange
    /\ device = [fw |-> 1, got |-> {}, other |-> tale.other]
    /\ recorded = 1 /\ script = "uses" /\ readonly = "none"
    /\ variable = [s \in Scopes |-> Unset] /\ listed = Unprobed
    /\ grant = NoGrant /\ session = NoGrant /\ transfer = {}
    /\ clock = 0 /\ strokes = 0 /\ foreign = FALSE /\ ran = <<{}, {}>>
    /\ granted = [c \in Contents |-> -1]

-------------------------------------------------------------------------------
(* Signature deployments *)

\* Latest: the newest package that fits and is not withdrawn.
Latest ==
    LET fits == {c \in Compatible : pkg[c].row /\ ~pkg[c].withdrawn}
    IN  {c \in fits : \A x \in fits : Version[x] <= Version[c]}

\* resolve: explicit packages must be in the repository; those that do not fit are skipped.
Resolvable(want) == \A c \in want : pkg[c].row
Resolved(want, newest) == (want \cap Compatible) \cup newest

\* Preview of createChange.
CreateSignatures(want, latest, verify) ==
    /\ tale.kind = "signatures" /\ change.pc = "none" /\ (want # {} \/ latest)
    /\ Resolvable(want) /\ Resolved(want, IF latest THEN Latest ELSE {}) # {}
    /\ change' = [NoChange EXCEPT !.pc = "planned", !.want = want, !.latest = latest, !.verify = verify]
    /\ foreign' = FALSE
    /\ UNCHANGED <<vars, tale, images, device, recorded, script, variable, listed, readonly, grant, session, transfer, clock, strokes, ran, granted>>

Became(pc) == change' = [change EXCEPT !.pc = pc]
Rest == <<vars, tale, images, script, variable, listed, readonly, ran>>

\* Run resolves again.
RunSignatures ==
    /\ tale.kind = "signatures" /\ change.pc = "planned"
    /\ \E newest \in SUBSET Latest :
          /\ IF change.latest THEN Cardinality(newest) = (IF Latest = {} THEN 0 ELSE 1) ELSE newest = {}
          /\ LET list == Resolved(change.want, newest) IN
             IF ~Resolvable(change.want) \/ list = {} THEN Became("failed")
             ELSE change' = [change EXCEPT !.pc = "install", !.list = list, !.todo = list]
    /\ UNCHANGED <<Rest, device, recorded, grant, session, transfer, clock, strokes, foreign, granted>>

\* After a package: the next one, or the end.
AfterPackage(c) == [change EXCEPT !.todo = @ \ {c}, !.pc = IF change.todo = {c} THEN "ok" ELSE "install"]

\* What follows an install that reported success.
Installed(c) == IF change.verify THEN [change EXCEPT !.pc = "verify", !.cur = {c}] ELSE AfterPackage(c)

\* The API takes the file; an error may come before or after the device has it.
InstallAPI(c, took, err) ==
    /\ tale.kind = "signatures" /\ change.pc = "install" /\ c \in change.todo /\ c \in file
    /\ took \/ err
    /\ device' = IF took THEN [device EXCEPT !.got = @ \cup {c}] ELSE device
    /\ change' = IF err THEN [change EXCEPT !.pc = "failed"] ELSE Installed(c)
    /\ UNCHANGED <<Rest, recorded, grant, session, transfer, clock, strokes, foreign, granted>>

\* The file is gone, no method fits, or no address is known.
InstallFails ==
    /\ change.pc = "install"
    /\ Became("failed")
    /\ UNCHANGED <<Rest, device, recorded, grant, session, transfer, clock, strokes, foreign, granted>>

\* A pull: the device is granted the one file.
Grant(c) ==
    /\ tale.kind = "signatures" /\ change.pc = "install" /\ c \in change.todo
    /\ grant' = [active |-> TRUE, file |-> {c}, until |-> clock + TTL]
    /\ change' = [change EXCEPT !.pc = "pull", !.cur = {c}]
    /\ granted' = [granted EXCEPT ![c] = clock + TTL]
    /\ UNCHANGED <<Rest, device, recorded, session, transfer, clock, strokes, foreign>>

\* Mutant: a pull that fails keeps its grant.
RevokeOnSuccess(err) == IF err THEN grant ELSE NoGrant

Revoke(err) == NoGrant

\* RunScript returns, whatever the device has done, and the grant is revoked.
PullReturns(err) ==
    /\ change.pc = "pull"
    /\ grant' = Revoke(err)
    /\ \E c \in grant.file : change' = IF err THEN [change EXCEPT !.pc = "failed"] ELSE Installed(c)
    /\ UNCHANGED <<Rest, device, recorded, session, transfer, clock, strokes, foreign, granted>>

\* Mutant: any package on the device will do.
ReportsAny(c) == device.got # {}

\* verify, one of several tries: any of the device's databases reports the
\* version. The tries may all fail, or run out before the device has it.
Reports(c) == device.other = Version[c] \/ \E x \in device.got : Version[x] = Version[c]

Verify(c) ==
    /\ change.pc = "verify" /\ change.cur = {c}
    /\ \/ Reports(c) /\ change' = AfterPackage(c)
       \/ Became("failed")
    /\ UNCHANGED <<Rest, device, recorded, grant, session, transfer, clock, strokes, foreign, granted>>

-------------------------------------------------------------------------------
(* The file server: one device, which asks when it likes *)

\* gc: a grant is dropped when the time is after its expiry.
InForce == grant.active /\ clock <= grant.until

Sends(c) ==
    /\ c \in file
    /\ transfer' = transfer \cup {c}
    /\ UNCHANGED <<Rest, change, device, recorded, grant, session, clock, strokes, foreign, granted>>

\* TFTP: lookup.
TftpRead(c) == InForce /\ grant.file = {c} /\ Sends(c)

\* FTP: the session keeps the grant it logged in with.
FtpLogin ==
    /\ InForce /\ session # grant
    /\ session' = grant
    /\ UNCHANGED <<Rest, change, device, recorded, grant, transfer, clock, strokes, foreign, granted>>

\* Mutant: the session outlives its grant.
SessionServesOn(c) == session.active /\ session.file = {c}

\* file: the expiry of the session's grant is checked, its revocation is not.
SessionServes(c) == session.active /\ session.file = {c} /\ clock < session.until

FtpRetr(c) == SessionServes(c) /\ Sends(c)

\* The device installs what has arrived; a transfer that began goes on.
DeviceInstalls(c, ok) ==
    /\ c \in transfer
    /\ transfer' = transfer \ {c}
    /\ device' = IF ok THEN [device EXCEPT !.got = @ \cup {c}] ELSE device
    /\ UNCHANGED <<Rest, change, recorded, grant, session, clock, strokes, foreign, granted>>

-------------------------------------------------------------------------------
(* Firmware upgrades *)

\* Mutant: releases that were seen are taken up again.
NextImagesAny(n, searched, target) == {v \in Releases : n \in images[v] /\ v > n /\ v <= target}

\* The images a search step adds: not seen, newer, up to the target.
NextImages(n, searched, target) == {v \in Releases \ searched : n \in images[v] /\ v > n /\ v <= target}

\* The furthest jump of a step is taken up first.
FurthestFirst(next) == CHOOSE q \in [1..Cardinality(next) -> next] : \A i, k \in DOMAIN q : i < k => q[i] > q[k]

\* Path: breadth-first search. A step takes the head of the queue; prev records
\* how a release was reached, 0 for none.
SearchStart(from) == [queue |-> <<from>>, seen |-> {from}, prev |-> [v \in Releases |-> 0]]

SearchStep(s, target) ==
    IF s.queue = <<>> \/ Head(s.queue) = target THEN s
    ELSE LET n == Head(s.queue)  next == NextImages(n, s.seen, target)
         IN  [queue |-> Tail(s.queue) \o FurthestFirst(next), seen |-> s.seen \cup next,
              prev |-> [v \in Releases |-> IF v \in next THEN n ELSE s.prev[v]]]

Search(from, target) ==
    LET step[k \in 0..Cardinality(Releases)] == IF k = 0 THEN SearchStart(from) ELSE SearchStep(step[k - 1], target)
    IN  step[Cardinality(Releases)]

\* The way back along prev, <<>> when the target was not found.
BackStep(way, prev) == IF prev[Head(way)] = 0 THEN way ELSE <<prev[Head(way)]>> \o way

Path(from, target) ==
    LET s == Search(from, target)
        back[k \in 0..Cardinality(Releases)] == IF k = 0 THEN <<target>> ELSE BackStep(back[k - 1], s.prev)
    IN  IF target <= from \/ target \notin s.seen THEN <<>> ELSE Tail(back[Cardinality(Releases)])

CreateFirmware(target) ==
    /\ tale.kind = "firmware" /\ change.pc = "none"
    /\ Path(recorded, target) # <<>>
    /\ change' = [NoChange EXCEPT !.pc = "planned", !.target = target]
    /\ UNCHANGED <<vars, tale, images, device, recorded, script, variable, listed, readonly, grant, session, transfer, clock, strokes, foreign, ran, granted>>

\* Run computes the path again and checks the device's health.
RunFirmware(healthy) ==
    /\ tale.kind = "firmware" /\ change.pc = "planned"
    /\ LET path == Path(recorded, change.target) IN
       IF path = <<>> \/ ~healthy THEN Became("failed")
       ELSE change' = [change EXCEPT !.pc = "install", !.path = path]
    /\ foreign' = (recorded # device.fw)
    /\ UNCHANGED <<Rest, device, recorded, grant, session, transfer, clock, strokes, granted>>

\* The device restarts on the image; the install may report an error all the same.
InstallImage(took, err) ==
    /\ tale.kind = "firmware" /\ change.pc = "install"
    /\ device' = IF took THEN [device EXCEPT !.fw = Head(change.path)] ELSE device
    /\ Became(IF err THEN "failed" ELSE "reboot")
    /\ UNCHANGED <<Rest, recorded, grant, session, transfer, clock, strokes, foreign, granted>>

\* Mutant: any answer after the restart will do.
BackOnAny == TRUE

BackOn == device.fw = Head(change.path)

\* waitFor probes until the device is back on the image's version.
WaitFor ==
    /\ change.pc = "reboot" /\ BackOn
    /\ recorded' = device.fw
    /\ change' = [change EXCEPT !.path = Tail(@), !.pc = IF Len(change.path) = 1 THEN "ok" ELSE "install"]
    /\ UNCHANGED <<Rest, device, grant, session, transfer, clock, strokes, foreign, granted>>

\* The deadline passes; probes may have answered.
WaitEnds(answered) ==
    /\ change.pc = "reboot"
    /\ recorded' = IF answered THEN device.fw ELSE recorded
    /\ Became("failed")
    /\ UNCHANGED <<Rest, device, grant, session, transfer, clock, strokes, foreign, granted>>

-------------------------------------------------------------------------------
(* Scripts *)

Rank(scope) == CASE scope = "global" -> 0 [] scope = "group" -> 1 [] scope = "device" -> 2

\* Mutant: the last row wins.
OutranksAny(scope, other) == TRUE

Outranks(scope, other) == other = Unset \/ Rank(scope) >= Rank(other)

\* vars: the rows of a name come in any order, those of the device's group only;
\* the scope with the highest rank wins.
Rows(member) == {s \in Scopes : variable[s] # Unset /\ (s = "group" => member)}
Orders(rows) == {q \in [1..Cardinality(rows) -> rows] : \A i, k \in DOMAIN q : q[i] = q[k] => i = k}

Winner(q) ==
    LET entry[k \in 0..Len(q)] ==
          IF k = 0 THEN Unset ELSE IF Outranks(q[k], entry[k - 1]) THEN q[k] ELSE entry[k - 1]
    IN  entry[Len(q)]

ValueOf(scope) == IF scope = Unset THEN Unset ELSE variable[scope]
Merged(member) == ValueOf(Winner(CHOOSE q \in Orders(Rows(member)) : TRUE))

\* What the template puts into a body for a device.
Filled(body, dev) ==
    CASE body = "uses" -> Merged(dev.member) [] body = "device" -> dev.data [] OTHER -> Unset

\* Render: the text a body becomes; a variable that is not defined is an error.
Render(body, dev) == <<body, Filled(body, dev)>>
Renders(body, dev) == body = "uses" => Merged(dev.member) # Unset

\* IsReadOnly, of a body and of the text it became.
ReadOnlyBody(body) == body # "writes"

\* Mutant: the body decides for the text.
ReadOnlyTextNot(text) == ReadOnlyBody(text[1])

ReadOnlyText(text) == ReadOnlyBody(text[1]) /\ text[2] \notin Writes

\* The body is copied into the change; what fills it is not.
CreateScript ==
    /\ tale.kind = "script" /\ change.pc = "none" /\ Renders(script, listed)
    /\ change' = [NoChange EXCEPT !.pc = "planned", !.body = script, !.text = Render(script, listed)]
    /\ foreign' = FALSE
    /\ UNCHANGED <<vars, tale, images, device, recorded, script, variable, listed, readonly, grant, session, transfer, clock, strokes, ran, granted>>

\* runTarget reads the device; a backup may come before the script.
BeginScript ==
    /\ tale.kind = "script" /\ change.pc = "planned"
    /\ change' = [change EXCEPT !.pc = "script", !.dev = listed]
    /\ UNCHANGED <<Rest, device, recorded, grant, session, transfer, clock, strokes, foreign, granted>>

\* Mutant: the script of the library runs.
BodyOfLibrary == script

BodyOfChange == change.body

\* Run renders again, with the device as it was read and the variables as they are.
RunScript(err) ==
    LET renders == Renders(BodyOfChange, change.dev) IN
    /\ change.pc = "script"
    /\ ran' = IF renders THEN [ran EXCEPT ![1] = @ \cup {Render(BodyOfChange, change.dev)}] ELSE ran
    /\ Became(IF err \/ ~renders THEN "failed" ELSE "ok")
    /\ UNCHANGED <<vars, tale, images, script, variable, listed, readonly, device, recorded, grant, session, transfer, clock, strokes, foreign, granted>>

\* RunReadOnly: the script is read; later, its text is checked again and run.
ReadOnlyBegin ==
    /\ tale.kind = "script" /\ readonly = "none" /\ ReadOnlyBody(script)
    /\ readonly' = script
    /\ UNCHANGED <<vars, tale, images, script, variable, listed, ran, change, device, recorded, grant, session, transfer, clock, strokes, foreign, granted>>

ReadOnlyRun ==
    /\ readonly # "none"
    /\ readonly' = "none"
    /\ LET text == Render(readonly, listed) IN
       ran' = IF Renders(readonly, listed) /\ ReadOnlyText(text) THEN [ran EXCEPT ![2] = @ \cup {text}] ELSE ran
    /\ UNCHANGED <<vars, tale, images, script, variable, listed, change, device, recorded, grant, session, transfer, clock, strokes, foreign, granted>>

-------------------------------------------------------------------------------
(* The panel, other hands at the device, and restarts *)

Stroke == strokes < tale.events /\ strokes' = strokes + 1

\* SetVariable and DeleteVariable.
SetVariable(scope, v) ==
    /\ Stroke /\ tale.kind = "script" /\ variable[scope] # v
    /\ variable' = [variable EXCEPT ![scope] = v]
    /\ foreign' = TRUE
    /\ UNCHANGED <<vars, tale, images, script, listed, readonly, ran, change, device, recorded, grant, session, transfer, clock, granted>>

\* The panel's Update and a probe write what templates see of the device.
EditDevice(dev) ==
    /\ Stroke /\ tale.kind = "script" /\ listed # dev
    /\ listed' = dev
    /\ foreign' = TRUE
    /\ UNCHANGED <<vars, tale, images, script, variable, readonly, ran, change, device, recorded, grant, session, transfer, clock, granted>>

SaveScript(body) ==
    /\ Stroke /\ tale.kind = "script" /\ script # body
    /\ script' = body
    /\ UNCHANGED <<vars, tale, images, variable, listed, readonly, ran, change, device, recorded, grant, session, transfer, clock, foreign, granted>>

\* Somebody upgrades the device by hand.
Meddle(v) ==
    /\ Stroke /\ tale.kind = "firmware" /\ device.fw # v
    /\ device' = [device EXCEPT !.fw = v]
    /\ foreign' = TRUE
    /\ UNCHANGED <<Rest, change, recorded, grant, session, transfer, clock, granted>>

\* The monitor probes the device.
Probe ==
    /\ recorded # device.fw
    /\ recorded' = device.fw
    /\ UNCHANGED <<Rest, change, device, grant, session, transfer, clock, strokes, foreign, granted>>

\* The process ends: the run is not taken up again, the registry is empty.
Crash ==
    /\ Stroke /\ change.pc \in {"install", "pull", "verify", "reboot", "script"}
    /\ Became("failed") /\ grant' = NoGrant /\ session' = NoGrant /\ readonly' = "none"
    /\ UNCHANGED <<vars, tale, images, script, variable, listed, ran, device, recorded, transfer, clock, foreign, granted>>

\* The change is settled; another one may be made.
Again ==
    /\ Stroke /\ change.pc \in {"ok", "failed"}
    /\ change' = NoChange
    /\ UNCHANGED <<Rest, device, recorded, grant, session, transfer, clock, foreign, granted>>

\* Time matters while somebody holds a grant.
Tick ==
    /\ grant.active \/ session.active
    /\ clock < MaxClock
    /\ clock' = clock + 1
    /\ UNCHANGED <<Rest, change, device, recorded, grant, session, transfer, strokes, foreign, granted>>

Deploy ==
    \/ \E want \in SUBSET Contents, latest, verify \in BOOLEAN : CreateSignatures(want, latest, verify)
    \/ RunSignatures \/ InstallFails \/ FtpLogin
    \/ \E c \in Contents :
          \/ Grant(c) \/ Verify(c) \/ TftpRead(c) \/ FtpRetr(c)
          \/ \E x, y \in BOOLEAN : InstallAPI(c, x, y) \/ DeviceInstalls(c, x)
    \/ \E err \in BOOLEAN : PullReturns(err)

Upgrade ==
    \/ \E v \in Releases : CreateFirmware(v) \/ Meddle(v)
    \/ WaitFor \/ Probe
    \/ \E x, y \in BOOLEAN : RunFirmware(x) \/ InstallImage(x, y) \/ WaitEnds(x)

Scripted ==
    \/ CreateScript \/ BeginScript \/ ReadOnlyBegin \/ ReadOnlyRun \/ \E err \in BOOLEAN : RunScript(err)
    \/ \E s \in Scopes, v \in Values \cup {Unset} : SetVariable(s, v)
    \/ \E dev \in Listed : EditDevice(dev)
    \/ \E b \in Bodies : SaveScript(b)

RunnersNext ==
    \/ Next /\ UNCHANGED <<tale, images, runner>>
    \/ Deploy \/ Upgrade \/ Scripted \/ Crash \/ Again \/ Tick

RunnersSpec == RunnersInit /\ [][RunnersNext]_allvars

-------------------------------------------------------------------------------
(* Properties *)

\* A file is sent to the device only up to the time it was granted for, even in
\* a session whose grant has been revoked.
ServedInTime == [][\A c \in transfer' \ transfer : clock <= granted[c]]_allvars

\* A deployment with verification that succeeded has put every package on the
\* device, save for one whose version another database or package reports.
VerifiedIsInstalled ==
    tale.kind = "signatures" /\ change.pc = "ok" /\ change.verify =>
       \A c \in change.list : \/ c \in device.got \/ device.other = Version[c]
                             \/ \E x \in device.got \ {c} : Version[x] = Version[c]

\* Path finds a way whenever there is one; it starts at the device's release,
\* ends at the target, follows the images' lists and has the fewest steps.
PathIsShortest ==
    tale.kind = "firmware" /\ change.pc = "none" /\ strokes = 0 =>
       \A from, target \in Releases : from < target =>
          LET ways == {w \in UNION {[1..n -> Releases] : n \in 1..Cardinality(Releases)} :
                         /\ w[Len(w)] = target
                         /\ \A i \in 1..Len(w) : LET n == IF i = 1 THEN from ELSE w[i - 1] IN w[i] > n /\ n \in images[w[i]]}
              p == Path(from, target)
          IN  IF ways = {} THEN p = <<>> ELSE p \in ways /\ \A w \in ways : Len(p) <= Len(w)

\* An upgrade installs an image only on a release it upgrades from, and one that
\* succeeded has brought the device to its target, unless the inventory was
\* behind when it began or others upgraded the device at the same time.
UpgradeKeepsPath ==
    [][tale.kind = "firmware" /\ ~foreign' =>
          /\ change.pc = "install" /\ device'.fw # device.fw => device.fw \in images[device'.fw]
          /\ change'.pc = "ok" => device.fw = change.target]_allvars

\* The highest scope that defines a variable gives its value, in whatever order
\* the rows are read; the group's value counts for its devices only.
MergeIsByRank ==
    \A member \in BOOLEAN : \A q \in Orders(Rows(member)) :
       ValueOf(Winner(q)) = IF variable["device"] # Unset THEN variable["device"]
                            ELSE IF member /\ variable["group"] # Unset THEN variable["group"] ELSE variable["global"]

\* A script change runs the text its approvers saw, unless a variable, the
\* device's data or its group changed after the preview; edits of the script do
\* not reach it. RunsApprovedText is without the exceptions.
ApprovedTextRuns ==
    [][tale.kind = "script" /\ change'.pc = "ok" /\ change.pc # "ok" /\ ~foreign => ran'[1] \subseteq ran[1] \cup {change.text}]_allvars

\* What the comment on Spec says: approvers approve exactly the text that runs.
\* The body is copied into the change, but variables and device data are not.
RunsApprovedText ==
    [][tale.kind = "script" /\ change'.pc = "ok" /\ change.pc # "ok" => ran'[1] \subseteq ran[1] \cup {change.text}]_allvars

\* Outside a change only texts run that read, whatever the variables and the
\* device's data became after the script was chosen.
OutsideOnlyReads == \A t \in ran[2] : t[1] # "writes" /\ t[2] \notin Writes

\* A run does what was approved: the text, along the path, within the grant.
RunsAsApproved == ServedInTime /\ UpgradeKeepsPath /\ ApprovedTextRuns

\* What a run computes and reports is true: the path, the variables, that a
\* package is installed, and that a script only reads.
RunsTellTheTruth ==
    RunnersTypeOK /\ PathIsShortest /\ MergeIsByRank /\ VerifiedIsInstalled /\ OutsideOnlyReads
===============================================================================
