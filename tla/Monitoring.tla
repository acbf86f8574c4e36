------------------------------ MODULE Monitoring ------------------------------
(* Polling and alerting: contacts with the devices write what they learn to    *)
(* the inventory (internal/monitor, internal/inventory); Evaluate compares a   *)
(* snapshot of it with a rule, keeps the rule's alerts in step and notifies    *)
(* (internal/alerts). Contacts overlap with each other and with Evaluate.      *)
EXTENDS Integers, FiniteSets

CONSTANTS
    Devices,   \* managed devices
    Contacts,  \* the monitor's poll slots and the panel's refresh requests
    Fresh,     \* a metric older than this does not count (10 minutes)
    Stories,   \* initial states: records of Story
    MaxClock   \* bound on the clock

Kinds == {"offline", "metric", "license"}

\* devices: registered, later: added later. contacts: the ones there are.
\* duration and repeat as in the rule, 0 is at once and never. events: bound on
\* changes at devices, in the license and in the panel, on errors and restarts.
Story == [devices: SUBSET Devices, later: SUBSET Devices, contacts: SUBSET Contacts,
          evaluates: BOOLEAN, kind: Kinds, duration: Nat, repeat: Nat, events: Nat]

ASSUME MonitoringConstants == Devices # {} /\ Stories \subseteq Story /\ {Fresh, MaxClock} \subseteq Nat

VARIABLES
    story,      \* the chosen initial state
    row,        \* tables devices and device_status
    license,    \* what the license says of a device's serial: "good", "near" (its end is
                \* near, or it is in grace), "expired", or "none" (not in the license)
    rule,       \* table alert_rules: one rule, which names one channel
    channel,    \* table notification_channels: that channel
    since,      \* table alert_pending, -1 where there is no row
    alert,      \* table alerts: the open alert of a device
    truth,      \* external: the devices themselves
    running,    \* Monitor.running
    contact,    \* contacts in progress
    eval,       \* Evaluate in progress
    clock, events,
    \* observation
    last,       \* the latest answer of a device
    blurred,    \* devices that answered two contacts before either was stored, or
                \* whose latest answer was not stored
    told,       \* devices of which the channel last heard that an alert opened
    lost,       \* devices whose latest message did not reach the channel
    seen        \* since when every pass saw the condition, -1: not seen, -2: left out by a pass

inventory == <<row, license, running, contact, last, blurred>>
alerting == <<rule, channel, since, alert, eval, told, lost, seen>>
world == <<truth, clock, events>>
vars == <<story, inventory, alerting, world>>

Answers == {"none", "up", "high", "down", "timeout"}

\* The status "error" (refused, not trusted) is treated as "offline" is.
DeviceRow == [life: {"absent", "registered", "deleted"}, serial: BOOLEAN, grouped: BOOLEAN,
              status: {"unknown", "online", "offline"}, metric: {"none", "low", "high"}, at: 0..MaxClock]
NoRow == [life |-> "absent", serial |-> FALSE, grouped |-> TRUE, status |-> "unknown", metric |-> "none", at |-> 0]
Exists(d) == row[d].life = "registered"

\* new: createDevice's contact with the device it has stored.
Silent == [pc |-> "idle", dev |-> CHOOSE d \in Devices : TRUE, poll |-> FALSE, new |-> FALSE, answer |-> "none"]
Resting == [pc |-> "idle", now |-> 0, firing |-> {}, clear |-> {}, opened |-> {}, resolved |-> {}, channel |-> FALSE]

\* Tables, contacts and the pass hold values of their kinds.
TypeOK ==
    /\ story \in Stories
    /\ row \in [Devices -> DeviceRow]
    /\ license \in [Devices -> {"good", "near", "expired", "none"}] /\ running \subseteq Devices
    /\ rule \in {"enabled", "disabled", "deleted"} /\ channel \in {"enabled", "disabled", "deleted"}
    /\ since \in [Devices -> -1..MaxClock]
    /\ alert \in [Devices -> [open: BOOLEAN, acked: BOOLEAN, notified: -1..MaxClock]]
    /\ truth \in [Devices -> {"up", "high", "down"}]
    /\ contact \in [Contacts -> [pc: {"idle", "probe", "probed", "undo", "signatures", "health", "answered"},
                                 dev: Devices, poll: BOOLEAN, new: BOOLEAN, answer: Answers]]
    /\ eval \in [pc: {"idle", "apply", "notify"}, now: 0..MaxClock, firing: SUBSET Devices, clear: SUBSET Devices,
                 opened: SUBSET Devices, resolved: SUBSET Devices, channel: BOOLEAN]
    /\ clock \in 0..MaxClock /\ events \in 0..story.events
    /\ last \in [Devices -> Answers]
    /\ {blurred, told, lost} \subseteq SUBSET Devices
    /\ seen \in [Devices -> -2..MaxClock]

Closed == [open |-> FALSE, acked |-> FALSE, notified |-> -1]

Init ==
    /\ story \in Stories
    /\ row = [d \in Devices |-> IF d \in story.devices
                                THEN [NoRow EXCEPT !.life = "registered", !.serial = story.evaluates] ELSE NoRow]
    /\ license = [d \in Devices |-> "good"]
    /\ rule = "enabled" /\ channel = "enabled"
    /\ since = [d \in Devices |-> -1] /\ alert = [d \in Devices |-> Closed]
    /\ truth = [d \in Devices |-> "up"]
    /\ running = {} /\ contact = [k \in Contacts |-> Silent] /\ eval = Resting
    /\ clock = 0 /\ events = 0
    /\ last = [d \in Devices |-> "none"] /\ blurred = {} /\ told = {} /\ lost = {}
    /\ seen = [d \in Devices |-> -1]

Event == events < story.events /\ events' = events + 1

-------------------------------------------------------------------------------
(* Contacts *)

At(k, pc) == contact[k].pc = pc
Goto(k, pc) == contact' = [contact EXCEPT ![k].pc = pc]
Licensed(d) == license[d] \in {"good", "near"}
Operational(d) == row[d].serial /\ Licensed(d)
Holding(k) == contact[k].pc \in {"probed", "answered"}
Others(k) == {i \in Contacts \ {k} : contact[i].dev = contact[k].dev /\ Holding(i)}

\* A poll that ends leaves Monitor.running.
End(k) ==
    /\ contact' = [contact EXCEPT ![k] = Silent]
    /\ running' = IF contact[k].poll THEN running \ {contact[k].dev} ELSE running

\* Mutant: a device is polled again while a poll of it goes on.
NotBusyEver(d) == TRUE

NotBusy(d) == d \notin running

\* schedule: a device that is due, is not polled already and is operational; one
\* without a serial number is only probed.
Schedule(k, d, probe) ==
    /\ k \in story.contacts /\ At(k, "idle")
    /\ Exists(d) /\ NotBusy(d)
    /\ IF row[d].serial THEN Operational(d) ELSE probe
    /\ running' = running \cup {d}
    /\ contact' = [contact EXCEPT ![k] = [Silent EXCEPT !.pc = IF probe THEN "probe" ELSE "health",
                                                        !.dev = d, !.poll = TRUE]]
    /\ UNCHANGED <<story, row, license, last, blurred, alerting, world>>

\* The panel's refresh and the probe after createDevice look at nobody else.
Refresh(k, d) ==
    /\ k \in story.contacts /\ At(k, "idle")
    /\ Exists(d)
    /\ contact' = [contact EXCEPT ![k] = [Silent EXCEPT !.pc = "probe", !.dev = d]]
    /\ UNCHANGED <<story, row, license, running, last, blurred, alerting, world>>

\* The device answers, or the timeout ends the wait.
Ask(k) ==
    LET d == contact[k].dev  next == [probe |-> "probed", health |-> "answered"] IN
    /\ contact[k].pc \in {"probe", "health"}
    /\ \E a \in {truth[d]} \cup (IF truth[d] = "down" THEN {"timeout"} ELSE {}) :
          /\ contact' = [contact EXCEPT ![k].pc = next[@], ![k].answer = a]
          /\ last' = [last EXCEPT ![d] = a]
    /\ blurred' = IF Others(k) # {} THEN blurred \cup {d} ELSE blurred \ {d}
    /\ UNCHANGED <<story, row, license, running, alerting, world>>

\* An answer is not stored.
Drop(k, dropped) == blurred' = IF dropped THEN blurred \cup {contact[k].dev} ELSE blurred

Failed(a) == a \in {"down", "timeout"}

\* Mutant: a device that answers a probe keeps its status.
SeenNot(r) == [r EXCEPT !.serial = TRUE]

\* Mutant: the device's own word for its state is stored.
SeenRaw(r) == [r EXCEPT !.serial = TRUE, !.status = "up"]

\* Probe stores what the device reported.
Seen(r) == [r EXCEPT !.serial = TRUE, !.status = "online"]

\* devices_serial_key: what answers at the address of a row may report a serial
\* that another row has.
SerialTaken(d) == Exists(d) /\ \E e \in Devices \ {d} : Exists(e) /\ row[e].serial

\* Probe writes with the context of the contact, MarkUnreachable included: one
\* that was cancelled or has timed out stores nothing. A serial of another row
\* is refused, and the row stays as it was.
ProbeSave(k) ==
    LET d == contact[k].dev  a == contact[k].answer IN
    /\ At(k, "probed")
    /\ \/ \E gone \in (IF a = "timeout" THEN {TRUE} ELSE BOOLEAN) :
             /\ gone \/ Failed(a) \/ ~Exists(d)
             /\ row' = IF gone \/ ~Exists(d) THEN row ELSE [row EXCEPT ![d].status = "offline"]
             /\ Drop(k, gone) /\ End(k)
       \/ /\ ~Failed(a) /\ SerialTaken(d)
          /\ Drop(k, TRUE) /\ UNCHANGED row
          /\ IF contact[k].new THEN Goto(k, "undo") /\ UNCHANGED running ELSE End(k)
       \/ /\ ~Failed(a) /\ Exists(d)
          /\ row' = [row EXCEPT ![d] = Seen(@)] /\ Drop(k, FALSE)
          /\ IF Licensed(d) THEN Goto(k, "signatures") /\ UNCHANGED running ELSE End(k)
    /\ UNCHANGED <<story, license, last, alerting, world>>

\* refreshSignatures: the first row of device_status is one without a metric.
Signatures(k) ==
    LET d == contact[k].dev IN
    /\ At(k, "signatures")
    /\ \/ UNCHANGED row
       \/ Exists(d) /\ row' = [row EXCEPT ![d].metric = IF @ = "none" THEN "low" ELSE @,
                                              ![d].at = IF row[d].metric = "none" THEN clock ELSE @]
    /\ Goto(k, "health")
    /\ UNCHANGED <<story, license, running, last, blurred, alerting, world>>

\* refreshHealth: MarkUnreachable, whose context outlives the timeout, or
\* SaveHealth in one transaction. Nothing is stored when the panel's request was
\* cancelled, and no reading whose context has ended.
HealthSave(k) ==
    LET d == contact[k].dev  a == contact[k].answer IN
    /\ At(k, "answered")
    /\ \E gone \in {FALSE, ~Failed(a) \/ ~contact[k].poll} :
          /\ Drop(k, gone)
          /\ row' = IF ~Exists(d) \/ gone THEN row
                    ELSE IF Failed(a) THEN [row EXCEPT ![d].status = "offline"]
                    ELSE [row EXCEPT ![d].status = "online", ![d].at = clock,
                                     ![d].metric = IF a = "high" THEN "high" ELSE "low"]
    /\ End(k)
    /\ UNCHANGED <<story, license, last, alerting, world>>

\* The panel's request is cancelled before the device has answered.
Cancelled(k) ==
    /\ contact[k].pc \in {"probe", "health"} /\ ~contact[k].poll
    /\ End(k)
    /\ UNCHANGED <<story, row, license, last, blurred, alerting, world>>

-------------------------------------------------------------------------------
(* Evaluate *)

Condition(d) ==
    /\ row[d].grouped
    /\ \/ story.kind = "offline" /\ row[d].status = "offline"
       \/ story.kind = "metric" /\ row[d].metric = "high" /\ clock - row[d].at < Fresh
       \/ story.kind = "license" /\ row[d].serial /\ license[d] \in {"near", "expired"}

\* The devices a pass looks at: only the license rule applies to devices that
\* are not polled.
Considered == {d \in Devices : rule = "enabled" /\ Exists(d) /\ (story.kind = "license" \/ Operational(d))}

\* Rules, devices, statuses and the license are read first; what the conditions
\* say of them is settled here.
EvalBegin ==
    /\ story.evaluates /\ eval.pc = "idle"
    /\ eval' = [Resting EXCEPT !.pc = "apply", !.now = clock,
                               !.firing = {d \in Considered : Condition(d)}, !.clear = {d \in Considered : ~Condition(d)}]
    /\ seen' = [d \in Devices |-> IF d \in Considered THEN seen[d] ELSE -2]
    /\ UNCHANGED <<story, inventory, rule, channel, since, alert, told, lost, world>>

\* The foreign keys of alert_pending and alerts.
Known(d) == rule # "deleted" /\ Exists(d)

\* alert_pending: the time a condition was first seen is kept while it holds.
Since(d) == IF story.duration = 0 \/ since[d] # -1 THEN since[d] ELSE eval.now

Due(d) == story.duration = 0 \/ eval.now - Since(d) >= story.duration

\* Mutant: repeated only when it was notified before.
RepeatNotified(a) == story.repeat > 0 /\ ~a.acked /\ a.notified # -1 /\ eval.now - a.notified >= story.repeat

Repeat(a) ==
    /\ story.repeat > 0 /\ ~a.acked
    /\ a.notified = -1 \/ eval.now - a.notified >= story.repeat

\* The condition holds: one transaction.
ApplyFiring(d) ==
    /\ eval.pc = "apply" /\ d \in eval.firing /\ Known(d)
    /\ since' = [since EXCEPT ![d] = Since(d)]
    /\ alert' = IF Due(d) /\ ~alert[d].open THEN [alert EXCEPT ![d] = [Closed EXCEPT !.open = TRUE]] ELSE alert
    /\ eval' = [eval EXCEPT !.firing = @ \ {d},
                            !.opened = IF Due(d) /\ (~alert[d].open \/ Repeat(alert[d])) THEN @ \cup {d} ELSE @]
    /\ seen' = [seen EXCEPT ![d] = IF @ = -1 THEN eval.now ELSE @]
    /\ UNCHANGED <<story, inventory, rule, channel, told, lost, world>>

\* Mutant: the time of the first sighting survives a clear one.
ForgetSinceNot(d) == since

ForgetSince(d) == [since EXCEPT ![d] = -1]

\* Mutant: the message of a resolved alert is left out.
ResolvedNoteNot(d) == eval.resolved

ResolvedNote(d) == IF alert[d].open THEN eval.resolved \cup {d} ELSE eval.resolved

\* It does not hold: the pending time goes and the alert is resolved.
ApplyClear(d) ==
    /\ eval.pc = "apply" /\ d \in eval.clear
    /\ since' = ForgetSince(d)
    /\ alert' = [alert EXCEPT ![d] = Closed]
    /\ eval' = [eval EXCEPT !.clear = @ \ {d}, !.resolved = ResolvedNote(d)]
    /\ seen' = [seen EXCEPT ![d] = -1]
    /\ UNCHANGED <<story, inventory, rule, channel, told, lost, world>>

Notes == eval.opened \cup eval.resolved

\* The messages a pass has gathered go with it.
Abandon ==
    /\ eval' = Resting
    /\ lost' = lost \cup Notes
    /\ UNCHANGED <<story, inventory, rule, channel, since, alert, told, seen, truth, clock>>

\* The rule or the device is gone: the transaction and the pass fail.
ApplyFails(d) ==
    /\ eval.pc = "apply" /\ d \in eval.firing /\ ~Known(d)
    /\ Abandon /\ UNCHANGED events

\* Any other error of the database, loadChannels included.
EvalError == Event /\ eval.pc = "apply" /\ Abandon

\* notify reads the enabled channels once.
LoadChannels ==
    /\ eval.pc = "apply" /\ eval.firing \cup eval.clear = {} /\ Notes # {}
    /\ eval' = [eval EXCEPT !.pc = "notify", !.channel = channel = "enabled"]
    /\ UNCHANGED <<story, inventory, rule, channel, since, alert, told, lost, seen, world>>

RestOf(d) == [eval EXCEPT !.opened = @ \ {d}, !.resolved = @ \ {d}]

\* last_notified_at is set whether the message was sent or not.
Notify(d, sent) ==
    /\ eval.pc = "notify" /\ d \in Notes
    /\ sent => eval.channel
    /\ IF ~sent /\ eval.channel THEN Event ELSE UNCHANGED events
    /\ told' = IF ~sent THEN told ELSE IF d \in eval.opened THEN told \cup {d} ELSE told \ {d}
    /\ lost' = IF sent /\ Known(d) THEN lost \ {d} ELSE lost \cup {d}
    /\ alert' = IF d \in eval.opened /\ alert[d].open THEN [alert EXCEPT ![d].notified = eval.now] ELSE alert
    /\ eval' = RestOf(d)
    /\ UNCHANGED <<story, inventory, rule, channel, since, seen, truth, clock>>

EvalEnd ==
    /\ eval.pc # "idle" /\ eval.firing \cup eval.clear \cup Notes = {}
    /\ eval' = Resting
    /\ UNCHANGED <<story, inventory, rule, channel, since, alert, told, lost, seen, world>>

-------------------------------------------------------------------------------
(* The panel, the devices, the license, and restarts *)

\* SaveRule switches the rule on and off.
SaveRule ==
    /\ Event /\ story.evaluates /\ rule # "deleted"
    /\ rule' = IF rule = "enabled" THEN "disabled" ELSE "enabled"
    /\ UNCHANGED <<story, inventory, channel, since, alert, eval, told, lost, seen, truth, clock>>

\* DeleteRule takes pending times and alerts along; nobody is told.
DeleteRule ==
    /\ Event /\ story.evaluates /\ rule # "deleted"
    /\ rule' = "deleted"
    /\ since' = [d \in Devices |-> -1] /\ alert' = [d \in Devices |-> Closed]
    /\ lost' = Devices
    /\ UNCHANGED <<story, inventory, channel, eval, told, seen, truth, clock>>

\* SaveChannel switches the channel on and off; DeleteChannel unlinks it.
SaveChannel(c) ==
    /\ Event /\ story.evaluates /\ channel # "deleted" /\ channel # c
    /\ channel' = c
    /\ UNCHANGED <<story, inventory, rule, since, alert, eval, told, lost, seen, truth, clock>>

Ack(d) ==
    /\ Event /\ alert[d].open /\ ~alert[d].acked
    /\ alert' = [alert EXCEPT ![d].acked = TRUE]
    /\ UNCHANGED <<story, inventory, rule, channel, since, eval, told, lost, seen, truth, clock>>

\* createDevice stores the device and probes it.
CreateDevice(k, d) ==
    /\ Event /\ row[d].life = "absent" /\ d \in story.later
    /\ k \in story.contacts /\ At(k, "idle")
    /\ row' = [row EXCEPT ![d].life = "registered"]
    /\ contact' = [contact EXCEPT ![k] = [Silent EXCEPT !.pc = "probe", !.dev = d, !.new = TRUE]]
    /\ UNCHANGED <<story, license, running, last, blurred, alerting, truth, clock>>

\* Update moves a device into or out of the rule's group.
UpdateDevice(d) ==
    /\ Event /\ Exists(d) /\ story.evaluates
    /\ row' = [row EXCEPT ![d].grouped = ~@]
    /\ UNCHANGED <<story, license, running, contact, last, blurred, alerting, truth, clock>>

\* Delete takes status, pending times and alerts along; nobody is told.
Remove(d) ==
    /\ row' = [row EXCEPT ![d] = [NoRow EXCEPT !.life = "deleted"]]
    /\ since' = [since EXCEPT ![d] = -1] /\ alert' = [alert EXCEPT ![d] = Closed]
    /\ lost' = lost \cup {d} /\ seen' = [seen EXCEPT ![d] = -1]

DeleteDevice(d) ==
    /\ Event /\ Exists(d) /\ Remove(d)
    /\ UNCHANGED <<story, license, running, contact, last, blurred, rule, channel, eval, told, truth, clock>>

\* createDevice deletes the device again when its serial was another one's.
Undo(k) ==
    LET d == contact[k].dev IN
    /\ At(k, "undo")
    /\ IF Exists(d) THEN Remove(d) ELSE UNCHANGED <<row, since, alert, lost, seen>>
    /\ End(k)
    /\ UNCHANGED <<story, license, last, blurred, rule, channel, eval, told, world>>

\* A license is applied, or time passes. Where the rule is not about it, an end
\* that is near is as good, and one that has passed is as no license.
License(d, s) ==
    /\ Event /\ Exists(d) /\ license[d] # s
    /\ s \in {"good", "none"} \/ story.kind = "license"
    /\ license' = [license EXCEPT ![d] = s]
    /\ UNCHANGED <<story, row, running, contact, last, blurred, alerting, truth, clock>>

Change(d, t) ==
    /\ Event /\ truth[d] # t /\ Exists(d) /\ story.contacts # {}
    /\ truth' = [truth EXCEPT ![d] = t]
    /\ UNCHANGED <<story, inventory, alerting, clock>>

Restart ==
    /\ Event
    /\ running' = {} /\ contact' = [k \in Contacts |-> Silent] /\ eval' = Resting
    /\ lost' = lost \cup Notes
    /\ blurred' = blurred \cup {contact[k].dev : k \in {i \in Contacts : Holding(i)}}
    /\ UNCHANGED <<story, row, license, last, rule, channel, since, alert, told, seen, truth, clock>>

Tick ==
    /\ clock < MaxClock /\ story.evaluates
    /\ clock' = clock + 1
    /\ UNCHANGED <<story, inventory, alerting, truth, events>>

Poll(k) ==
    \/ \E d \in Devices : Refresh(k, d) \/ CreateDevice(k, d) \/ \E probe \in BOOLEAN : Schedule(k, d, probe)
    \/ Ask(k) \/ ProbeSave(k) \/ Signatures(k) \/ HealthSave(k) \/ Cancelled(k)

Pass ==
    \/ EvalBegin \/ LoadChannels \/ EvalEnd
    \/ \E d \in Devices : ApplyFiring(d) \/ ApplyClear(d) \/ ApplyFails(d) \/ \E sent \in BOOLEAN : Notify(d, sent)

Panel ==
    \/ SaveRule \/ DeleteRule \/ \E c \in {"enabled", "disabled", "deleted"} : SaveChannel(c)
    \/ \E d \in Devices : Ack(d) \/ UpdateDevice(d) \/ DeleteDevice(d)
                       \/ \E s \in {"good", "near", "expired", "none"} : License(d, s)

Next ==
    \/ \E k \in Contacts : Poll(k) \/ Undo(k)
    \/ Pass \/ EvalError \/ Panel \/ Restart \/ Tick
    \/ \E d \in Devices, t \in {"up", "high", "down"} : Change(d, t)

Spec == Init /\ [][Next]_vars

\* The loop of Run evaluates again and again. Errors and restarts are among the
\* bounded events: from some time on there are none.
FairSpec == Spec /\ WF_vars(Pass)

-------------------------------------------------------------------------------
(* Properties *)

\* The monitor polls a device at most once at a time, and Monitor.running is the
\* set of the devices it polls: no poll that ended keeps a device from the next.
OnePollPerDevice ==
    \A d \in Devices :
       Cardinality({k \in Contacts : contact[k].poll /\ contact[k].dev = d}) = IF d \in running THEN 1 ELSE 0

\* Once no answer of a device is on its way, its status is what it answered
\* last. The exceptions are an answer that met another contact's (whichever is
\* written last stands) and one that was not stored: a probe that timed out, a
\* request cancelled, a context or process that ended before the write, and a
\* probe refused since another row has the serial, after which a device that
\* answered keeps the status it had. The next answer that meets no other and is
\* stored makes up for each of them.
StatusIsLatest ==
    \A d \in Devices : Exists(d) /\ last[d] # "none" =>
       \/ row[d].status = IF Failed(last[d]) THEN "offline" ELSE "online"
       \/ d \in blurred \/ \E k \in Contacts : Holding(k) /\ contact[k].dev = d

\* Between passes, the channel has heard of exactly the alerts that are open,
\* save for the devices whose latest message was lost.
ChannelKnows == eval.pc = "idle" => \A d \in Devices \ lost : alert[d].open <=> d \in told

\* An alert opens only after the condition was seen by every pass for the
\* rule's duration, or passes in between left the rule or the device out.
DurationHeld ==
    [][\A d \in Devices : ~alert[d].open /\ alert'[d].open =>
          story.duration = 0 \/ seen[d] = -2 \/ (seen[d] # -1 /\ eval.now - seen[d] >= story.duration)]_vars

\* With repeats, an open alert that no pass has notified is notified in the
\* end, unless it is resolved or acknowledged or no pass looks at it.
NotifiedInTheEnd ==
    \A d \in Devices :
       (story.repeat > 0 /\ alert[d].open /\ alert[d].notified = -1)
          ~> (alert[d].notified # -1 \/ ~alert[d].open \/ alert[d].acked \/ d \notin Considered)

\* The inventory is what the devices said: one poll at a time writes a device's
\* status, and the latest answer that was stored is the one that stands.
InventoryIsTrue == TypeOK /\ OnePollPerDevice /\ StatusIsLatest
===============================================================================
