--------------------------- MODULE MonitoringProofs ---------------------------
(* The properties of Monitoring for any number of devices, contacts, events     *)
(* and stories: what contacts leave in the inventory, and what a pass of        *)
(* Evaluate leaves in the alerts and at the channel.                            *)
EXTENDS Monitoring, FiniteSetTheorems, TLAPS

\* Monitor.running is the devices of the polls, each of which has one.
PollsAreRunning ==
    /\ \A k \in Contacts : contact[k].poll => contact[k].dev \in running
    /\ \A d \in running : \E k \in Contacts : contact[k].poll /\ contact[k].dev = d
    /\ \A k, i \in Contacts : contact[k].poll /\ contact[i].poll /\ contact[k].dev = contact[i].dev => k = i

\* An idle contact is nobody's; the others are of devices that were created.
ContactsOf ==
    \A k \in Contacts : IF At(k, "idle") THEN contact[k] = Silent ELSE row[contact[k].dev].life # "absent"

\* A device that is not there yet has answered nothing.
AbsentIsNew == \A d \in Devices : row[d].life = "absent" => last[d] = "none"

\* An answer on its way is the latest one.
AnswerIsLatest ==
    \A k \in Contacts : Holding(k) =>
       contact[k].answer # "none" /\ (contact[k].answer = last[contact[k].dev] \/ contact[k].dev \in blurred)

\* The inductive invariant of the contacts.
InventoryInv == TypeOK /\ PollsAreRunning /\ ContactsOf /\ AbsentIsNew /\ AnswerIsLatest /\ StatusIsLatest

\* A pass treats a device once, and one that was created.
PassIsOrdered ==
    /\ eval.pc = "idle" => eval = Resting
    /\ eval.firing \cap eval.clear = {} /\ eval.opened \cap eval.resolved = {}
    /\ (eval.firing \cup eval.clear) \cap Notes = {}
    /\ \A d \in eval.firing \cup eval.opened : row[d].life # "absent"

\* A message is about the alert as it stands, and without one the channel knows.
MessagesAreTrue ==
    /\ \A d \in eval.opened : Known(d) => alert[d].open
    /\ \A d \in eval.resolved : ~alert[d].open
    /\ \A d \in Devices \ (lost \cup Notes) : alert[d].open <=> d \in told

\* What alert_pending says was seen at least as long.
SeenLongEnough ==
    \A d \in Devices :
       /\ seen[d] <= clock /\ eval.now <= clock /\ (eval.pc # "idle" => seen[d] <= eval.now)
       /\ since[d] # -1 => seen[d] = -2 \/ (seen[d] # -1 /\ seen[d] <= since[d])

\* The inductive invariant of the alerts, beside that of the contacts.
AlertInv == PassIsOrdered /\ MessagesAreTrue /\ SeenLongEnough

-------------------------------------------------------------------------------
(* Types *)

\* The records of the variables.
ContactRow == [pc: {"idle", "probe", "probed", "undo", "signatures", "health", "answered"},
               dev: Devices, poll: BOOLEAN, new: BOOLEAN, answer: Answers]
\* A pass of Evaluate.
PassRow == [pc: {"idle", "apply", "notify"}, now: 0..MaxClock, firing: SUBSET Devices, clear: SUBSET Devices,
            opened: SUBSET Devices, resolved: SUBSET Devices, channel: BOOLEAN]
\* An alert.
AlertRow == [open: BOOLEAN, acked: BOOLEAN, notified: -1..MaxClock]

\* The values things start with.
LEMMA Blanks ==
    /\ Silent \in ContactRow /\ Silent.pc = "idle" /\ Silent.poll = FALSE /\ Silent.answer = "none"
    /\ Resting \in PassRow /\ Closed \in AlertRow /\ NoRow \in DeviceRow
<1>. DEFINE d0 == CHOOSE d \in Devices : TRUE
<1>1. d0 \in Devices
  BY MonitoringConstants
<1>2. Silent = [pc |-> "idle", dev |-> d0, poll |-> FALSE, new |-> FALSE, answer |-> "none"]
  BY DEF Silent
<1>. HIDE DEF d0
<1>3. Silent \in ContactRow /\ Silent.pc = "idle" /\ Silent.poll = FALSE /\ Silent.answer = "none"
  BY <1>1, <1>2 DEF ContactRow, Answers
<1>4. 0 \in 0..MaxClock /\ -1 \in -1..MaxClock
  BY MonitoringConstants
<1>. QED
  BY <1>3, <1>4 DEF Resting, PassRow, Closed, AlertRow, NoRow, DeviceRow

\* The stories and the clock.
LEMMA StoryKinds ==
    ASSUME TypeOK
    PROVE  /\ story.events \in Nat /\ story.duration \in Nat /\ story.repeat \in Nat /\ MaxClock \in Nat
           /\ story.evaluates \in BOOLEAN
BY MonitoringConstants DEF TypeOK, Story

\* A contact goes on.
LEMMA ContactGoes ==
    ASSUME contact \in [Contacts -> ContactRow], NEW k \in Contacts, NEW r \in ContactRow,
           contact' = [contact EXCEPT ![k] = r]
    PROVE  contact' \in [Contacts -> ContactRow] /\ \A i \in Contacts : contact'[i] = IF i = k THEN r ELSE contact[i]
OBVIOUS

\* The scheduler starts a poll.
LEMMA PollRecord ==
    ASSUME TypeOK, NEW k \in Contacts, NEW d \in Devices, NEW probe \in BOOLEAN, Schedule(k, d, probe)
    PROVE  \E r \in ContactRow :
                /\ contact' = [contact EXCEPT ![k] = r] /\ r.dev = d /\ r.poll = TRUE /\ r.pc \in {"probe", "health"}
<1>t. contact \in [Contacts -> ContactRow] /\ contact[k] \in ContactRow
  BY DEF TypeOK, ContactRow
<1>. DEFINE r == [Silent EXCEPT !.pc = IF probe THEN "probe" ELSE "health", !.dev = d, !.poll = TRUE]
<1>1. r \in ContactRow /\ r.dev = d /\ r.poll = TRUE /\ r.pc \in {"probe", "health"}
  BY Blanks DEF ContactRow
<1>2. contact' = [contact EXCEPT ![k] = r]
  BY DEF Schedule
<1>. QED
  BY <1>1, <1>2

\* The panel asks for a contact.
LEMMA RequestRecord ==
    ASSUME TypeOK, NEW k \in Contacts, NEW d \in Devices, Refresh(k, d) \/ CreateDevice(k, d)
    PROVE  \E r \in ContactRow :
                /\ contact' = [contact EXCEPT ![k] = r] /\ r.dev = d /\ r.poll = FALSE /\ r.pc = "probe"
<1>t. contact \in [Contacts -> ContactRow] /\ contact[k] \in ContactRow
  BY DEF TypeOK, ContactRow
<1>1. CASE Refresh(k, d)
  <2>. DEFINE r == [Silent EXCEPT !.pc = "probe", !.dev = d]
  <2>1. r \in ContactRow /\ r.dev = d /\ r.poll = FALSE /\ r.pc = "probe"
    BY Blanks DEF ContactRow
  <2>2. contact' = [contact EXCEPT ![k] = r]
    BY <1>1 DEF Refresh
  <2>. QED
    BY <2>1, <2>2
<1>2. CASE CreateDevice(k, d)
  <2>. DEFINE r == [Silent EXCEPT !.pc = "probe", !.dev = d, !.new = TRUE]
  <2>1. r \in ContactRow /\ r.dev = d /\ r.poll = FALSE /\ r.pc = "probe"
    BY Blanks DEF ContactRow
  <2>2. contact' = [contact EXCEPT ![k] = r]
    BY <1>2 DEF CreateDevice
  <2>. QED
    BY <2>1, <2>2
<1>. QED
  BY <1>1, <1>2

\* A device answers.
LEMMA AskRecord ==
    ASSUME TypeOK, NEW k \in Contacts, Ask(k)
    PROVE  \E r \in ContactRow :
                /\ contact' = [contact EXCEPT ![k] = r] /\ r.dev = contact[k].dev /\ r.poll = contact[k].poll
                /\ r.pc \in {"probed", "answered"} /\ r.answer # "none"
                /\ last' = [last EXCEPT ![r.dev] = r.answer]
<1>t. contact \in [Contacts -> ContactRow] /\ contact[k] \in ContactRow
  BY DEF TypeOK, ContactRow
<1>. DEFINE next == [probe |-> "probed", health |-> "answered"]
<1>1. PICK a \in {truth[contact[k].dev]} \cup (IF truth[contact[k].dev] = "down" THEN {"timeout"} ELSE {}) :
         /\ contact' = [contact EXCEPT ![k].pc = next[@], ![k].answer = a]
         /\ last' = [last EXCEPT ![contact[k].dev] = a]
  BY DEF Ask
<1>2. a \in Answers /\ a # "none"
  <2>1. truth[contact[k].dev] \in {"up", "high", "down"}
    BY <1>t DEF TypeOK, ContactRow
  <2>. QED
    BY <1>1, <2>1 DEF Answers
<1>3. next[contact[k].pc] \in {"probed", "answered"}
  <2>1. contact[k].pc = "probe" \/ contact[k].pc = "health"
    BY DEF Ask
  <2>2. next["probe"] = "probed" /\ next["health"] = "answered"
    OBVIOUS
  <2>. QED
    BY <2>1, <2>2
<1>. HIDE DEF next
<1>. DEFINE r == [contact[k] EXCEPT !.pc = next[contact[k].pc], !.answer = a]
<1>4. r \in ContactRow /\ r.dev = contact[k].dev /\ r.poll = contact[k].poll /\ r.answer = a
      /\ r.pc \in {"probed", "answered"}
  BY <1>t, <1>2, <1>3 DEF ContactRow
<1>5. contact' = [contact EXCEPT ![k] = r]
  BY <1>t, <1>1 DEF ContactRow
<1>. HIDE DEF r
<1>. QED
  BY <1>1, <1>2, <1>4, <1>5

\* A probe goes on.
LEMMA GotoRecord ==
    ASSUME TypeOK, NEW k \in Contacts, NEW pc \in {"undo", "signatures", "health"}, Goto(k, pc)
    PROVE  \E r \in ContactRow :
                /\ contact' = [contact EXCEPT ![k] = r] /\ r.dev = contact[k].dev /\ r.poll = contact[k].poll
                /\ r.pc = pc
<1>t. contact \in [Contacts -> ContactRow] /\ contact[k] \in ContactRow
  BY DEF TypeOK, ContactRow
<1>. DEFINE r == [contact[k] EXCEPT !.pc = pc]
<1>1. r \in ContactRow /\ r.dev = contact[k].dev /\ r.poll = contact[k].poll /\ r.pc = pc
  BY <1>t DEF ContactRow
<1>2. contact' = [contact EXCEPT ![k] = r]
  BY DEF Goto
<1>. QED
  BY <1>1, <1>2

\* A contact that ends.
LEMMA EndRecord ==
    ASSUME TypeOK, NEW k \in Contacts, End(k)
    PROVE  /\ contact' \in [Contacts -> ContactRow] /\ running' \subseteq running
           /\ \A i \in Contacts : contact'[i] = IF i = k THEN Silent ELSE contact[i]
           /\ running' = IF contact[k].poll THEN running \ {contact[k].dev} ELSE running
BY Blanks DEF TypeOK, End, ContactRow

\* The types, with the records by name.
TypeList ==
      /\ story \in Stories /\ row \in [Devices -> DeviceRow] /\ running \subseteq Devices
      /\ license \in [Devices -> {"good", "near", "expired", "none"}]
      /\ rule \in {"enabled", "disabled", "deleted"} /\ channel \in {"enabled", "disabled", "deleted"}
      /\ since \in [Devices -> -1..MaxClock] /\ alert \in [Devices -> AlertRow]
      /\ truth \in [Devices -> {"up", "high", "down"}] /\ contact \in [Contacts -> ContactRow] /\ eval \in PassRow
      /\ clock \in 0..MaxClock /\ events \in 0..story.events /\ last \in [Devices -> Answers]
      /\ blurred \subseteq Devices /\ told \subseteq Devices /\ lost \subseteq Devices
      /\ seen \in [Devices -> -2..MaxClock]

\* They are the same.
LEMMA TypesByName == (TypeOK <=> TypeList) /\ (TypeOK' <=> TypeList')
BY DEF TypeOK, TypeList, AlertRow, ContactRow, PassRow

\* The rows of the inventory that statements make of others.
LEMMA RowKinds ==
    ASSUME TypeOK, NEW r \in DeviceRow
    PROVE  /\ [r EXCEPT !.life = "registered"] \in DeviceRow /\ [r EXCEPT !.status = "offline"] \in DeviceRow
           /\ Seen(r) \in DeviceRow /\ [r EXCEPT !.grouped = ~r.grouped] \in DeviceRow
           /\ \A m \in {"none", "low", "high"}, t \in 0..MaxClock :
                 /\ [r EXCEPT !.metric = m, !.at = t] \in DeviceRow
                 /\ [r EXCEPT !.status = "online", !.at = t, !.metric = m] \in DeviceRow
BY DEF DeviceRow, Seen

\* One row is written.
LEMMA RowGoes ==
    ASSUME TypeOK, NEW d \in Devices, NEW r \in DeviceRow, row' = [row EXCEPT ![d] = r]
    PROVE  row' \in [Devices -> DeviceRow] /\ \A e \in Devices : row'[e] = IF e = d THEN r ELSE row[e]
BY DEF TypeOK

\* What each step of a contact makes of its device's row.
LEMMA RowRecords ==
    ASSUME TypeOK, NEW k \in Contacts
    PROVE  /\ \A d \in Devices : CreateDevice(k, d) => \E r \in DeviceRow : row' = [row EXCEPT ![d] = r]
           /\ ProbeSave(k) \/ Signatures(k) \/ HealthSave(k) =>
                 \E q \in DeviceRow : row' = [row EXCEPT ![contact[k].dev] = q]
<1>. DEFINE d == contact[k].dev
<1>0. d \in Devices /\ row \in [Devices -> DeviceRow] /\ row[d] \in DeviceRow /\ row = [row EXCEPT ![d] = row[d]]
      /\ clock \in 0..MaxClock
  BY DEF TypeOK
<1>a. ASSUME NEW r \in DeviceRow, row' = [row EXCEPT ![d] = r]
      PROVE  \E q \in DeviceRow : row' = [row EXCEPT ![contact[k].dev] = q]
  BY ONLY <1>a
<1>1. ASSUME NEW e \in Devices, CreateDevice(k, e) PROVE \E r \in DeviceRow : row' = [row EXCEPT ![e] = r]
  <2>1. row' = [row EXCEPT ![e] = [row[e] EXCEPT !.life = "registered"]] /\ row[e] \in DeviceRow
    BY <1>0, <1>1 DEF CreateDevice
  <2>. QED
    BY <2>1, RowKinds
<1>2. ASSUME ProbeSave(k) PROVE \E q \in DeviceRow : row' = [row EXCEPT ![contact[k].dev] = q]
  <2>1. row' = row \/ row' = [row EXCEPT ![d] = [row[d] EXCEPT !.status = "offline"]]
        \/ row' = [row EXCEPT ![d] = Seen(row[d])]
    BY <1>0, <1>2 DEF ProbeSave
  <2>2. [row[d] EXCEPT !.status = "offline"] \in DeviceRow /\ Seen(row[d]) \in DeviceRow
    BY <1>0, RowKinds
  <2>. QED
    BY <1>0, <1>a, <2>1, <2>2
<1>3. ASSUME Signatures(k) PROVE \E q \in DeviceRow : row' = [row EXCEPT ![contact[k].dev] = q]
  <2>. DEFINE m == IF row[d].metric = "none" THEN "low" ELSE row[d].metric
              t == IF row[d].metric = "none" THEN clock ELSE row[d].at
  <2>1. m \in {"none", "low", "high"} /\ t \in 0..MaxClock
    BY <1>0 DEF DeviceRow
  <2>2. row' = row \/ row' = [row EXCEPT ![d] = [row[d] EXCEPT !.metric = m, !.at = t]]
    BY <1>0, <1>3 DEF Signatures
  <2>. HIDE DEF m, t
  <2>3. [row[d] EXCEPT !.metric = m, !.at = t] \in DeviceRow
    BY <1>0, <2>1, RowKinds
  <2>. QED
    BY <1>0, <1>a, <2>2, <2>3
<1>4. ASSUME HealthSave(k) PROVE \E q \in DeviceRow : row' = [row EXCEPT ![contact[k].dev] = q]
  <2>. DEFINE m == IF contact[k].answer = "high" THEN "high" ELSE "low"
  <2>1. row' = row \/ row' = [row EXCEPT ![d] = [row[d] EXCEPT !.status = "offline"]]
        \/ row' = [row EXCEPT ![d] = [row[d] EXCEPT !.status = "online", !.at = clock, !.metric = m]]
    BY <1>0, <1>4 DEF HealthSave
  <2>2. m \in {"none", "low", "high"}
    OBVIOUS
  <2>. HIDE DEF m
  <2>3. [row[d] EXCEPT !.status = "offline"] \in DeviceRow
        /\ [row[d] EXCEPT !.status = "online", !.at = clock, !.metric = m] \in DeviceRow
    BY <1>0, <2>2, RowKinds
  <2>. QED
    BY <1>0, <1>a, <2>1, <2>3
<1>. QED
  BY <1>1, <1>2, <1>3, <1>4

\* What an event counts stays within its bound.
LEMMA EventType ==
    ASSUME TypeOK, Event, story' = story
    PROVE  events' \in 0..story'.events
BY StoryKinds DEF TypeOK, Event

\* The contacts keep the types.
LEMMA PollTypes ==
    ASSUME TypeOK, NEW k \in Contacts, Poll(k)
    PROVE  TypeOK'
<1>0. contact \in [Contacts -> ContactRow] /\ contact[k].dev \in Devices /\ contact[k].answer \in Answers
  BY DEF TypeOK, ContactRow
<1>a. ASSUME contact' \in [Contacts -> ContactRow], row' \in [Devices -> DeviceRow], running' \subseteq Devices,
             last' \in [Devices -> Answers], blurred' \subseteq Devices,
             UNCHANGED <<story, license, alerting, world>>
      PROVE  TypeOK'
  BY <1>a, TypesByName DEF TypeOK, ContactRow, alerting, world, TypeList
<1>1. ASSUME NEW d \in Devices, NEW probe \in BOOLEAN, Schedule(k, d, probe) PROVE TypeOK'
  <2>1. contact' \in [Contacts -> ContactRow]
    <3>1. PICK r \in ContactRow :
             contact' = [contact EXCEPT ![k] = r] /\ r.dev = d /\ r.poll = TRUE /\ r.pc \in {"probe", "health"}
      BY <1>1, PollRecord
    <3>. QED
      BY <1>0, <3>1, ContactGoes
  <2>. QED
    BY <1>1, <1>a, <2>1 DEF Schedule, TypeOK
<1>2. ASSUME NEW d \in Devices, Refresh(k, d) PROVE TypeOK'
  <2>1. contact' \in [Contacts -> ContactRow]
    <3>1. PICK r \in ContactRow : contact' = [contact EXCEPT ![k] = r]
      BY <1>2, RequestRecord
    <3>. QED
      BY <1>0, <3>1, ContactGoes
  <2>. QED
    BY <1>2, <1>a, <2>1 DEF Refresh, TypeOK
<1>3. ASSUME NEW d \in Devices, CreateDevice(k, d) PROVE TypeOK'
  <2>1. contact' \in [Contacts -> ContactRow]
    <3>1. PICK r \in ContactRow : contact' = [contact EXCEPT ![k] = r]
      BY <1>3, RequestRecord
    <3>. QED
      BY <1>0, <3>1, ContactGoes
  <2>2. row' \in [Devices -> DeviceRow]
    <3>1. PICK r \in DeviceRow : row' = [row EXCEPT ![d] = r]
      BY <1>3, RowRecords
    <3>. QED
      BY <3>1, RowGoes
  <2>3. events' \in 0..story'.events
    BY <1>3, EventType DEF CreateDevice
  <2>. QED
    BY <1>3, <2>1, <2>2, <2>3, TypesByName DEF CreateDevice, TypeOK, ContactRow, alerting, TypeList
<1>4. CASE Ask(k)
  <2>1. PICK r \in ContactRow : contact' = [contact EXCEPT ![k] = r] /\ last' = [last EXCEPT ![r.dev] = r.answer]
    BY <1>4, AskRecord
  <2>2. contact' \in [Contacts -> ContactRow]
    BY <1>0, <2>1, ContactGoes
  <2>3. last' \in [Devices -> Answers]
    BY <2>1 DEF TypeOK, ContactRow
  <2>4. blurred' \subseteq Devices
    BY <1>0, <1>4 DEF Ask, TypeOK
  <2>. QED
    BY <1>4, <1>a, <2>2, <2>3, <2>4 DEF Ask, TypeOK
<1>5. CASE ProbeSave(k)
  <2>1. contact' \in [Contacts -> ContactRow] /\ running' \subseteq Devices
    <3>1. End(k) \/ ((Goto(k, "undo") \/ Goto(k, "signatures")) /\ UNCHANGED running)
      BY <1>5 DEF ProbeSave
    <3>2. CASE End(k)
      BY <3>2, EndRecord DEF TypeOK
    <3>3. CASE (Goto(k, "undo") \/ Goto(k, "signatures")) /\ UNCHANGED running
      <4>1. PICK r \in ContactRow : contact' = [contact EXCEPT ![k] = r]
        BY <3>3, GotoRecord
      <4>. QED
        BY <1>0, <3>3, <4>1, ContactGoes DEF TypeOK
    <3>. QED
      BY <3>1, <3>2, <3>3
  <2>2. row' \in [Devices -> DeviceRow]
    <3>1. PICK r \in DeviceRow : row' = [row EXCEPT ![contact[k].dev] = r]
      BY <1>5, RowRecords
    <3>. QED
      BY <1>0, <3>1, RowGoes
  <2>3. blurred' \subseteq Devices
    BY <1>0, <1>5 DEF ProbeSave, TypeOK, Drop
  <2>. QED
    BY <1>5, <1>a, <2>1, <2>2, <2>3 DEF ProbeSave, TypeOK
<1>6. CASE Signatures(k)
  <2>1. contact' \in [Contacts -> ContactRow]
    <3>1. PICK r \in ContactRow : contact' = [contact EXCEPT ![k] = r]
      BY <1>6, GotoRecord DEF Signatures
    <3>. QED
      BY <1>0, <3>1, ContactGoes
  <2>2. row' \in [Devices -> DeviceRow]
    <3>1. PICK r \in DeviceRow : row' = [row EXCEPT ![contact[k].dev] = r]
      BY <1>6, RowRecords
    <3>. QED
      BY <1>0, <3>1, RowGoes
  <2>. QED
    BY <1>6, <1>a, <2>1, <2>2 DEF Signatures, TypeOK
<1>7. CASE HealthSave(k)
  <2>1. contact' \in [Contacts -> ContactRow] /\ running' \subseteq Devices
    BY <1>7, EndRecord DEF HealthSave, TypeOK
  <2>2. row' \in [Devices -> DeviceRow]
    <3>1. PICK r \in DeviceRow : row' = [row EXCEPT ![contact[k].dev] = r]
      BY <1>7, RowRecords
    <3>. QED
      BY <1>0, <3>1, RowGoes
  <2>3. blurred' \subseteq Devices
    BY <1>0, <1>7 DEF HealthSave, TypeOK, Drop
  <2>. QED
    BY <1>7, <1>a, <2>1, <2>2, <2>3 DEF HealthSave, TypeOK
<1>8. CASE Cancelled(k)
  <2>1. contact' \in [Contacts -> ContactRow] /\ running' \subseteq Devices
    BY <1>8, EndRecord DEF Cancelled, TypeOK
  <2>. QED
    BY <1>8, <1>a, <2>1 DEF Cancelled, TypeOK
<1>. QED
  BY <1>1, <1>2, <1>3, <1>4, <1>5, <1>6, <1>7, <1>8 DEF Poll

\* A pass, an error in it included, keeps the types.
LEMMA PassTypes ==
    ASSUME TypeOK, Pass \/ EvalError
    PROVE  TypeOK'
<1>0. /\ eval \in PassRow /\ alert \in [Devices -> AlertRow] /\ since \in [Devices -> -1..MaxClock]
      /\ Resting \in PassRow /\ Closed \in AlertRow /\ clock \in 0..MaxClock /\ seen \in [Devices -> -2..MaxClock]
  BY TypesByName, Blanks DEF TypeList
<1>00. /\ eval.now \in 0..MaxClock /\ MaxClock \in Nat
       /\ eval.firing \subseteq Devices /\ eval.clear \subseteq Devices
       /\ eval.opened \subseteq Devices /\ eval.resolved \subseteq Devices
  BY <1>0, StoryKinds DEF PassRow
<1>a. ASSUME eval' \in PassRow, alert' \in [Devices -> AlertRow], since' \in [Devices -> -1..MaxClock],
             seen' \in [Devices -> -2..MaxClock], told' \subseteq Devices, lost' \subseteq Devices,
             events' \in 0..story'.events, UNCHANGED <<story, inventory, rule, channel, truth, clock>>
      PROVE  TypeOK'
  BY <1>a, TypesByName DEF inventory, TypeList
<1>b. told \subseteq Devices /\ lost \subseteq Devices /\ events \in 0..story.events
  BY DEF TypeOK
<1>1. CASE EvalBegin
  <2>1. eval' \in PassRow
    BY <1>0, <1>1 DEF EvalBegin, Considered, PassRow, Resting
  <2>2. seen' \in [Devices -> -2..MaxClock]
    BY <1>0, <1>00, <1>1 DEF EvalBegin
  <2>. QED
    BY <1>0, <1>1, <1>a, <1>b, <2>1, <2>2 DEF EvalBegin, world
<1>2. CASE LoadChannels
  <2>1. eval' \in PassRow
    BY <1>0, <1>2 DEF LoadChannels, PassRow
  <2>. QED
    BY <1>0, <1>2, <1>a, <1>b, <2>1 DEF LoadChannels, world
<1>3. CASE EvalEnd
  BY <1>0, <1>3, <1>a, <1>b DEF EvalEnd, world
<1>4. ASSUME NEW d \in Devices, ApplyFiring(d) PROVE TypeOK'
  <2>1. eval' \in PassRow
    BY <1>0, <1>4 DEF ApplyFiring, PassRow
  <2>2. since' \in [Devices -> -1..MaxClock]
    BY <1>0, <1>00, <1>4 DEF ApplyFiring, Since
  <2>3. alert' \in [Devices -> AlertRow]
    <3>1. [Closed EXCEPT !.open = TRUE] \in AlertRow
      BY <1>0 DEF AlertRow
    <3>. QED
      BY <1>0, <1>4, <3>1 DEF ApplyFiring
  <2>4. seen' \in [Devices -> -2..MaxClock]
    BY <1>0, <1>00, <1>4 DEF ApplyFiring
  <2>. QED
    BY <1>4, <1>a, <1>b, <2>1, <2>2, <2>3, <2>4 DEF ApplyFiring, world
<1>5. ASSUME NEW d \in Devices, ApplyClear(d) PROVE TypeOK'
  <2>1. eval' \in PassRow
    BY <1>0, <1>5 DEF ApplyClear, PassRow, ResolvedNote
  <2>2. since' \in [Devices -> -1..MaxClock] /\ seen' \in [Devices -> -2..MaxClock]
    BY <1>0, <1>00, <1>5 DEF ApplyClear, ForgetSince
  <2>3. alert' \in [Devices -> AlertRow]
    BY <1>0, <1>5 DEF ApplyClear
  <2>. QED
    BY <1>5, <1>a, <1>b, <2>1, <2>2, <2>3 DEF ApplyClear, world
<1>6. ASSUME Abandon, events' \in 0..story'.events PROVE TypeOK'
  BY <1>0, <1>00, <1>6, <1>a, <1>b DEF Abandon, Notes
<1>7. ASSUME NEW d \in Devices, ApplyFails(d) PROVE TypeOK'
  BY <1>6, <1>7, <1>b DEF ApplyFails, Abandon
<1>8. ASSUME NEW d \in Devices, NEW sent \in BOOLEAN, Notify(d, sent) PROVE TypeOK'
  <2>1. eval' \in PassRow
    BY <1>0, <1>8 DEF Notify, RestOf, PassRow
  <2>2. alert' \in [Devices -> AlertRow]
    BY <1>0, <1>00, <1>8 DEF Notify, AlertRow
  <2>3. events' \in 0..story'.events
    BY <1>8, <1>b, EventType DEF Notify
  <2>4. told' \subseteq Devices /\ lost' \subseteq Devices
    BY <1>8, <1>b DEF Notify
  <2>. QED
    BY <1>0, <1>8, <1>a, <2>1, <2>2, <2>3, <2>4 DEF Notify
<1>9. CASE EvalError
  BY <1>6, <1>9, EventType DEF EvalError, Abandon
<1>. QED
  BY <1>1, <1>2, <1>3, <1>4, <1>5, <1>7, <1>8, <1>9 DEF Pass

\* The panel, the license, the devices, a restart and the clock.
Outside ==
    \/ Panel \/ Restart \/ Tick \/ (\E k \in Contacts : Undo(k))
    \/ \E d \in Devices, t \in {"up", "high", "down"} : Change(d, t)

\* They keep the types.
LEMMA OutsideTypes ==
    ASSUME TypeOK, Outside
    PROVE  TypeOK'
<1>0. /\ eval \in PassRow /\ alert \in [Devices -> AlertRow] /\ contact \in [Contacts -> ContactRow]
      /\ Resting \in PassRow /\ Closed \in AlertRow /\ Silent \in ContactRow /\ NoRow \in DeviceRow
      /\ -1 \in -1..MaxClock /\ -1 \in -2..MaxClock
  BY TypesByName, Blanks, StoryKinds DEF TypeList
<1>1. CASE SaveRule
  BY <1>1, EventType, TypesByName DEF SaveRule, inventory, TypeList
<1>2. CASE DeleteRule
  BY <1>0, <1>2, EventType, TypesByName DEF DeleteRule, inventory, TypeList
<1>3. ASSUME NEW c \in {"enabled", "disabled", "deleted"}, SaveChannel(c) PROVE TypeOK'
  BY <1>3, EventType, TypesByName DEF SaveChannel, inventory, TypeList
<1>4. ASSUME NEW d \in Devices, Ack(d) PROVE TypeOK'
  <2>1. alert' \in [Devices -> AlertRow]
    BY <1>0, <1>4 DEF Ack, AlertRow
  <2>. QED
    BY <1>4, <2>1, EventType, TypesByName DEF Ack, inventory, TypeList
<1>5. ASSUME NEW d \in Devices, UpdateDevice(d) PROVE TypeOK'
  <2>1. row' \in [Devices -> DeviceRow]
    <3>1. row[d] \in DeviceRow /\ row' = [row EXCEPT ![d] = [row[d] EXCEPT !.grouped = ~row[d].grouped]]
      BY <1>5 DEF UpdateDevice, TypeOK
    <3>. QED
      BY <3>1, RowKinds, RowGoes
  <2>. QED
    BY <1>5, <2>1, EventType, TypesByName DEF UpdateDevice, alerting, TypeList
<1>a. ASSUME NEW d \in Devices, Remove(d)
      PROVE  /\ row' \in [Devices -> DeviceRow] /\ lost' \subseteq Devices
             /\ since' \in [Devices -> -1..MaxClock] /\ alert' \in [Devices -> AlertRow] /\ seen' \in [Devices -> -2..MaxClock]
  <2>1. [NoRow EXCEPT !.life = "deleted"] \in DeviceRow
    BY <1>0 DEF DeviceRow
  <2>. QED
    BY <1>0, <1>a, <2>1 DEF Remove, TypeOK
<1>6. ASSUME NEW d \in Devices, DeleteDevice(d) PROVE TypeOK'
  BY <1>6, <1>a, EventType, TypesByName DEF DeleteDevice, TypeList
<1>7. ASSUME NEW d \in Devices, NEW s \in {"good", "near", "expired", "none"}, License(d, s) PROVE TypeOK'
  BY <1>7, EventType, TypesByName DEF License, alerting, TypeList
<1>11. ASSUME NEW k \in Contacts, Undo(k) PROVE TypeOK'
  <2>1. contact' \in [Contacts -> ContactRow] /\ running' \subseteq Devices
    BY <1>11, EndRecord DEF Undo, TypeOK
  <2>2. /\ row' \in [Devices -> DeviceRow] /\ lost' \subseteq Devices
        /\ since' \in [Devices -> -1..MaxClock] /\ alert' \in [Devices -> AlertRow] /\ seen' \in [Devices -> -2..MaxClock]
    BY <1>0, <1>11, <1>a DEF Undo, TypeOK, ContactRow
  <2>. QED
    BY <1>11, <2>1, <2>2, TypesByName DEF Undo, world, TypeList
<1>8. CASE Restart
  <2>1. contact' \in [Contacts -> ContactRow] /\ eval' \in PassRow /\ running' \subseteq Devices
    BY <1>0, <1>8 DEF Restart
  <2>2. lost' \subseteq Devices /\ blurred' \subseteq Devices
    BY <1>0, <1>8 DEF Restart, Notes, TypeOK, ContactRow, PassRow
  <2>. QED
    BY <1>8, <2>1, <2>2, EventType, TypesByName DEF Restart, TypeList
<1>9. CASE Tick
  <2>1. clock' \in 0..MaxClock
    BY <1>9, StoryKinds DEF Tick, TypeOK
  <2>. QED
    BY <1>9, <2>1, TypesByName DEF Tick, inventory, alerting, TypeList
<1>10. ASSUME NEW d \in Devices, NEW t \in {"up", "high", "down"}, Change(d, t) PROVE TypeOK'
  <2>1. truth' \in [Devices -> {"up", "high", "down"}]
    BY <1>10 DEF Change, TypeOK
  <2>. QED
    BY <1>10, <2>1, EventType, TypesByName DEF Change, inventory, alerting, TypeList
<1>. QED
  BY <1>1, <1>2, <1>3, <1>4, <1>5, <1>6, <1>7, <1>8, <1>9, <1>10, <1>11 DEF Outside, Panel

-------------------------------------------------------------------------------
(* The inventory *)

\* A step in which no contact takes part, and no row changes its status.
LEMMA InventoryStays ==
    ASSUME InventoryInv, TypeOK', UNCHANGED <<contact, running, last, blurred>>,
           \A d \in Devices : \/ row'[d].life = row[d].life /\ row'[d].status = row[d].status
                              \/ row'[d].life = "deleted"
    PROVE  InventoryInv'
<1>0. \A k \in Contacts : contact[k].dev \in Devices
  BY DEF InventoryInv, TypeOK
<1>1. PollsAreRunning'
  BY DEF InventoryInv, PollsAreRunning
<1>2. ContactsOf'
  BY <1>0 DEF InventoryInv, ContactsOf, At, Silent
<1>3. AbsentIsNew'
  BY DEF InventoryInv, AbsentIsNew
<1>4. AnswerIsLatest'
  BY DEF InventoryInv, AnswerIsLatest, Holding
<1>5. StatusIsLatest'
  BY DEF InventoryInv, StatusIsLatest, Holding, Exists, Failed
<1>. QED
  BY <1>1, <1>2, <1>3, <1>4, <1>5 DEF InventoryInv

\* A contact that goes on keeps its place among the polls.
LEMMA PollGoes ==
    ASSUME InventoryInv, NEW k \in Contacts, NEW r \in ContactRow, running' = running,
           \A i \in Contacts : contact'[i] = IF i = k THEN r ELSE contact[i],
           r.poll = contact[k].poll, r.poll => r.dev = contact[k].dev
    PROVE  PollsAreRunning'
BY DEF InventoryInv, PollsAreRunning

\* A poll begins for a device without one.
LEMMA PollBegins ==
    ASSUME InventoryInv, NEW k \in Contacts, NEW r \in ContactRow, running' = running \cup {r.dev},
           \A i \in Contacts : contact'[i] = IF i = k THEN r ELSE contact[i],
           r.poll, ~contact[k].poll, r.dev \notin running
    PROVE  PollsAreRunning'
BY DEF InventoryInv, PollsAreRunning

\* A contact ends, and with it its poll.
LEMMA PollEnds ==
    ASSUME InventoryInv, NEW k \in Contacts, End(k)
    PROVE  PollsAreRunning'
<1>0. TypeOK
  BY DEF InventoryInv
<1>1. /\ \A i \in Contacts : contact'[i] = IF i = k THEN Silent ELSE contact[i]
      /\ running' = IF contact[k].poll THEN running \ {contact[k].dev} ELSE running
      /\ Silent.poll = FALSE
  BY <1>0, EndRecord, Blanks
<1>. QED
  BY <1>1 DEF InventoryInv, PollsAreRunning

\* A contact that begins or goes on is of a device that was created.
LEMMA ContactStands ==
    ASSUME InventoryInv, NEW k \in Contacts, NEW r \in ContactRow,
           \A i \in Contacts : contact'[i] = IF i = k THEN r ELSE contact[i],
           \A d \in Devices : row[d].life # "absent" => row'[d].life # "absent",
           r = Silent \/ (r.pc # "idle" /\ row'[r.dev].life # "absent")
    PROVE  ContactsOf'
<1>1. \A i \in Contacts : contact[i].dev \in Devices
  BY DEF InventoryInv, TypeOK
<1>2. Silent.pc = "idle" /\ Silent' = Silent
  BY Blanks DEF Silent
<1>. QED
  BY <1>1, <1>2 DEF InventoryInv, ContactsOf, At

\* Schedule, Refresh and createDevice start a contact that has no answer yet.
LEMMA BeginKeeps ==
    ASSUME InventoryInv, TypeOK', NEW k \in Contacts, NEW r \in ContactRow, At(k, "idle"),
           contact' = [contact EXCEPT ![k] = r], r.pc \in {"probe", "health"}, UNCHANGED <<last, blurred>>,
           IF r.poll THEN r.dev \notin running /\ running' = running \cup {r.dev} ELSE running' = running,
           row'[r.dev].life # "absent",
           \A d \in Devices : \/ row'[d] = row[d]
                              \/ row[d].life = "absent" /\ row'[d].life # "absent"
    PROVE  InventoryInv'
<1>0. contact \in [Contacts -> ContactRow] /\ Silent.poll = FALSE /\ r.poll \in BOOLEAN
  BY Blanks DEF InventoryInv, TypeOK, ContactRow
<1>1. \A i \in Contacts : contact'[i] = IF i = k THEN r ELSE contact[i]
  BY <1>0, ContactGoes
<1>2. contact[k] = Silent
  BY DEF InventoryInv, ContactsOf
<1>3. PollsAreRunning'
  <2>1. CASE r.poll
    BY <1>0, <1>1, <1>2, <2>1, PollBegins
  <2>2. CASE ~r.poll
    BY <1>0, <1>1, <1>2, <2>2, PollGoes
  <2>. QED
    BY <2>1, <2>2
<1>4. ContactsOf'
  BY <1>1, ContactStands
<1>5. AbsentIsNew'
  BY DEF InventoryInv, AbsentIsNew
<1>6. \A i \in Contacts : Holding(i)' = Holding(i) /\ (Holding(i) => contact'[i] = contact[i])
  BY <1>1 DEF Holding, At
<1>7. AnswerIsLatest'
  BY <1>6 DEF InventoryInv, AnswerIsLatest
<1>8. StatusIsLatest'
  <2>. SUFFICES ASSUME NEW d \in Devices, Exists(d)', last'[d] # "none"
                PROVE  (row[d].status = IF Failed(last[d]) THEN "offline" ELSE "online")' \/ d \in blurred'
                       \/ \E i \in Contacts : Holding(i)' /\ contact'[i].dev = d
    BY DEF StatusIsLatest, Failed
  <2>1. row'[d] = row[d]
    BY DEF InventoryInv, AbsentIsNew
  <2>2. \/ row[d].status = IF Failed(last[d]) THEN "offline" ELSE "online"
        \/ d \in blurred \/ \E i \in Contacts : Holding(i) /\ contact[i].dev = d
    BY <2>1 DEF InventoryInv, StatusIsLatest, Exists
  <2>. QED
    BY <1>6, <2>1, <2>2 DEF Failed
<1>. QED
  BY <1>3, <1>4, <1>5, <1>7, <1>8 DEF InventoryInv

\* A device answers: this is the latest answer, and if another one was on its
\* way the device is blurred.
LEMMA AskKeeps ==
    ASSUME InventoryInv, TypeOK', NEW k \in Contacts, Ask(k)
    PROVE  InventoryInv'
<1>0. TypeOK /\ contact \in [Contacts -> ContactRow]
  BY DEF InventoryInv, TypeOK, ContactRow
<1>1. PICK r \in ContactRow :
         /\ contact' = [contact EXCEPT ![k] = r] /\ r.dev = contact[k].dev /\ r.poll = contact[k].poll
         /\ r.pc \in {"probed", "answered"} /\ r.answer # "none"
         /\ last' = [last EXCEPT ![r.dev] = r.answer]
  BY <1>0, AskRecord
<1>2. \A i \in Contacts : contact'[i] = IF i = k THEN r ELSE contact[i]
  BY <1>0, <1>1, ContactGoes
<1>3. /\ r.dev \in Devices /\ ~At(k, "idle") /\ row' = row /\ running' = running
      /\ \A d \in Devices : last'[d] = IF d = r.dev THEN r.answer ELSE last[d]
      /\ blurred' = IF Others(k) # {} THEN blurred \cup {r.dev} ELSE blurred \ {r.dev}
      /\ row[r.dev].life # "absent"
  <2>1. contact[k].pc \in {"probe", "health"} /\ row' = row /\ running' = running
        /\ blurred' = IF Others(k) # {} THEN blurred \cup {contact[k].dev} ELSE blurred \ {contact[k].dev}
    BY DEF Ask
  <2>2. r.dev \in Devices /\ \A d \in Devices : last'[d] = IF d = r.dev THEN r.answer ELSE last[d]
    BY <1>0, <1>1 DEF TypeOK, ContactRow
  <2>. QED
    BY <1>1, <2>1, <2>2 DEF InventoryInv, ContactsOf, At
<1>4. PollsAreRunning'
  BY <1>1, <1>2, <1>3, PollGoes
<1>5. ContactsOf'
  BY <1>1, <1>2, <1>3, ContactStands
<1>6. AbsentIsNew'
  BY <1>3 DEF InventoryInv, AbsentIsNew
<1>7. AnswerIsLatest'
  <2>. SUFFICES ASSUME NEW i \in Contacts, Holding(i)'
                PROVE  /\ contact'[i].answer # "none"
                       /\ contact'[i].answer = last'[contact'[i].dev] \/ contact'[i].dev \in blurred'
    BY DEF AnswerIsLatest
  <2>1. CASE i = k
    BY <1>1, <1>2, <1>3, <2>1
  <2>2. CASE i # k
    <3>1. contact'[i] = contact[i] /\ Holding(i) /\ contact[i].dev \in Devices
      BY <1>0, <1>2, <2>2 DEF Holding, ContactRow
    <3>2. CASE contact[i].dev = r.dev
      <4>1. i \in Others(k)
        BY <1>1, <2>2, <3>1, <3>2 DEF Others
      <4>2. contact'[i].dev \in blurred'
        BY <1>3, <3>1, <3>2, <4>1
      <4>. QED
        BY <3>1, <4>2 DEF InventoryInv, AnswerIsLatest
    <3>3. CASE contact[i].dev # r.dev
      BY <1>3, <3>1, <3>3 DEF InventoryInv, AnswerIsLatest
    <3>. QED
      BY <3>2, <3>3
  <2>. QED
    BY <2>1, <2>2
<1>8. StatusIsLatest'
  <2>. SUFFICES ASSUME NEW d \in Devices, Exists(d)', last'[d] # "none"
                PROVE  (row[d].status = IF Failed(last[d]) THEN "offline" ELSE "online")' \/ d \in blurred'
                       \/ \E i \in Contacts : Holding(i)' /\ contact'[i].dev = d
    BY DEF StatusIsLatest, Failed
  <2>1. CASE d = r.dev
    BY <1>1, <1>2, <2>1 DEF Holding
  <2>2. CASE d # r.dev
    <3>1. last'[d] = last[d] /\ row'[d] = row[d] /\ (d \in blurred => d \in blurred')
      BY <1>3, <2>2
    <3>2. \A i \in Contacts : Holding(i) /\ contact[i].dev = d => Holding(i)' /\ contact'[i].dev = d
      BY <1>1, <1>2, <2>2 DEF Holding
    <3>3. \/ row[d].status = IF Failed(last[d]) THEN "offline" ELSE "online"
          \/ d \in blurred \/ \E i \in Contacts : Holding(i) /\ contact[i].dev = d
      BY <3>1 DEF InventoryInv, StatusIsLatest, Exists
    <3>. QED
      BY <3>1, <3>2, <3>3 DEF Failed
  <2>. QED
    BY <2>1, <2>2
<1>. QED
  BY <1>4, <1>5, <1>6, <1>7, <1>8 DEF InventoryInv

\* An answer is stored, or dropped, which blurs the device.
LEMMA SaveKeeps ==
    ASSUME InventoryInv, TypeOK', PollsAreRunning', NEW k \in Contacts, Holding(k), NEW r \in ContactRow,
           \A i \in Contacts : contact'[i] = IF i = k THEN r ELSE contact[i],
           r = Silent \/ (r.pc \in {"undo", "signatures"} /\ r.dev = contact[k].dev), last' = last,
           NEW dropped \in BOOLEAN, Drop(k, dropped),
           \A d \in Devices : row'[d].life = row[d].life /\ (d # contact[k].dev => row'[d] = row[d]),
           Exists(contact[k].dev) /\ ~dropped =>
              row'[contact[k].dev].status = IF Failed(contact[k].answer) THEN "offline" ELSE "online"
    PROVE  InventoryInv'
<1>0. contact[k].dev \in Devices /\ row[contact[k].dev].life # "absent"
  BY DEF InventoryInv, TypeOK, ContactsOf, Holding, At
<1>1. r.pc \in {"idle", "undo", "signatures"}
  BY Blanks
<1>2. ContactsOf'
  BY <1>0, ContactStands
<1>3. AbsentIsNew'
  BY DEF InventoryInv, AbsentIsNew
<1>4. blurred \subseteq blurred' /\ (dropped => contact[k].dev \in blurred')
  BY DEF Drop
<1>5. \A i \in Contacts : IF i = k THEN ~Holding(i)' ELSE Holding(i)' = Holding(i) /\ contact'[i] = contact[i]
  BY <1>1 DEF Holding
<1>6. AnswerIsLatest'
  BY <1>4, <1>5 DEF InventoryInv, AnswerIsLatest
<1>7. StatusIsLatest'
  <2>. SUFFICES ASSUME NEW d \in Devices, Exists(d)', last'[d] # "none"
                PROVE  (row[d].status = IF Failed(last[d]) THEN "offline" ELSE "online")' \/ d \in blurred'
                       \/ \E i \in Contacts : Holding(i)' /\ contact'[i].dev = d
    BY DEF StatusIsLatest, Failed
  <2>1. CASE d = contact[k].dev
    <3>1. Exists(d)
      BY DEF Exists
    <3>2. CASE dropped
      BY <1>4, <2>1, <3>2
    <3>3. CASE ~dropped
      <4>1. contact[k].answer = last[d] \/ d \in blurred
        BY <2>1 DEF InventoryInv, AnswerIsLatest
      <4>. QED
        BY <1>4, <2>1, <3>1, <3>3, <4>1 DEF Failed
    <3>. QED
      BY <3>2, <3>3
  <2>2. CASE d # contact[k].dev
    <3>1. row'[d] = row[d]
      BY <2>2
    <3>2. \/ row[d].status = IF Failed(last[d]) THEN "offline" ELSE "online"
          \/ d \in blurred \/ \E i \in Contacts : Holding(i) /\ contact[i].dev = d
      BY <3>1 DEF InventoryInv, StatusIsLatest, Exists
    <3>. QED
      BY <1>4, <1>5, <2>2, <3>1, <3>2 DEF Failed
  <2>. QED
    BY <2>1, <2>2
<1>. QED
  BY <1>2, <1>3, <1>6, <1>7 DEF InventoryInv

\* A contact without an answer ends; its device may be deleted.
LEMMA EndKeeps ==
    ASSUME InventoryInv, TypeOK', NEW k \in Contacts, ~Holding(k), End(k), UNCHANGED <<last, blurred>>,
           \A d \in Devices : row'[d] = row[d] \/ row'[d].life = "deleted"
    PROVE  InventoryInv'
<1>0. TypeOK /\ Silent \in ContactRow /\ Silent.pc = "idle"
  BY Blanks DEF InventoryInv
<1>1. \A i \in Contacts : contact'[i] = IF i = k THEN Silent ELSE contact[i]
  BY <1>0, EndRecord
<1>2. PollsAreRunning'
  BY PollEnds
<1>3. ContactsOf'
  BY <1>0, <1>1, ContactStands
<1>4. \A i \in Contacts : Holding(i)' = Holding(i) /\ (Holding(i) => contact'[i] = contact[i])
  BY <1>0, <1>1 DEF Holding
<1>5. AbsentIsNew'
  BY DEF InventoryInv, AbsentIsNew
<1>6. AnswerIsLatest'
  BY <1>4 DEF InventoryInv, AnswerIsLatest
<1>7. StatusIsLatest'
  BY <1>4 DEF InventoryInv, StatusIsLatest, Exists, Failed
<1>. QED
  BY <1>2, <1>3, <1>5, <1>6, <1>7 DEF InventoryInv

\* The contacts keep what is known of the inventory.
LEMMA PollKeeps ==
    ASSUME InventoryInv, NEW k \in Contacts, Poll(k)
    PROVE  InventoryInv'
<1>0. TypeOK /\ TypeOK' /\ contact \in [Contacts -> ContactRow] /\ contact[k].dev \in Devices
  BY PollTypes DEF InventoryInv, TypeOK, ContactRow
<1>a. Silent \in ContactRow
  BY Blanks
<1>b. TypeOK
  BY DEF InventoryInv
<1>1. ASSUME NEW d \in Devices, NEW probe \in BOOLEAN, Schedule(k, d, probe) PROVE InventoryInv'
  <2>1. PICK r \in ContactRow :
           contact' = [contact EXCEPT ![k] = r] /\ r.dev = d /\ r.poll = TRUE /\ r.pc \in {"probe", "health"}
    BY <1>b, <1>1, PollRecord
  <2>2. /\ At(k, "idle") /\ d \notin running /\ running' = running \cup {d} /\ row' = row
        /\ row[d].life # "absent" /\ UNCHANGED <<last, blurred>>
    BY <1>1 DEF Schedule, NotBusy, Exists
  <2>. QED
    BY <1>0, <2>1, <2>2, BeginKeeps
<1>2. ASSUME NEW d \in Devices, Refresh(k, d) \/ CreateDevice(k, d) PROVE InventoryInv'
  <2>1. PICK r \in ContactRow :
           contact' = [contact EXCEPT ![k] = r] /\ r.dev = d /\ r.poll = FALSE /\ r.pc = "probe"
    BY <1>0, <1>2, RequestRecord
  <2>2. At(k, "idle") /\ running' = running /\ UNCHANGED <<last, blurred>>
    BY <1>2 DEF Refresh, CreateDevice
  <2>3. row'[d].life # "absent"
    BY <1>0, <1>2 DEF Refresh, CreateDevice, Exists, TypeOK, DeviceRow
  <2>4. ASSUME NEW e \in Devices
        PROVE  row'[e] = row[e] \/ (row[e].life = "absent" /\ row'[e].life # "absent")
    BY <1>0, <1>2, <2>3 DEF Refresh, CreateDevice, TypeOK
  <2>. QED
    BY <1>0, <2>1, <2>2, <2>3, <2>4, BeginKeeps
<1>3. CASE Ask(k)
  BY <1>0, <1>3, AskKeeps
<1>4. CASE ProbeSave(k)
  <2>. DEFINE d == contact[k].dev  a == contact[k].answer
  <2>1. Holding(k) /\ last' = last
    BY <1>4 DEF ProbeSave, Holding, At
  <2>a. PICK dropped \in BOOLEAN :
           /\ Drop(k, dropped)
           /\ \/ row' = row /\ (dropped \/ ~Exists(d))
              \/ row' = [row EXCEPT ![d] = [row[d] EXCEPT !.status = "offline"]] /\ Failed(a)
              \/ row' = [row EXCEPT ![d] = Seen(row[d])] /\ ~Failed(a)
    BY <1>4 DEF ProbeSave
  <2>b. /\ row \in [Devices -> DeviceRow] /\ row[d] \in DeviceRow /\ d \in Devices
        /\ [row[d] EXCEPT !.status = "offline"].life = row[d].life /\ Seen(row[d]).life = row[d].life
        /\ [row[d] EXCEPT !.status = "offline"].status = "offline" /\ Seen(row[d]).status = "online"
    BY <1>0 DEF TypeOK, DeviceRow, Seen
  <2>2. \A e \in Devices : row'[e].life = row[e].life /\ (e # d => row'[e] = row[e])
    BY <2>a, <2>b
  <2>3. Exists(d) /\ ~dropped => row'[d].status = IF Failed(a) THEN "offline" ELSE "online"
    BY <2>a, <2>b
  <2>4. \E r \in ContactRow :
           /\ \A i \in Contacts : contact'[i] = IF i = k THEN r ELSE contact[i]
           /\ r = Silent \/ (r.pc \in {"undo", "signatures"} /\ r.dev = d)
           /\ PollsAreRunning'
    <3>1. CASE End(k)
      BY <1>0, <1>a, <3>1, EndRecord, PollEnds
    <3>2. ASSUME NEW pc \in {"undo", "signatures"}, Goto(k, pc), UNCHANGED running
          PROVE  \E r \in ContactRow :
                    /\ \A i \in Contacts : contact'[i] = IF i = k THEN r ELSE contact[i]
                    /\ r = Silent \/ (r.pc \in {"undo", "signatures"} /\ r.dev = d)
                    /\ PollsAreRunning'
      <4>1. PICK r \in ContactRow :
               contact' = [contact EXCEPT ![k] = r] /\ r.dev = d /\ r.poll = contact[k].poll /\ r.pc = pc
        BY <1>0, <3>2, GotoRecord
      <4>2. \A i \in Contacts : contact'[i] = IF i = k THEN r ELSE contact[i]
        BY <1>0, <4>1, ContactGoes
      <4>3. PollsAreRunning'
        BY <3>2, <4>1, <4>2, PollGoes
      <4>. QED
        BY <4>1, <4>2, <4>3
    <3>3. End(k) \/ ((Goto(k, "undo") \/ Goto(k, "signatures")) /\ UNCHANGED running)
      BY <1>4 DEF ProbeSave
    <3>. QED
      BY <3>1, <3>2, <3>3
  <2>. QED
    BY <1>0, <2>1, <2>a, <2>2, <2>3, <2>4, SaveKeeps
<1>5. CASE Signatures(k)
  <2>1. PICK r \in ContactRow :
           contact' = [contact EXCEPT ![k] = r] /\ r.dev = contact[k].dev /\ r.poll = contact[k].poll /\ r.pc = "health"
    BY <1>0, <1>5, GotoRecord DEF Signatures
  <2>2. \A i \in Contacts : contact'[i] = IF i = k THEN r ELSE contact[i]
    BY <1>0, <2>1, ContactGoes
  <2>3. UNCHANGED <<running, last, blurred>> /\ At(k, "signatures")
    BY <1>5 DEF Signatures
  <2>4. \A e \in Devices : row'[e].life = row[e].life /\ row'[e].status = row[e].status
    BY <1>0, <1>5 DEF Signatures, TypeOK, DeviceRow
  <2>5. PollsAreRunning'
    BY <2>1, <2>2, <2>3, PollGoes
  <2>6. ContactsOf'
    <3>1. row[contact[k].dev].life # "absent"
      BY <2>3 DEF InventoryInv, ContactsOf, At
    <3>. QED
      BY <1>0, <2>1, <2>2, <2>4, <3>1, ContactStands
  <2>7. \A i \in Contacts : Holding(i)' = Holding(i) /\ (Holding(i) => contact'[i] = contact[i])
    BY <2>1, <2>2, <2>3 DEF Holding, At
  <2>8. AbsentIsNew' /\ AnswerIsLatest'
    BY <2>3, <2>4, <2>7 DEF InventoryInv, AbsentIsNew, AnswerIsLatest
  <2>9. StatusIsLatest'
    BY <2>3, <2>4, <2>7 DEF InventoryInv, StatusIsLatest, Exists, Failed
  <2>. QED
    BY <1>0, <2>5, <2>6, <2>8, <2>9 DEF InventoryInv
<1>6. CASE HealthSave(k)
  <2>. DEFINE d == contact[k].dev  a == contact[k].answer
  <2>1. Holding(k) /\ last' = last /\ End(k)
    BY <1>6 DEF HealthSave, Holding, At
  <2>2. PICK gone \in BOOLEAN :
           /\ Drop(k, gone)
           /\ row' = IF ~Exists(d) \/ gone THEN row
                     ELSE IF Failed(a) THEN [row EXCEPT ![d].status = "offline"]
                     ELSE [row EXCEPT ![d].status = "online", ![d].at = clock,
                                      ![d].metric = IF a = "high" THEN "high" ELSE "low"]
    <3>1. (~Failed(a) \/ ~contact[k].poll) \in BOOLEAN
      OBVIOUS
    <3>. QED
      BY <1>6, <3>1 DEF HealthSave
  <2>3. \A e \in Devices : row'[e].life = row[e].life /\ (e # d => row'[e] = row[e])
    BY <1>0, <2>2 DEF TypeOK, DeviceRow
  <2>4. Exists(d) /\ ~gone => row'[d].status = IF Failed(a) THEN "offline" ELSE "online"
    BY <1>0, <2>2 DEF TypeOK, DeviceRow
  <2>5. \A i \in Contacts : contact'[i] = IF i = k THEN Silent ELSE contact[i]
    BY <1>0, <2>1, EndRecord
  <2>6. PollsAreRunning'
    BY <2>1, PollEnds
  <2>. QED
    BY <1>0, <1>a, <2>1, <2>2, <2>3, <2>4, <2>5, <2>6, SaveKeeps
<1>7. CASE Cancelled(k)
  BY <1>0, <1>7, EndKeeps DEF Cancelled, Holding
<1>. QED
  BY <1>1, <1>2, <1>3, <1>4, <1>5, <1>6, <1>7 DEF Poll

\* Whoever else steps keeps it too; a restart drops the answers on their way.
LEMMA OutsideKeeps ==
    ASSUME InventoryInv, Outside
    PROVE  InventoryInv'
<1>0. TypeOK /\ TypeOK'
  BY OutsideTypes DEF InventoryInv
<1>1. CASE Restart
  <2>1. /\ running' = {} /\ row' = row /\ last' = last
        /\ \A i \in Contacts : contact'[i] = Silent
        /\ blurred' = blurred \cup {contact[k].dev : k \in {i \in Contacts : Holding(i)}}
    BY <1>1 DEF Restart
  <2>2. Silent' = Silent /\ Silent.pc = "idle" /\ Silent.poll = FALSE
    BY Blanks DEF Silent
  <2>3. PollsAreRunning' /\ ContactsOf' /\ AbsentIsNew' /\ AnswerIsLatest'
    BY <2>1, <2>2 DEF InventoryInv, PollsAreRunning, ContactsOf, AbsentIsNew, AnswerIsLatest, At, Holding
  <2>4. StatusIsLatest'
    BY <2>1 DEF InventoryInv, StatusIsLatest, Exists, Failed
  <2>. QED
    BY <1>0, <2>3, <2>4 DEF InventoryInv
<1>a. ASSUME NEW d \in Devices, Remove(d) PROVE \A e \in Devices : row'[e] = row[e] \/ row'[e].life = "deleted"
  <2>1. [NoRow EXCEPT !.life = "deleted"].life = "deleted"
    BY DEF NoRow
  <2>. QED
    BY <1>0, <1>a, <2>1 DEF Remove, TypeOK
<1>2. ASSUME NEW d \in Devices, DeleteDevice(d) PROVE InventoryInv'
  <2>1. \A e \in Devices : row'[e] = row[e] \/ row'[e].life = "deleted"
    BY <1>2, <1>a DEF DeleteDevice
  <2>. QED
    BY <1>0, <1>2, <2>1, InventoryStays DEF DeleteDevice
<1>5. ASSUME NEW k \in Contacts, Undo(k) PROVE InventoryInv'
  <2>1. \A e \in Devices : row'[e] = row[e] \/ row'[e].life = "deleted"
    BY <1>0, <1>5, <1>a DEF Undo, TypeOK
  <2>2. End(k) /\ ~Holding(k) /\ UNCHANGED <<last, blurred>>
    BY <1>5 DEF Undo, At, Holding
  <2>. QED
    BY <1>0, <2>1, <2>2, EndKeeps
<1>3. ASSUME NEW d \in Devices, UpdateDevice(d) PROVE InventoryInv'
  <2>1. \A e \in Devices : row'[e].life = row[e].life /\ row'[e].status = row[e].status
    BY <1>0, <1>3 DEF UpdateDevice, TypeOK, DeviceRow
  <2>. QED
    BY <1>0, <1>3, <2>1, InventoryStays DEF UpdateDevice
<1>4. ASSUME UNCHANGED <<row, contact, running, last, blurred>> PROVE InventoryInv'
  BY <1>0, <1>4, InventoryStays
<1>. QED
  BY <1>1, <1>2, <1>3, <1>4, <1>5
     DEF Outside, Panel, SaveRule, DeleteRule, SaveChannel, Ack, License, Tick, Change, inventory

\* So does a pass, which only reads the inventory.
LEMMA PassOnlyReads ==
    ASSUME Pass \/ EvalError
    PROVE  UNCHANGED <<row, contact, running, last, blurred>>
BY DEF Pass, EvalError, EvalBegin, LoadChannels, EvalEnd, ApplyFiring, ApplyClear, ApplyFails, Abandon, Notify, inventory

\* The first states.
LEMMA InventoryInit == Init => InventoryInv
<1>. SUFFICES ASSUME Init PROVE InventoryInv
  OBVIOUS
<1>1. Silent \in ContactRow /\ Silent.pc = "idle" /\ Silent.poll = FALSE
  BY Blanks
<1>2. TypeOK
  <2>1. \A d \in Devices : row[d] \in DeviceRow
    BY Blanks, MonitoringConstants DEF Init, DeviceRow, NoRow, Story
  <2>2. row \in [Devices -> DeviceRow]
    BY <2>1 DEF Init
  <2>3. 0 \in 0..MaxClock /\ -1 \in -1..MaxClock /\ -1 \in -2..MaxClock
    BY MonitoringConstants
  <2>4. 0 \in 0..story.events
    BY MonitoringConstants DEF Init, Story
  <2>. QED
    BY <2>2, <2>3, <2>4, Blanks, TypesByName DEF Init, TypeList, Answers
<1>3. PollsAreRunning /\ ContactsOf /\ AbsentIsNew /\ AnswerIsLatest /\ StatusIsLatest
  BY <1>1 DEF Init, PollsAreRunning, ContactsOf, AbsentIsNew, AnswerIsLatest, StatusIsLatest, At, Holding
<1>. QED
  BY <1>2, <1>3 DEF InventoryInv

\* Every step keeps it.
LEMMA InventoryNext == InventoryInv /\ [Next]_vars => InventoryInv'
<1>. SUFFICES ASSUME InventoryInv, [Next]_vars PROVE InventoryInv'
  OBVIOUS
<1>1. ASSUME UNCHANGED vars PROVE InventoryInv'
  <2>1. TypeOK'
    BY <1>1, TypesByName DEF InventoryInv, TypeList, vars, inventory, alerting, world
  <2>. QED
    BY <1>1, <2>1, InventoryStays DEF vars, inventory
<1>2. ASSUME Pass \/ EvalError PROVE InventoryInv'
  BY <1>2, PassTypes, PassOnlyReads, InventoryStays DEF InventoryInv
<1>. QED
  BY <1>1, <1>2, PollKeeps, OutsideKeeps DEF Next, Outside

\* It holds always.
LEMMA InventoryHolds == Spec => []InventoryInv
BY InventoryInit, InventoryNext, PTL DEF Spec

\* Monitor.running keeps polls of one device apart and lets none of them be the
\* last, and contacts leave in the inventory what the device answered last, but
\* for answers that were on their way at the same time or were not stored.
THEOREM InventoryStaysTrue == Spec => []InventoryIsTrue
<1>1. ASSUME InventoryInv PROVE OnePollPerDevice
  <2>. SUFFICES ASSUME NEW d \in Devices
                PROVE  Cardinality({k \in Contacts : contact[k].poll /\ contact[k].dev = d}) = IF d \in running THEN 1 ELSE 0
    BY DEF OnePollPerDevice
  <2>. DEFINE K == {k \in Contacts : contact[k].poll /\ contact[k].dev = d}
  <2>1. CASE d \in running
    <3>1. PICK k \in Contacts : contact[k].poll /\ contact[k].dev = d
      BY <1>1, <2>1 DEF InventoryInv, PollsAreRunning
    <3>2. K = {k}
      BY <1>1, <3>1 DEF InventoryInv, PollsAreRunning
    <3>3. Cardinality(K) = 1
      BY <3>2, FS_Singleton
    <3>. QED
      BY <2>1, <3>3
  <2>2. CASE d \notin running
    <3>1. K = {}
      BY <1>1, <2>2 DEF InventoryInv, PollsAreRunning
    <3>2. Cardinality(K) = 0
      BY <3>1, FS_EmptySet
    <3>. QED
      BY <2>2, <3>2
  <2>. QED
    BY <2>1, <2>2
<1>2. InventoryInv => InventoryIsTrue
  BY <1>1 DEF InventoryInv, InventoryIsTrue
<1>. QED
  BY <1>2, InventoryHolds, PTL

-------------------------------------------------------------------------------
(* The alerts *)

\* A step outside the passes that opens, closes and forgets nothing.
LEMMA AlertStays ==
    ASSUME TypeOK, TypeOK', AlertInv, UNCHANGED <<eval, told, lost, seen, since>>, clock' >= clock,
           \A d \in Devices : alert'[d].open = alert[d].open,
           rule = "deleted" => rule' = "deleted",
           \A d \in Devices : row[d].life # "absent" => row'[d].life # "absent" /\ (Exists(d)' => Exists(d))
    PROVE  AlertInv'
<1>0. eval.firing \subseteq Devices /\ eval.opened \subseteq Devices /\ eval.resolved \subseteq Devices
  BY DEF TypeOK
<1>1. PassIsOrdered'
  BY <1>0 DEF AlertInv, PassIsOrdered, Notes, Resting
<1>2. \A d \in eval.opened : Known(d)' => Known(d)
  BY <1>0 DEF AlertInv, PassIsOrdered, Known
<1>3. MessagesAreTrue'
  BY <1>0, <1>2 DEF AlertInv, MessagesAreTrue, Notes
<1>4. SeenLongEnough'
  <2>1. \A d \in Devices : seen[d] \in Int
    BY DEF TypeOK
  <2>2. eval.now \in Int /\ clock \in Int /\ clock' \in Int
    BY DEF TypeOK
  <2>. QED
    BY <2>1, <2>2 DEF AlertInv, SeenLongEnough
<1>. QED
  BY <1>1, <1>3, <1>4 DEF AlertInv

\* Contacts, the panel and the rest.
LEMMA PollLeavesAlerts ==
    ASSUME TypeOK, TypeOK', AlertInv, NEW k \in Contacts, Poll(k), InventoryInv
    PROVE  AlertInv'
<1>1. UNCHANGED <<alerting, clock>>
  BY DEF Poll, Schedule, Refresh, CreateDevice, Ask, ProbeSave, Signatures, HealthSave, Cancelled, world
<1>2. clock \in Int
  BY DEF TypeOK
<1>3. ASSUME NEW e \in Devices, row[e].life # "absent" PROVE row'[e].life = row[e].life
  <2>0. row \in [Devices -> DeviceRow] /\ contact[k].dev \in Devices
    BY DEF TypeOK
  <2>1. ASSUME NEW d \in Devices, CreateDevice(k, d) PROVE row'[e].life = row[e].life
    BY <1>3, <2>0, <2>1 DEF CreateDevice, DeviceRow
  <2>2. CASE ProbeSave(k)
    <3>1. \/ row' = row \/ row' = [row EXCEPT ![contact[k].dev] = [row[contact[k].dev] EXCEPT !.status = "offline"]]
          \/ row' = [row EXCEPT ![contact[k].dev] = Seen(row[contact[k].dev])]
      BY <2>2 DEF ProbeSave
    <3>2. row[contact[k].dev] \in DeviceRow
      BY <2>0
    <3>3. /\ [row[contact[k].dev] EXCEPT !.status = "offline"].life = row[contact[k].dev].life
          /\ Seen(row[contact[k].dev]).life = row[contact[k].dev].life
      BY <3>2 DEF DeviceRow, Seen
    <3>. QED
      BY <2>0, <3>1, <3>3
  <2>3. CASE Signatures(k)
    BY <2>0, <2>3 DEF Signatures, DeviceRow
  <2>4. CASE HealthSave(k)
    BY <2>0, <2>4 DEF HealthSave, DeviceRow
  <2>5. ASSUME row' = row PROVE row'[e].life = row[e].life
    BY <2>5
  <2>. QED
    BY <2>1, <2>2, <2>3, <2>4, <2>5 DEF Poll, Schedule, Refresh, Ask, Cancelled
<1>. QED
  BY <1>1, <1>2, <1>3, AlertStays DEF alerting, Exists

\* The panel and the rest; what they take away is lost to the channel.
LEMMA OutsideLeavesAlerts ==
    ASSUME TypeOK, TypeOK', AlertInv, Outside
    PROVE  AlertInv'
<1>0. /\ clock \in Int /\ eval.firing \subseteq Devices /\ eval.opened \subseteq Devices /\ eval.resolved \subseteq Devices
      /\ alert \in [Devices -> AlertRow] /\ lost \subseteq Devices /\ row \in [Devices -> DeviceRow]
  BY DEF TypeOK, AlertRow
<1>1. CASE SaveRule
  BY <1>0, <1>1, AlertStays DEF SaveRule, inventory, Exists
<1>2. CASE DeleteRule
  <2>1. /\ UNCHANGED <<row, eval, told, seen, clock>> /\ lost' = Devices /\ rule' = "deleted"
        /\ \A d \in Devices : since'[d] = -1 /\ ~alert'[d].open
    BY <1>2 DEF DeleteRule, inventory, Closed
  <2>2. PassIsOrdered'
    BY <2>1 DEF AlertInv, PassIsOrdered, Notes, Resting
  <2>3. MessagesAreTrue'
    BY <1>0, <2>1 DEF AlertInv, MessagesAreTrue, Notes, Known
  <2>4. SeenLongEnough'
    BY <2>1 DEF AlertInv, SeenLongEnough
  <2>. QED
    BY <2>2, <2>3, <2>4 DEF AlertInv
<1>3. ASSUME NEW c \in {"enabled", "disabled", "deleted"}, SaveChannel(c) PROVE AlertInv'
  BY <1>0, <1>3, AlertStays DEF SaveChannel, inventory, Exists
<1>4. ASSUME NEW d \in Devices, Ack(d) PROVE AlertInv'
  <2>1. \A e \in Devices : alert'[e].open = alert[e].open
    BY <1>0, <1>4 DEF Ack, AlertRow
  <2>. QED
    BY <1>0, <1>4, <2>1, AlertStays DEF Ack, inventory, Exists
<1>5. ASSUME NEW d \in Devices, UpdateDevice(d) PROVE AlertInv'
  <2>1. \A e \in Devices : row'[e].life = row[e].life
    BY <1>0, <1>5 DEF UpdateDevice, DeviceRow
  <2>. QED
    BY <1>0, <1>5, <2>1, AlertStays DEF UpdateDevice, alerting, Exists
<1>a. ASSUME NEW d \in Devices, Remove(d), UNCHANGED <<rule, eval, told, clock>> PROVE AlertInv'
  <2>1. [NoRow EXCEPT !.life = "deleted"].life = "deleted" /\ ~Closed.open
    BY DEF NoRow, Closed
  <2>2. /\ UNCHANGED <<rule, eval, told, clock>> /\ lost' = lost \cup {d}
        /\ \A e \in Devices : IF e = d THEN row'[e].life = "deleted" /\ since'[e] = -1 /\ seen'[e] = -1 /\ ~alert'[e].open
                              ELSE row'[e] = row[e] /\ since'[e] = since[e] /\ seen'[e] = seen[e] /\ alert'[e] = alert[e]
    BY <1>0, <1>a, <2>1 DEF Remove, TypeOK
  <2>3. PassIsOrdered'
    BY <1>0, <2>2 DEF AlertInv, PassIsOrdered, Notes, Resting
  <2>4. MessagesAreTrue'
    <3>1. ASSUME NEW e \in eval.opened, Known(e)' PROVE alert'[e].open
      <4>1. e \in Devices /\ row'[e].life = "registered"
        BY <1>0, <3>1 DEF Known, Exists
      <4>2. e # d
        BY <2>2, <4>1
      <4>. QED
        BY <2>2, <3>1, <4>1, <4>2 DEF AlertInv, MessagesAreTrue, Known, Exists
    <3>2. \A e \in eval.resolved : ~alert'[e].open
      BY <1>0, <2>2 DEF AlertInv, MessagesAreTrue
    <3>3. \A e \in Devices \ (lost' \cup Notes) : alert'[e].open <=> e \in told
      BY <2>2 DEF AlertInv, MessagesAreTrue
    <3>. QED
      BY <2>2, <3>1, <3>2, <3>3 DEF MessagesAreTrue, Notes
  <2>5. SeenLongEnough'
    <3>1. clock \in 0..MaxClock /\ eval.now \in 0..MaxClock
      BY DEF TypeOK
    <3>. QED
      BY <2>2, <3>1 DEF AlertInv, SeenLongEnough
  <2>. QED
    BY <2>3, <2>4, <2>5 DEF AlertInv
<1>6. ASSUME NEW d \in Devices, DeleteDevice(d) PROVE AlertInv'
  BY <1>6, <1>a DEF DeleteDevice
<1>11. ASSUME NEW k \in Contacts, Undo(k) PROVE AlertInv'
  <2>0. contact[k].dev \in Devices /\ UNCHANGED <<rule, eval, told, clock>>
    BY <1>11 DEF Undo, world, TypeOK
  <2>1. CASE Exists(contact[k].dev)
    BY <1>11, <1>a, <2>0, <2>1 DEF Undo
  <2>2. CASE ~Exists(contact[k].dev)
    <3>1. UNCHANGED <<row, since, alert, lost, seen>>
      BY <1>11, <2>2 DEF Undo
    <3>. QED
      BY <1>0, <2>0, <3>1, AlertStays DEF Exists
  <2>. QED
    BY <2>1, <2>2
<1>7. ASSUME NEW d \in Devices, NEW s \in {"good", "near", "expired", "none"}, License(d, s) PROVE AlertInv'
  BY <1>0, <1>7, AlertStays DEF License, alerting, Exists
<1>8. CASE Restart
  <2>1. UNCHANGED <<row, rule, since, alert, told, seen, clock>> /\ eval' = Resting /\ lost' = lost \cup Notes
    BY <1>8 DEF Restart
  <2>2. /\ Resting.pc = "idle" /\ Resting.now = 0 /\ Resting.firing = {} /\ Resting.clear = {}
        /\ Resting.opened = {} /\ Resting.resolved = {}
    BY DEF Resting
  <2>3. PassIsOrdered'
    BY <2>1, <2>2 DEF PassIsOrdered, Notes, Resting
  <2>4. MessagesAreTrue'
    BY <2>1, <2>2 DEF AlertInv, MessagesAreTrue, Notes
  <2>5. SeenLongEnough'
    <3>1. 0 <= clock
      BY StoryKinds DEF TypeOK
    <3>. QED
      BY <2>1, <2>2, <3>1 DEF AlertInv, SeenLongEnough
  <2>. QED
    BY <2>3, <2>4, <2>5 DEF AlertInv
<1>9. CASE Tick
  BY <1>0, <1>9, AlertStays DEF Tick, inventory, alerting, Exists
<1>10. ASSUME NEW d \in Devices, NEW t \in {"up", "high", "down"}, Change(d, t) PROVE AlertInv'
  BY <1>0, <1>10, AlertStays DEF Change, inventory, alerting, Exists
<1>. QED
  BY <1>1, <1>2, <1>3, <1>4, <1>5, <1>6, <1>7, <1>8, <1>9, <1>10, <1>11 DEF Outside, Panel

\* A pass that ends early loses its messages.
LEMMA AbandonKeeps ==
    ASSUME TypeOK, AlertInv, Abandon
    PROVE  AlertInv'
<1>1. UNCHANGED <<row, rule, since, alert, told, seen, clock>> /\ eval' = Resting /\ lost' = lost \cup Notes
  BY DEF Abandon, inventory
<1>2. /\ Resting.pc = "idle" /\ Resting.now = 0 /\ Resting.firing = {} /\ Resting.clear = {}
      /\ Resting.opened = {} /\ Resting.resolved = {}
  BY DEF Resting
<1>3. PassIsOrdered'
  BY <1>1, <1>2 DEF PassIsOrdered, Notes, Resting
<1>4. MessagesAreTrue'
  BY <1>1, <1>2 DEF AlertInv, MessagesAreTrue, Notes
<1>5. SeenLongEnough'
  <2>1. 0 <= clock
    BY StoryKinds DEF TypeOK
  <2>. QED
    BY <1>1, <1>2, <2>1 DEF AlertInv, SeenLongEnough
<1>. QED
  BY <1>3, <1>4, <1>5 DEF AlertInv

\* The pass begins with what it has read.
LEMMA BeginAlerts ==
    ASSUME TypeOK, AlertInv, EvalBegin
    PROVE  AlertInv'
<1>0. clock \in 0..MaxClock /\ MaxClock \in Nat /\ seen \in [Devices -> -2..MaxClock]
  BY StoryKinds DEF TypeOK
<1>1. /\ eval'.pc = "apply" /\ eval'.now = clock /\ eval'.opened = {} /\ eval'.resolved = {}
      /\ eval'.firing = {d \in Considered : Condition(d)} /\ eval'.clear = {d \in Considered : ~Condition(d)}
  BY DEF EvalBegin, Resting
<1>2. /\ UNCHANGED <<row, rule, since, alert, told, lost, clock>> /\ eval.pc = "idle"
      /\ seen' = [d \in Devices |-> IF d \in Considered THEN seen[d] ELSE -2]
  BY DEF EvalBegin, inventory, world
<1>3. PassIsOrdered'
  <2>1. \A d \in eval'.firing : row'[d].life # "absent"
    BY <1>1, <1>2 DEF Considered, Exists
  <2>. QED
    BY <1>1, <2>1 DEF PassIsOrdered, Notes
<1>4. MessagesAreTrue'
  <2>1. eval.opened = {} /\ eval.resolved = {}
    BY <1>2 DEF AlertInv, PassIsOrdered, Resting
  <2>. QED
    BY <1>1, <1>2, <2>1 DEF AlertInv, MessagesAreTrue, Notes
<1>5. SeenLongEnough'
  BY <1>0, <1>1, <1>2 DEF AlertInv, SeenLongEnough
<1>. QED
  BY <1>3, <1>4, <1>5 DEF AlertInv

\* What applyRule makes of one device.
LEMMA ApplyKeeps ==
    ASSUME TypeOK, AlertInv, NEW d \in Devices, ApplyFiring(d) \/ ApplyClear(d)
    PROVE  AlertInv'
<1>0. /\ alert \in [Devices -> AlertRow] /\ eval \in PassRow /\ since \in [Devices -> -1..MaxClock]
      /\ seen \in [Devices -> -2..MaxClock] /\ eval.now \in 0..MaxClock /\ clock \in 0..MaxClock /\ MaxClock \in Nat
      /\ eval.firing \subseteq Devices /\ eval.opened \subseteq Devices /\ eval.resolved \subseteq Devices
  BY StoryKinds DEF TypeOK, AlertRow, PassRow
<1>1. UNCHANGED <<row, rule, told, lost, clock>> /\ eval.pc = "apply"
  BY DEF ApplyFiring, ApplyClear, inventory, world
<1>2. CASE ApplyFiring(d)
  <2>1. /\ d \in eval.firing /\ Known(d)
        /\ eval'.pc = "apply" /\ eval'.now = eval.now /\ eval'.firing = eval.firing \ {d}
        /\ eval'.clear = eval.clear /\ eval'.resolved = eval.resolved
        /\ eval'.opened = IF Due(d) /\ (~alert[d].open \/ Repeat(alert[d])) THEN eval.opened \cup {d} ELSE eval.opened
    BY <1>0, <1>2 DEF ApplyFiring, PassRow
  <2>2. /\ since'[d] = Since(d) /\ seen'[d] = IF seen[d] = -1 THEN eval.now ELSE seen[d]
        /\ \A e \in Devices \ {d} : since'[e] = since[e] /\ seen'[e] = seen[e]
    BY <1>0, <1>2 DEF ApplyFiring
  <2>3. /\ \A e \in Devices \ {d} : alert'[e] = alert[e]
        /\ alert[d].open => alert'[d].open
        /\ alert'[d].open <=> alert[d].open \/ Due(d)
    <3>1. [Closed EXCEPT !.open = TRUE].open = TRUE /\ alert[d].open \in BOOLEAN
      BY <1>0 DEF Closed, AlertRow
    <3>2. alert' = IF Due(d) /\ ~alert[d].open THEN [alert EXCEPT ![d] = [Closed EXCEPT !.open = TRUE]] ELSE alert
      BY <1>2 DEF ApplyFiring
    <3>. QED
      BY <1>0, <3>1, <3>2
  <2>4. PassIsOrdered'
    BY <1>1, <2>1 DEF AlertInv, PassIsOrdered, Notes
  <2>5. d \notin Notes
    BY <2>1 DEF AlertInv, PassIsOrdered
  <2>6. MessagesAreTrue'
    <3>1. ASSUME NEW e \in eval'.opened, Known(e)' PROVE alert'[e].open
      <4>1. Known(e) /\ e \in Devices
        BY <1>0, <1>1, <2>1, <3>1 DEF Known, Exists
      <4>2. CASE e = d
        BY <2>1, <2>3, <2>5, <3>1, <4>2 DEF Notes
      <4>3. CASE e # d
        BY <2>1, <2>3, <3>1, <4>1, <4>3 DEF AlertInv, MessagesAreTrue
      <4>. QED
        BY <4>2, <4>3
    <3>2. \A e \in eval'.resolved : ~alert'[e].open
      BY <1>0, <2>1, <2>3, <2>5 DEF AlertInv, MessagesAreTrue, Notes
    <3>3. ASSUME NEW e \in Devices \ (lost' \cup Notes') PROVE alert'[e].open <=> e \in told'
      <4>1. e \notin Notes /\ e \notin lost
        BY <1>1, <2>1, <3>3 DEF Notes
      <4>2. CASE e # d
        BY <1>1, <2>3, <3>3, <4>1, <4>2 DEF AlertInv, MessagesAreTrue
      <4>3. CASE e = d
        <5>1. ~(Due(d) /\ ~alert[d].open)
          BY <2>1, <3>3, <4>3 DEF Notes
        <5>. QED
          BY <1>1, <2>3, <3>3, <4>1, <4>3, <5>1 DEF AlertInv, MessagesAreTrue
      <4>. QED
        BY <4>2, <4>3
    <3>. QED
      BY <3>1, <3>2, <3>3 DEF MessagesAreTrue
  <2>7. SeenLongEnough'
    <3>1. ASSUME NEW e \in Devices
          PROVE  /\ seen'[e] <= clock /\ eval.now <= clock /\ seen'[e] <= eval.now
                 /\ since'[e] # -1 => seen'[e] = -2 \/ (seen'[e] # -1 /\ seen'[e] <= since'[e])
      <4>1. seen[e] <= clock /\ eval.now <= clock /\ seen[e] <= eval.now
            /\ (since[e] # -1 => seen[e] = -2 \/ (seen[e] # -1 /\ seen[e] <= since[e]))
        BY <1>1 DEF AlertInv, SeenLongEnough
      <4>2. CASE e # d
        BY <2>2, <4>1, <4>2
      <4>3. CASE e = d
        <5>1. seen[d] \in -2..MaxClock /\ since[d] \in -1..MaxClock
          BY <1>0
        <5>2. Since(d) = since[d] \/ (since[d] = -1 /\ Since(d) = eval.now)
          BY DEF Since
        <5>. QED
          BY <1>0, <2>2, <4>1, <4>3, <5>1, <5>2
      <4>. QED
        BY <4>2, <4>3
    <3>. QED
      BY <1>1, <2>1, <3>1 DEF SeenLongEnough
  <2>. QED
    BY <2>4, <2>6, <2>7 DEF AlertInv
<1>3. CASE ApplyClear(d)
  <2>1. /\ d \in eval.clear
        /\ eval'.pc = "apply" /\ eval'.now = eval.now /\ eval'.firing = eval.firing
        /\ eval'.clear = eval.clear \ {d} /\ eval'.opened = eval.opened
        /\ eval'.resolved = IF alert[d].open THEN eval.resolved \cup {d} ELSE eval.resolved
    BY <1>0, <1>3 DEF ApplyClear, PassRow, ResolvedNote
  <2>2. /\ since'[d] = -1 /\ seen'[d] = -1 /\ ~alert'[d].open
        /\ \A e \in Devices \ {d} : since'[e] = since[e] /\ seen'[e] = seen[e] /\ alert'[e] = alert[e]
    BY <1>0, <1>3 DEF ApplyClear, ForgetSince, Closed
  <2>3. d \notin Notes
    BY <2>1 DEF AlertInv, PassIsOrdered
  <2>4. PassIsOrdered'
    BY <1>1, <2>1, <2>3 DEF AlertInv, PassIsOrdered, Notes
  <2>5. MessagesAreTrue'
    <3>1. ASSUME NEW e \in eval'.opened, Known(e)' PROVE alert'[e].open
      <4>1. Known(e) /\ e \in Devices /\ e # d
        BY <1>0, <1>1, <2>1, <2>3, <3>1 DEF Known, Exists, Notes
      <4>. QED
        BY <2>1, <2>2, <3>1, <4>1 DEF AlertInv, MessagesAreTrue
    <3>2. \A e \in eval'.resolved : ~alert'[e].open
      BY <1>0, <2>1, <2>2 DEF AlertInv, MessagesAreTrue
    <3>3. ASSUME NEW e \in Devices \ (lost' \cup Notes') PROVE alert'[e].open <=> e \in told'
      <4>1. e \notin Notes /\ e \notin lost
        BY <1>1, <2>1, <3>3 DEF Notes
      <4>2. CASE e # d
        BY <1>1, <2>2, <3>3, <4>1, <4>2 DEF AlertInv, MessagesAreTrue
      <4>3. CASE e = d
        <5>1. ~alert[d].open
          BY <2>1, <3>3, <4>3 DEF Notes
        <5>. QED
          BY <1>1, <2>2, <3>3, <4>1, <4>3, <5>1 DEF AlertInv, MessagesAreTrue
      <4>. QED
        BY <4>2, <4>3
    <3>. QED
      BY <3>1, <3>2, <3>3 DEF MessagesAreTrue
  <2>6. SeenLongEnough'
    <3>1. ASSUME NEW e \in Devices
          PROVE  /\ seen'[e] <= clock /\ eval.now <= clock /\ seen'[e] <= eval.now
                 /\ since'[e] # -1 => seen'[e] = -2 \/ (seen'[e] # -1 /\ seen'[e] <= since'[e])
      <4>1. seen[e] <= clock /\ eval.now <= clock /\ seen[e] <= eval.now
            /\ (since[e] # -1 => seen[e] = -2 \/ (seen[e] # -1 /\ seen[e] <= since[e]))
        BY <1>1 DEF AlertInv, SeenLongEnough
      <4>. QED
        BY <1>0, <2>2, <4>1
    <3>. QED
      BY <1>1, <2>1, <3>1 DEF SeenLongEnough
  <2>. QED
    BY <2>4, <2>5, <2>6 DEF AlertInv
<1>. QED
  BY <1>2, <1>3

\* notify sends what is true, or loses it.
LEMMA NotifyKeeps ==
    ASSUME TypeOK, AlertInv, NEW d \in Devices, NEW sent \in BOOLEAN, Notify(d, sent)
    PROVE  AlertInv'
<1>0. alert \in [Devices -> AlertRow] /\ eval \in PassRow /\ eval.opened \subseteq Devices /\ eval.resolved \subseteq Devices
  BY DEF TypeOK, AlertRow, PassRow
<1>1. /\ UNCHANGED <<row, rule, since, seen, clock>> /\ eval.pc = "notify" /\ d \in Notes
      /\ eval'.pc = eval.pc /\ eval'.now = eval.now /\ eval'.firing = eval.firing /\ eval'.clear = eval.clear
      /\ eval'.opened = eval.opened \ {d} /\ eval'.resolved = eval.resolved \ {d}
      /\ told' = IF ~sent THEN told ELSE IF d \in eval.opened THEN told \cup {d} ELSE told \ {d}
      /\ lost' = IF sent /\ Known(d) THEN lost \ {d} ELSE lost \cup {d}
  BY <1>0 DEF Notify, inventory, RestOf, PassRow
<1>2. \A e \in Devices : alert'[e].open = alert[e].open
  BY <1>0 DEF Notify, AlertRow
<1>3. PassIsOrdered'
  BY <1>1 DEF AlertInv, PassIsOrdered, Notes
<1>4. MessagesAreTrue'
  <2>1. ASSUME NEW e \in eval'.opened, Known(e)' PROVE alert'[e].open
    BY <1>0, <1>1, <1>2, <2>1 DEF AlertInv, MessagesAreTrue, Known, Exists
  <2>2. \A e \in eval'.resolved : ~alert'[e].open
    BY <1>0, <1>1, <1>2 DEF AlertInv, MessagesAreTrue
  <2>3. ASSUME NEW e \in Devices \ (lost' \cup Notes') PROVE alert'[e].open <=> e \in told'
    <3>1. CASE e # d
      <4>1. e \notin Notes /\ e \notin lost /\ (e \in told' <=> e \in told)
        BY <1>1, <2>3, <3>1 DEF Notes
      <4>. QED
        BY <1>2, <2>3, <4>1 DEF AlertInv, MessagesAreTrue
    <3>2. CASE e = d
      <4>1. sent /\ Known(d)
        BY <1>1, <2>3, <3>2
      <4>2. CASE d \in eval.opened
        BY <1>1, <1>2, <3>2, <4>1, <4>2 DEF AlertInv, MessagesAreTrue
      <4>3. CASE d \notin eval.opened
        BY <1>1, <1>2, <3>2, <4>1, <4>3 DEF AlertInv, MessagesAreTrue, Notes
      <4>. QED
        BY <4>2, <4>3
    <3>. QED
      BY <3>1, <3>2
  <2>. QED
    BY <2>1, <2>2, <2>3 DEF MessagesAreTrue
<1>5. SeenLongEnough'
  BY <1>1 DEF AlertInv, SeenLongEnough
<1>. QED
  BY <1>3, <1>4, <1>5 DEF AlertInv

\* A pass keeps the alerts in step.
LEMMA PassKeeps ==
    ASSUME TypeOK, AlertInv, Pass \/ EvalError
    PROVE  AlertInv'
<1>1. CASE LoadChannels
  <2>1. /\ UNCHANGED <<row, rule, since, alert, told, lost, seen, clock>> /\ eval.pc = "apply" /\ eval'.pc = "notify"
        /\ eval'.now = eval.now /\ eval'.firing = eval.firing /\ eval'.clear = eval.clear
        /\ eval'.opened = eval.opened /\ eval'.resolved = eval.resolved
    BY <1>1 DEF LoadChannels, inventory, world, TypeOK
  <2>2. PassIsOrdered'
    BY <2>1 DEF AlertInv, PassIsOrdered, Notes
  <2>3. MessagesAreTrue'
    BY <2>1 DEF AlertInv, MessagesAreTrue, Notes, Known, Exists
  <2>4. SeenLongEnough'
    BY <2>1 DEF AlertInv, SeenLongEnough
  <2>. QED
    BY <2>2, <2>3, <2>4 DEF AlertInv
<1>2. CASE EvalEnd
  <2>1. /\ UNCHANGED <<row, rule, since, alert, told, lost, seen, clock>> /\ eval' = Resting
        /\ eval.opened = {} /\ eval.resolved = {}
    BY <1>2 DEF EvalEnd, inventory, world, Notes
  <2>2. /\ Resting.pc = "idle" /\ Resting.now = 0 /\ Resting.firing = {} /\ Resting.clear = {}
        /\ Resting.opened = {} /\ Resting.resolved = {}
    BY DEF Resting
  <2>3. PassIsOrdered'
    BY <2>1, <2>2 DEF PassIsOrdered, Notes, Resting
  <2>4. MessagesAreTrue'
    BY <2>1, <2>2 DEF AlertInv, MessagesAreTrue, Notes
  <2>5. SeenLongEnough'
    <3>1. 0 <= clock
      BY StoryKinds DEF TypeOK
    <3>. QED
      BY <2>1, <2>2, <3>1 DEF AlertInv, SeenLongEnough
  <2>. QED
    BY <2>3, <2>4, <2>5 DEF AlertInv
<1>. QED
  BY <1>1, <1>2, BeginAlerts, ApplyKeeps, NotifyKeeps, AbandonKeeps DEF Pass, EvalError, ApplyFails

\* It holds always.
LEMMA AlertHolds == Spec => []AlertInv
<1>1. Init => AlertInv
  <2>. SUFFICES ASSUME Init PROVE AlertInv
    OBVIOUS
  <2>1. /\ Resting.pc = "idle" /\ Resting.now = 0 /\ Resting.firing = {} /\ Resting.clear = {}
        /\ Resting.opened = {} /\ Resting.resolved = {} /\ ~Closed.open
    BY DEF Resting, Closed
  <2>. QED
    BY <2>1 DEF Init, AlertInv, PassIsOrdered, MessagesAreTrue, SeenLongEnough, Notes
<1>2. InventoryInv /\ InventoryInv' /\ AlertInv /\ [Next]_vars => AlertInv'
  <2>. SUFFICES ASSUME InventoryInv, InventoryInv', AlertInv, [Next]_vars PROVE AlertInv'
    OBVIOUS
  <2>0. TypeOK /\ TypeOK'
    BY DEF InventoryInv
  <2>1. ASSUME UNCHANGED vars PROVE AlertInv'
    <3>1. clock \in Int
      BY <2>0 DEF TypeOK
    <3>. QED
      BY <2>0, <2>1, <3>1, AlertStays DEF vars, inventory, alerting, world, Exists
  <2>. QED
    BY <2>0, <2>1, PassKeeps, PollLeavesAlerts, OutsideLeavesAlerts DEF Next, Outside
<1>. QED
  BY <1>1, <1>2, InventoryHolds, PTL DEF Spec

\* Between passes the channel has heard of exactly the alerts that are open,
\* whatever rules, channels and devices were edited during a pass, save for the
\* devices whose latest message was lost.
THEOREM ChannelStaysInStep == Spec => []ChannelKnows
<1>1. AlertInv => ChannelKnows
  <2>. SUFFICES ASSUME AlertInv, eval.pc = "idle", NEW d \in Devices \ lost PROVE alert[d].open <=> d \in told
    BY DEF ChannelKnows
  <2>1. eval.opened = {} /\ eval.resolved = {}
    BY DEF AlertInv, PassIsOrdered, Resting
  <2>. QED
    BY <2>1 DEF AlertInv, MessagesAreTrue, Notes
<1>. QED
  BY <1>1, AlertHolds, PTL

\* Evaluate opens an alert only after every pass saw the condition for the
\* rule's duration, however passes, edits and restarts fall.
THEOREM AlertsWaitTheirTime == Spec => DurationHeld
<1>. DEFINE Held == \A d \in Devices : ~alert[d].open /\ alert'[d].open =>
                      story.duration = 0 \/ seen[d] = -2 \/ (seen[d] # -1 /\ eval.now - seen[d] >= story.duration)
<1>1. InventoryInv /\ AlertInv /\ [Next]_vars => Held
  <2>. SUFFICES ASSUME InventoryInv, AlertInv, [Next]_vars, NEW d \in Devices, ~alert[d].open, alert'[d].open,
                       story.duration # 0
                PROVE  seen[d] = -2 \/ (seen[d] # -1 /\ eval.now - seen[d] >= story.duration)
    OBVIOUS
  <2>0. TypeOK /\ alert \in [Devices -> AlertRow]
    BY DEF InventoryInv, TypeOK, AlertRow
  <2>1. ApplyFiring(d)
    <3>1. ASSUME NEW e \in Devices, ApplyFiring(e) PROVE e = d
      BY <2>0, <3>1 DEF ApplyFiring
    <3>2. ASSUME NEW e \in Devices, ApplyClear(e) \/ Remove(e) PROVE FALSE
      BY <2>0, <3>2 DEF ApplyClear, Remove, Closed
    <3>11. ASSUME NEW e \in Devices, DeleteDevice(e) PROVE FALSE
      BY <3>2, <3>11 DEF DeleteDevice
    <3>3. ASSUME NEW e \in Devices, NEW sent \in BOOLEAN, Notify(e, sent) PROVE FALSE
      BY <2>0, <3>3 DEF Notify, AlertRow
    <3>4. ASSUME NEW e \in Devices, Ack(e) PROVE FALSE
      BY <2>0, <3>4 DEF Ack, AlertRow
    <3>5. ASSUME DeleteRule PROVE FALSE
      BY <3>5 DEF DeleteRule, Closed
    <3>6. ASSUME alert' = alert PROVE FALSE
      BY <3>6
    <3>12. ASSUME NEW k \in Contacts, Undo(k) PROVE FALSE
      BY <2>0, <3>2, <3>6, <3>12 DEF Undo, TypeOK
    <3>7. ASSUME NEW k \in Contacts, Poll(k) PROVE alert' = alert
      BY <3>7 DEF Poll, Schedule, Refresh, CreateDevice, Ask, ProbeSave, Signatures, HealthSave, Cancelled, alerting
    <3>8. ASSUME EvalBegin \/ LoadChannels \/ EvalEnd \/ EvalError \/ \E e \in Devices : ApplyFails(e)
          PROVE  alert' = alert
      BY <3>8 DEF EvalBegin, LoadChannels, EvalEnd, EvalError, ApplyFails, Abandon
    <3>9. ASSUME \/ SaveRule \/ (\E c \in {"enabled", "disabled", "deleted"} : SaveChannel(c)) \/ Restart \/ Tick
                 \/ \E e \in Devices, s \in {"good", "near", "expired", "none"} : License(e, s)
                 \/ \E e \in Devices : UpdateDevice(e) \/ \E t \in {"up", "high", "down"} : Change(e, t)
          PROVE  alert' = alert
      BY <3>9 DEF SaveRule, SaveChannel, Restart, Tick, UpdateDevice, License, Change, alerting
    <3>10. ASSUME UNCHANGED vars PROVE alert' = alert
      BY <3>10 DEF vars, alerting
    <3>. QED
      BY <3>1, <3>2, <3>3, <3>4, <3>5, <3>6, <3>7, <3>8, <3>9, <3>10, <3>11, <3>12 DEF Next, Pass, Panel
  <2>2. Due(d) /\ eval.pc = "apply"
    BY <2>0, <2>1 DEF ApplyFiring
  <2>3. since[d] \in -1..MaxClock /\ seen[d] \in -2..MaxClock /\ eval.now \in 0..MaxClock /\ story.duration \in Nat
    BY <2>0, StoryKinds DEF TypeOK
  <2>4. since[d] # -1 /\ eval.now - since[d] >= story.duration
    BY <2>2, <2>3 DEF Due, Since
  <2>5. seen[d] = -2 \/ (seen[d] # -1 /\ seen[d] <= since[d])
    BY <2>4 DEF AlertInv, SeenLongEnough
  <2>. QED
    BY <2>3, <2>4, <2>5
<1>2. InventoryInv /\ AlertInv /\ [Next]_vars => [Held]_vars
  BY <1>1
<1>3. Spec => [][Held]_vars
  <2>. HIDE DEF Held
  <2>. QED
    BY <1>2, InventoryHolds, AlertHolds, PTL DEF Spec
<1>. QED
  BY <1>3 DEF DurationHeld
===============================================================================
