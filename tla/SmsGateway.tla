------------------------------ MODULE SmsGateway ------------------------------
(* Who may be sent a code, and how many: the licensed number of two-factor     *)
(* users (internal/otp, with the directory import), FortiGate local users that *)
(* are synced from the devices, and the email-to-SMS gateway (internal/smtpgw) *)
(* beside RADIUS, which sends by the same rules (internal/sms).                *)
EXTENDS Naturals, FiniteSets

CONSTANTS
    Names,      \* user names, each with a mobile of its own
    NoName,     \* a call that is about no user in particular
    Devices,    \* FortiGates
    Calls,      \* panel requests, mails, RADIUS sign-ins, sync passes
    MaxCap,     \* bound on the licensed number of users
    MaxSends,   \* policy: codes per mobile in ten minutes
    MaxEvents   \* bound on changes at the devices and of the license

ASSUME GatewayConstants ==
    /\ MaxCap \in Nat /\ MaxSends \in Nat \ {0} /\ MaxEvents \in Nat
    /\ IsFiniteSet(Names) /\ NoName \notin Names
    /\ Devices # {}

VARIABLES
    users,      \* table otp_users: "none", "active" or "disabled"
    synced,     \* table fortigate_sms_users: pairs of device and name
    sent,       \* table sms_messages: codes to a mobile logged as sent in ten minutes
    cap,        \* the guard's OTPCapacity
    local,      \* external: a device's enabled local users with SMS two-factor
    call,       \* calls in progress
    events,
    \* observation
    known,      \* pairs seen by a sync and on the device ever since
    disturbed,  \* calls beside which users, synced names or capacity changed
    raced       \* mobiles and devices with overlapping writers

vars == <<users, synced, sent, cap, local, call, events, known, disturbed, raced>>

Ops == {"none", "create", "activate", "import", "mail", "radius", "sync"}
\* list: what was asked for, the names a device reported or the recipients.
\* done: names added or sent to. seen: counts that were read.
Call == [op: Ops, pc: {"ready", "capacity", "write", "next", "relay", "code", "rate", "send", "commit", "done"},
         name: Names \cup {NoName}, dev: Devices, todo: SUBSET Names, done: SUBSET Names, list: SUBSET Names,
         seen: Nat, failed: BOOLEAN]

Ready == [op |-> "none", pc |-> "ready", name |-> NoName,
          dev |-> CHOOSE d \in Devices : TRUE, todo |-> {}, done |-> {}, list |-> {},
          seen |-> 0, failed |-> FALSE]

TypeOK ==
    /\ users \in [Names -> {"none", "active", "disabled"}]
    /\ synced \subseteq Devices \X Names
    /\ sent \in [Names -> Nat]
    /\ cap \in 0..MaxCap
    /\ local \in [Devices -> SUBSET Names]
    /\ call \in [Calls -> Call]
    /\ events \in 0..MaxEvents
    /\ known \subseteq Devices \X Names
    /\ disturbed \subseteq Calls
    /\ raced \subseteq Names \cup Devices

Init ==
    /\ users \in [Names -> {"none", "disabled"}]
    /\ synced = {}
    /\ sent = [n \in Names |-> 0]
    /\ cap \in 1..MaxCap
    /\ local \in [Devices -> SUBSET Names]
    /\ call = [c \in Calls |-> Ready]
    /\ events = 0
    /\ known = {} /\ disturbed = {} /\ raced = {}

-------------------------------------------------------------------------------
(* Helpers *)

At(c, pc) == call[c].pc = pc
Goto(c, pc) == call' = [call EXCEPT ![c].pc = pc]

\* What a call leaves behind: the outcome of an import or a mail.
Finish(c, failed) ==
    LET r == call[c] IN
    call' = [call EXCEPT ![c] =
       IF r.op \in {"import", "mail"}
       THEN [Ready EXCEPT !.pc = "done", !.op = r.op, !.done = r.done, !.list = r.list, !.failed = r.failed \/ failed]
       ELSE [Ready EXCEPT !.pc = "done"]]

Busy(c) == ~At(c, "ready") /\ ~At(c, "done")

Active == {n \in Names : users[n] = "active"}

\* Usage: each active user, and each synced name that is not one, once.
Usage == Cardinality(Active \cup {n \in Names : \E d \in Devices : <<d, n>> \in synced})

\* Mutant: the limit is reached one user late.
RoomForOneMore(adding) == Usage + adding <= cap + 1

\* checkCapacity
Room(adding) == Usage + adding <= cap

\* Users, synced names or the capacity change beside the calls that add users.
Adding == {i \in Calls : Busy(i) /\ call[i].op \in {"create", "activate", "import"}}
Disturb(c) == disturbed' = disturbed \cup (Adding \ {c})

-------------------------------------------------------------------------------
(* Users: Create, Update and ImportDirectory *)

Create(c, n) ==
    /\ At(c, "ready")
    /\ call' = [call EXCEPT ![c].op = "create", ![c].pc = "capacity", ![c].name = n]
    /\ UNCHANGED <<users, synced, sent, cap, local, events, known, disturbed, raced>>

\* Update reads the user; only one that becomes active is counted.
Activate(c, n) ==
    /\ At(c, "ready") /\ users[n] # "none"
    /\ call' = [call EXCEPT ![c].op = "activate", ![c].name = n,
                            ![c].pc = IF users[n] = "active" THEN "write" ELSE "capacity"]
    /\ UNCHANGED <<users, synced, sent, cap, local, events, known, disturbed, raced>>

Deactivate(n) ==
    /\ users[n] = "active" /\ events < MaxEvents
    /\ users' = [users EXCEPT ![n] = "disabled"]
    /\ events' = events + 1
    /\ disturbed' = disturbed \cup Adding
    /\ UNCHANGED <<synced, sent, cap, local, call, known, raced>>

\* Mutant: the row is only marked.
DeleteMarks(n) ==
    /\ users[n] # "none" /\ events < MaxEvents
    /\ users' = [users EXCEPT ![n] = "deleted"]
    /\ events' = events + 1
    /\ UNCHANGED <<synced, sent, cap, local, call, known, disturbed, raced>>

Delete(n) ==
    /\ users[n] # "none" /\ events < MaxEvents
    /\ users' = [users EXCEPT ![n] = "none"]
    /\ events' = events + 1
    /\ disturbed' = disturbed \cup Adding
    /\ UNCHANGED <<synced, sent, cap, local, call, known, raced>>

\* Mutant: the users to add are not counted together.
ImportRoomNot(k) == TRUE

\* The capacity for all of them, before the first is added.
ImportRoom(k) == Room(k)

\* SearchDirectory: the users found that do not exist yet.
SearchDirectory(names) == {n \in names : users[n] = "none"}

\* The names asked for; those the directory has, with a mobile, may be fewer.
Import(c, names) ==
    LET add == SearchDirectory(names) IN
    /\ At(c, "ready")
    /\ call' = [call EXCEPT ![c].op = "import", ![c].todo = add,
                            ![c].pc = IF ImportRoom(Cardinality(add)) THEN "next" ELSE "done",
                            ![c].failed = ~ImportRoom(Cardinality(add))]
    /\ UNCHANGED <<users, synced, sent, cap, local, events, known, disturbed, raced>>

ImportNext(c) ==
    /\ At(c, "next") /\ call[c].op = "import"
    /\ IF call[c].todo = {} THEN Finish(c, FALSE)
       ELSE \E n \in call[c].todo :
              call' = [call EXCEPT ![c].pc = "capacity", ![c].name = n, ![c].todo = @ \ {n}]
    /\ UNCHANGED <<users, synced, sent, cap, local, events, known, disturbed, raced>>

CheckCapacity(c) ==
    /\ At(c, "capacity")
    /\ IF Room(1) THEN Goto(c, "write") ELSE Finish(c, TRUE)
    /\ UNCHANGED <<users, synced, sent, cap, local, events, known, disturbed, raced>>

\* The INSERT fails for a name that exists, the UPDATE of none has no effect.
WriteUser(c) ==
    LET n == call[c].name  inserts == call[c].op # "activate" IN
    /\ At(c, "write")
    /\ \/ /\ inserts = (users[n] = "none")
          /\ users' = [users EXCEPT ![n] = "active"]
          /\ IF call[c].op = "import"
             THEN call' = [call EXCEPT ![c].pc = "next", ![c].done = @ \cup {n}]
             ELSE Finish(c, FALSE)
          /\ Disturb(c)
       \/ /\ inserts # (users[n] = "none")
          /\ Finish(c, inserts)
          /\ UNCHANGED <<users, disturbed>>
    /\ UNCHANGED <<synced, sent, cap, local, events, known, raced>>

-------------------------------------------------------------------------------
(* SyncUsers, hourly and by the panel: one transaction per device *)

SyncList(c, d) ==
    /\ At(c, "ready")
    /\ call' = [call EXCEPT ![c].op = "sync", ![c].dev = d, ![c].pc = "commit", ![c].list = local[d]]
    /\ UNCHANGED <<users, synced, sent, cap, local, events, known, disturbed, raced>>

\* Mutant: a device that does not answer counts as one without users.
SyncFailsEmpty(c, d) ==
    /\ At(c, "ready")
    /\ call' = [call EXCEPT ![c].op = "sync", ![c].dev = d, ![c].pc = "commit", ![c].list = {}]
    /\ UNCHANGED <<users, synced, sent, cap, local, events, known, disturbed, raced>>

\* The device does not answer: its rows stay.
SyncFails(c, d) ==
    /\ At(c, "ready")
    /\ call' = [call EXCEPT ![c].op = "sync", ![c].dev = d, ![c].pc = "done", ![c].failed = TRUE]
    /\ UNCHANGED <<users, synced, sent, cap, local, events, known, disturbed, raced>>

\* DELETE and INSERTs, committed together; another pass may be between its
\* list and its own commit.
SyncCommit(c) ==
    LET d == call[c].dev  rows == {d} \X call[c].list IN
    /\ At(c, "commit")
    /\ synced' = (synced \ ({d} \X Names)) \cup rows
    /\ known' = known \cup {r \in rows : r[2] \in local[d]}
    /\ raced' = IF \E i \in Calls \ {c} : At(i, "commit") /\ call[i].dev = d THEN raced \cup {d} ELSE raced
    /\ Finish(c, FALSE)
    /\ Disturb(c)
    /\ UNCHANGED <<users, sent, cap, local, events>>

-------------------------------------------------------------------------------
(* The gateway: Rcpt sorts recipients, Data relays and delivers *)

\* names: the mobiles among the recipients; relay: there are others.
Mail(c, names, relay) ==
    /\ At(c, "ready")
    /\ names # {} \/ relay
    /\ call' = [call EXCEPT ![c].op = "mail", ![c].todo = names, ![c].list = names,
                            ![c].pc = IF relay THEN "relay" ELSE "code"]
    /\ UNCHANGED <<users, synced, sent, cap, local, events, known, disturbed, raced>>

\* A failed relay ends Data before any code is sent.
Relay(c) ==
    /\ At(c, "relay")
    /\ Goto(c, "code") \/ Finish(c, TRUE)
    /\ UNCHANGED <<users, synced, sent, cap, local, events, known, disturbed, raced>>

\* No code in the text: refused.
ParseCode(c) ==
    /\ At(c, "code")
    /\ IF call[c].todo = {} THEN Finish(c, FALSE) ELSE Goto(c, "next") \/ Finish(c, TRUE)
    /\ UNCHANGED <<users, synced, sent, cap, local, events, known, disturbed, raced>>

\* Mutant: only the last mobile decides.
GiveUpForget(c) == [call EXCEPT ![c].pc = "next", ![c].failed = FALSE]

\* A mobile that cannot be served is remembered; the others are tried.
GiveUp(c) == [call EXCEPT ![c].pc = "next", ![c].failed = TRUE]

\* deliver: a mobile of a synced or an active user, within the capacity.
Deliver(c) ==
    /\ At(c, "next") /\ call[c].op = "mail"
    /\ IF call[c].todo = {} THEN Finish(c, FALSE)
       ELSE \E n \in call[c].todo :
              LET one == [call[c] EXCEPT !.name = n, !.todo = @ \ {n}]
                  served == (n \in Active \/ \E d \in Devices : <<d, n>> \in synced) /\ Usage <= cap
              IN  call' = [call EXCEPT ![c] = [one EXCEPT !.pc = IF served THEN "rate" ELSE "next",
                                                          !.failed = @ \/ ~served]]
    /\ UNCHANGED <<users, synced, sent, cap, local, events, known, disturbed, raced>>

\* RADIUS sends by the same count.
RadiusSend(c, n) ==
    /\ At(c, "ready") /\ n \in Active
    /\ call' = [call EXCEPT ![c].op = "radius", ![c].pc = "rate", ![c].name = n]
    /\ UNCHANGED <<users, synced, sent, cap, local, events, known, disturbed, raced>>

\* Mutant: the limit is exceeded by one.
MayStill(n) == n <= MaxSends

MaySend(n) == n < MaxSends

SentSince(c) ==
    LET n == call[c].name IN
    /\ At(c, "rate")
    /\ \/ /\ MaySend(sent[n])
          /\ call' = [call EXCEPT ![c].pc = "send", ![c].seen = sent[n]]
       \/ /\ ~MaySend(sent[n])
          /\ IF call[c].op = "mail" THEN call' = GiveUp(c) ELSE Finish(c, TRUE)
    /\ UNCHANGED <<users, synced, sent, cap, local, events, known, disturbed, raced>>

\* The provider takes the message, or it refuses it or its answer is lost: the
\* message is then logged as failed and not counted, though it may arrive.
Send(c) ==
    LET n == call[c].name IN
    /\ At(c, "send")
    /\ \/ /\ sent' = [sent EXCEPT ![n] = @ + 1]
          /\ raced' = IF call[c].seen # sent[n] THEN raced \cup {n} ELSE raced
          /\ IF call[c].op = "mail" THEN call' = [call EXCEPT ![c].pc = "next", ![c].done = @ \cup {n}]
             ELSE Finish(c, FALSE)
       \/ /\ IF call[c].op = "mail" THEN call' = GiveUp(c) ELSE Finish(c, TRUE)
          /\ UNCHANGED <<sent, raced>>
    /\ UNCHANGED <<users, synced, cap, local, events, known, disturbed>>

-------------------------------------------------------------------------------
(* Environment *)

\* A device's users are edited; the license changes.
EditLocal(d, names) ==
    /\ events < MaxEvents /\ local[d] # names
    /\ local' = [local EXCEPT ![d] = names]
    /\ known' = {k \in known : k[1] = d => k[2] \in names}
    /\ events' = events + 1
    /\ UNCHANGED <<users, synced, sent, cap, call, disturbed, raced>>

SetCapacity(k) ==
    /\ events < MaxEvents /\ k # cap
    /\ cap' = k
    /\ events' = events + 1
    /\ disturbed' = disturbed \cup Adding
    /\ UNCHANGED <<users, synced, sent, local, call, known, raced>>

Step(c) ==
    \/ \E n \in Names : Create(c, n) \/ Activate(c, n) \/ RadiusSend(c, n)
    \/ \E names \in SUBSET Names \ {{}} : Import(c, names)
    \/ \E names \in SUBSET Names, relay \in BOOLEAN : Mail(c, names, relay)
    \/ \E d \in Devices : SyncList(c, d) \/ SyncFails(c, d)
    \/ ImportNext(c) \/ CheckCapacity(c) \/ WriteUser(c) \/ SyncCommit(c)
    \/ Relay(c) \/ ParseCode(c) \/ Deliver(c) \/ SentSince(c) \/ Send(c)

Next ==
    \/ \E c \in Calls : Step(c)
    \/ \E n \in Names : Deactivate(n) \/ Delete(n)
    \/ \E d \in Devices, names \in SUBSET Names : EditLocal(d, names)
    \/ \E k \in 0..MaxCap : SetCapacity(k)

Spec == Init /\ [][Next]_vars

-------------------------------------------------------------------------------
(* Properties *)

\* Adding or activating a user does not exceed the license, unless another
\* writer came between what the call read (the user, the usage) and its statement.
AddedWithinCapacity ==
    [][\A c \in Calls : At(c, "write") /\ call'[c].pc # "write" /\ Usage' > Usage
                        => Usage' <= cap \/ c \in disturbed]_vars

\* ImportDirectory is refused as a whole: it reports no user as added only
\* when it added none, unless users or capacity changed beside it.
ImportWhole ==
    \A c \in Calls : call[c].op = "import" /\ At(c, "done") /\ call[c].failed
                     => call[c].done = {} \/ c \in disturbed

\* A mail is accepted only when every mobile among its recipients was sent the
\* code: the firewall would not repeat it.
AcceptedDelivered ==
    \A c \in Calls : call[c].op = "mail" /\ At(c, "done") /\ ~call[c].failed => call[c].done = call[c].list

\* The gateway and RADIUS together log at most MaxSends codes as sent to a mobile,
\* unless two of them counted before either had sent.
SharedRateLimit == \A n \in Names : sent[n] <= MaxSends \/ n \in raced

\* A local user a sync has seen, and that its device still has, stays
\* registered through failed and repeated passes, unless two passes over the
\* device overlapped.
SyncKeepsKnown == \A k \in known : k \in synced \/ k[1] \in raced

\* Sending keeps both promises at once: every recipient of an accepted mail got
\* the code, and no mobile is logged as sent more codes than the limit allows.
SendingHolds == TypeOK /\ AcceptedDelivered /\ SharedRateLimit

\* Users are added and kept as a whole: by imports that meet the limit, and by
\* syncs that fail half way.
UsersAreKept == ImportWhole /\ SyncKeepsKnown
===============================================================================
