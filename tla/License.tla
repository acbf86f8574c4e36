-------------------------------- MODULE License --------------------------------
(* The license of an installation: the guard that entitlements are read from,  *)
(* the row license_state that survives a restart, and the heartbeats to the    *)
(* license server (internal/license with the handlers of internal/api). The    *)
(* guard has a mutex, the row a transaction; nothing covers both. The columns  *)
(* that only the panel shows (last heartbeat, its error) are left out.         *)
EXTENDS Integers, FiniteSets

CONSTANTS
    Tokens,     \* license tokens the server signs: records of Token
    Requests,   \* panel requests, each made once
    Loop,       \* the goroutine of Manager.Run
    MaxClock,   \* bound on the system clock
    MaxCrashes  \* bound on process restarts

\* bound: issued for this installation. online: names a heartbeat address.
Token == [issued: Nat \ {0}, notAfter: Nat, online: BOOLEAN, bound: BOOLEAN]

NoLicense == [issued |-> 0, notAfter |-> 0, online |-> FALSE, bound |-> FALSE]

ASSUME LicenseConstants ==
    /\ Tokens \subseteq Token
    /\ Loop \notin Requests
    /\ MaxClock \in Nat /\ MaxCrashes \in Nat

VARIABLES
    lic, floor,        \* the guard, in memory
    token, maxSeen,    \* table license_state
    clock,             \* the system clock
    revoked,           \* tokens the server has revoked
    call,              \* requests and the loop
    crashes,
    torn               \* observation: guard and row were written out of step

vars == <<lic, floor, token, maxSeen, clock, revoked, call, crashes, torn>>

Procs == Requests \cup {Loop}
Licenses == Tokens \cup {NoLicense}

\* sent: the license the heartbeat is about. answer: the server's status.
Answers == {"none", "ok", "updated", "revoked", "error"}
CallState == [pc: {"ready", "install", "store", "request", "post", "answer", "null", "touch", "done"},
              op: {"none", "activate", "heartbeat"},
              tok: Licenses, sent: Licenses, answer: Answers, now: 0..MaxClock]

Fresh == [pc |-> "ready", op |-> "none", tok |-> NoLicense, sent |-> NoLicense,
          answer |-> "none", now |-> 0]

TypeOK ==
    /\ lic \in Licenses /\ token \in Licenses
    /\ floor \in 0..MaxClock /\ maxSeen \in 0..MaxClock /\ clock \in 0..MaxClock
    /\ revoked \subseteq Tokens
    /\ call \in [Procs -> CallState]
    /\ crashes \in 0..MaxCrashes
    /\ torn \in BOOLEAN

Init ==
    /\ lic = NoLicense /\ token = NoLicense
    /\ floor = 0 /\ maxSeen = 0 /\ clock = 0
    /\ revoked = {}
    /\ call = [p \in Procs |-> Fresh]
    /\ crashes = 0 /\ torn = FALSE

-------------------------------------------------------------------------------
(* Guard *)

Later(a, b) == IF a > b THEN a ELSE b

Now == Later(clock, floor)

\* external: licformat evaluates the license.
Status(l, t) == IF l = NoLicense THEN "unlicensed" ELSE IF t < l.notAfter THEN "active" ELSE "expired"

DeviceStatus == Status(lic, Now)

\* Mutant: any token may replace the license.
AcceptsAny(t, current, now) == t.bound /\ now < t.notAfter

\* Guard.Install accepts t.
Accepts(t, current, now) ==
    /\ t.bound
    /\ now < t.notAfter
    /\ current = NoLicense \/ t.issued >= current.issued

-------------------------------------------------------------------------------
(* Manager *)

At(p, pc) == call[p].pc = pc
Goto(p, pc) == call' = [call EXCEPT ![p].pc = pc]

\* A request answers; the loop waits for its next beat.
Finish(p) == call' = [call EXCEPT ![p] = IF p = Loop THEN Fresh ELSE [Fresh EXCEPT !.pc = "done"]]

\* Calls that have written the guard and not yet the row.
Between == {p \in Procs : call[p].pc \in {"store", "null"}}

Upload(p, t) ==
    /\ p \in Requests /\ At(p, "ready")
    /\ call' = [call EXCEPT ![p].pc = "install", ![p].tok = t]
    /\ UNCHANGED <<lic, floor, token, maxSeen, clock, revoked, crashes, torn>>

\* ActivateOnline; without a key it renews the license in force.
Activate(p, key) ==
    /\ p \in Requests /\ At(p, "ready")
    /\ IF key \/ lic # NoLicense
       THEN call' = [call EXCEPT ![p].pc = "post", ![p].op = "activate", ![p].sent = lic]
       ELSE Finish(p)
    /\ UNCHANGED <<lic, floor, token, maxSeen, clock, revoked, crashes, torn>>

HeartbeatBegin(p) ==
    /\ At(p, "ready")
    /\ IF lic # NoLicense /\ lic.online
       THEN call' = [call EXCEPT ![p].pc = "request", ![p].op = "heartbeat"]
       ELSE Finish(p)
    /\ UNCHANGED <<lic, floor, token, maxSeen, clock, revoked, crashes, torn>>

\* RefreshRequest reads the license again.
HeartbeatRequest(p) ==
    /\ At(p, "request")
    /\ IF lic = NoLicense THEN Finish(p)
       ELSE call' = [call EXCEPT ![p].pc = "post", ![p].sent = lic]
    /\ UNCHANGED <<lic, floor, token, maxSeen, clock, revoked, crashes, torn>>

\* Mutant: 410 Gone is an error like the others.
KeptGone(a) == IF a = "revoked" THEN "error" ELSE a

\* Mutants: any refusal means revoked; the HTTP status is kept as it is.
KeptRefusal(a) == IF a = "error" THEN "revoked" ELSE a
KeptRaw(a) == IF a = "revoked" THEN "gone" ELSE a

\* post: what is made of a server's answer.
Kept(a) == a

\* The server answers, or cannot be reached; the answer is on its way.
ServerAnswers(p, a, t) ==
    /\ At(p, "post")
    /\ \/ a = "error" /\ t = NoLicense
       \/ a = "ok" /\ call[p].op = "heartbeat" /\ call[p].sent \notin revoked /\ t = NoLicense
       \/ a = "updated" /\ call[p].sent \notin revoked /\ t \in Tokens \ revoked
       \/ a = "revoked" /\ call[p].op = "heartbeat" /\ call[p].sent \in revoked /\ t = NoLicense
    /\ call' = [call EXCEPT ![p].pc = "answer", ![p].answer = Kept(a), ![p].tok = t]
    /\ UNCHANGED <<lic, floor, token, maxSeen, clock, revoked, crashes, torn>>

\* The switch on the answer.
Receive(p) ==
    /\ At(p, "answer")
    /\ \/ /\ call[p].answer = "updated"
          /\ call' = [call EXCEPT ![p] = [Fresh EXCEPT !.pc = "install", !.tok = call[p].tok]]
          /\ UNCHANGED <<lic, torn>>
       \/ /\ call[p].answer = "revoked"
          /\ lic' = NoLicense
          /\ torn' = (torn \/ Between # {})
          /\ call' = [call EXCEPT ![p] = [Fresh EXCEPT !.pc = "null"]]
       \/ /\ call[p].answer \in {"ok", "error"}
          /\ Finish(p)
          /\ UNCHANGED <<lic, torn>>
    /\ UNCHANGED <<floor, token, maxSeen, clock, revoked, crashes>>

\* An error of Guard.Install ends the call.
Install(p) ==
    /\ At(p, "install")
    /\ IF Accepts(call[p].tok, lic, Now)
       THEN /\ lic' = call[p].tok
            /\ torn' = (torn \/ Between # {})
            /\ Goto(p, "store")
       ELSE Finish(p) /\ UNCHANGED <<lic, torn>>
    /\ UNCHANGED <<floor, token, maxSeen, clock, revoked, crashes>>

\* Mutant: a revocation leaves the row as it is.
WriteNoNull(p) == p \in Between /\ token' = IF At(p, "store") THEN call[p].tok ELSE token

\* The UPDATE of Install, or of a revocation.
Write(p) ==
    \/ At(p, "store") /\ token' = call[p].tok
    \/ At(p, "null") /\ token' = NoLicense

Store(p) ==
    /\ p \in Between
    /\ \/ Write(p) /\ UNCHANGED torn
       \/ UNCHANGED token /\ torn' = TRUE
    /\ Finish(p)
    /\ UNCHANGED <<lic, floor, maxSeen, clock, revoked, crashes>>

\* TouchClock: the guard, then the row.
TouchFloor ==
    /\ At(Loop, "ready")
    /\ floor' = Later(floor, clock)
    /\ call' = [call EXCEPT ![Loop].pc = "touch", ![Loop].now = clock]
    /\ UNCHANGED <<lic, token, maxSeen, clock, revoked, crashes, torn>>

TouchRow ==
    /\ At(Loop, "touch")
    /\ maxSeen' = Later(maxSeen, call[Loop].now)
    /\ Finish(Loop)
    /\ UNCHANGED <<lic, floor, token, clock, revoked, crashes, torn>>

\* Mutant: the clock floor is not restored.
LoadFloorNot == clock

\* Load: the floor from the row, and from the clock when TouchClock follows.
LoadFloor == IF token = NoLicense THEN maxSeen ELSE Later(maxSeen, clock)

Restart ==
    /\ crashes < MaxCrashes
    /\ crashes' = crashes + 1
    /\ floor' = LoadFloor
    /\ lic' = IF token # NoLicense /\ Accepts(token, NoLicense, Later(clock, maxSeen)) THEN token ELSE NoLicense
    /\ maxSeen' = IF token = NoLicense THEN maxSeen ELSE Later(maxSeen, clock)
    /\ torn' = (torn \/ Between # {})
    /\ call' = [p \in Procs |-> IF p = Loop \/ At(p, "ready") THEN Fresh ELSE [Fresh EXCEPT !.pc = "done"]]
    /\ UNCHANGED <<token, clock, revoked>>

-------------------------------------------------------------------------------
(* Environment: the clock moves, backwards too; the server revokes. *)

SetClock(t) ==
    /\ t # clock /\ t <= clock + 1
    /\ clock' = t
    /\ UNCHANGED <<lic, floor, token, maxSeen, revoked, call, crashes, torn>>

Revoke(t) ==
    /\ t.bound /\ t \notin revoked
    /\ revoked' = revoked \cup {t}
    /\ UNCHANGED <<lic, floor, token, maxSeen, clock, call, crashes, torn>>

Heartbeat(p) ==
    \/ HeartbeatBegin(p) \/ HeartbeatRequest(p) \/ Receive(p) \/ Install(p) \/ Store(p)

Answered(p) == \E a \in Answers, t \in Licenses : ServerAnswers(p, a, t)

Next ==
    \/ \E p \in Procs :
          \/ Heartbeat(p) \/ Answered(p)
          \/ \E t \in Tokens : Upload(p, t)
          \/ \E key \in BOOLEAN : Activate(p, key)
    \/ TouchFloor \/ TouchRow \/ Restart
    \/ \E t \in 0..MaxClock : SetClock(t)
    \/ \E t \in Tokens : Revoke(t)

Spec == Init /\ [][Next]_vars

\* The loop beats again and again; an unreachable server answers some time.
Fairness ==
    /\ WF_vars(HeartbeatRequest(Loop) \/ Receive(Loop) \/ Install(Loop) \/ Store(Loop)
               \/ TouchRow \/ Answered(Loop))
    /\ SF_vars(HeartbeatBegin(Loop))
    /\ SF_vars(\E t \in Licenses : ServerAnswers(Loop, "revoked", t))

FairSpec == Spec /\ Fairness

-------------------------------------------------------------------------------
(* Properties *)

\* "Turning the clock back gains nothing": a license that had expired at a
\* time the row has recorded is never active again, across crashes between the
\* guard and the row and restarts on a clock that was set back.
ExpiredStaysExpired == lic # NoLicense /\ maxSeen >= lic.notAfter => DeviceStatus = "expired"

\* When no call is between the guard and the row, both hold the same license,
\* or the stored one has expired; unless two writers overlapped, a write of the
\* row failed or the process ended between the two.
StoredIsInForce ==
    Between = {} /\ ~torn =>
       lic = token \/ (lic = NoLicense /\ Later(clock, maxSeen) >= token.notAfter)
                   \/ (lic = NoLicense /\ crashes > 0 /\ floor >= token.notAfter)

\* A heartbeat takes away a license the server has revoked, or one that was
\* installed while the heartbeat about another was on its way.
LostOnlyWhenRevoked ==
    [][lic # NoLicense /\ lic' = NoLicense /\ crashes' = crashes =>
          lic \in revoked \/ \E p \in Procs : call[p].answer = "revoked" /\ call[p].sent # lic]_vars

\* A license is not replaced by one issued earlier, in a heartbeat answer that
\* was overtaken by an upload or the other way round, except after a restart or
\* a revocation took the newer one away.
NeverOlder == [][lic # NoLicense /\ lic' # NoLicense /\ crashes' = crashes => lic'.issued >= lic.issued]_vars

\* A revoked license that names a heartbeat address does not stay in force: the
\* loop learns of it, whatever answers were lost before.
RevocationArrives == \A t \in Tokens : (lic = t /\ t.online /\ t \in revoked) ~> lic # t

\* The guard and the row tell the same story, of the license and of the time,
\* through late answers, restarts and a clock that is set back.
GuardAgreesWithRow == TypeOK /\ ExpiredStaysExpired /\ StoredIsInForce

\* While the process lives, a license in force gives way only to one that was
\* not issued earlier, or to the answer that it, or the one before, is revoked.
GivesWayOnlyToNewer == LostOnlyWhenRevoked /\ NeverOlder
===============================================================================
