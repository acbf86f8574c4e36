-------------------------------- MODULE Radius --------------------------------
(* Two-factor sign-in over RADIUS: a packet of a firewall with a password is   *)
(* answered by a challenge, the next one carries the code of the SMS           *)
(* (internal/radiussrv, internal/otp). Packets are handled concurrently and    *)
(* may be repeated; each action is one statement or one critical section.      *)
EXTENDS Naturals, FiniteSets

CONSTANTS
    Users,        \* two-factor users, each with a mobile of its own
    Packets,      \* packets, in the order of arrival or not
    States,       \* challenge states, handed out once
    NoState,      \* a packet without the State attribute
    MaxAttempts,  \* policy: wrong codes per challenge
    MaxSends,     \* policy: codes per mobile in ten minutes
    MaxFailures,  \* policy: failed sign-ins before a lockout
    MaxEvents     \* bound on changes in the panel and process restarts

ASSUME RadiusConstants ==
    /\ Users # {} /\ NoState \notin States
    /\ {MaxAttempts, MaxSends, MaxFailures} \subseteq Nat \ {0}
    /\ MaxEvents \in Nat

VARIABLES
    user,       \* table otp_users
    sent,       \* rows 'sent' of sms_messages: logged for a user's mobile in ten minutes
    challenge,  \* Service.challenges, in memory
    client,     \* table radius_clients: the firewall's row
    cache,      \* Server.clients and loaded, in memory
    admin,      \* a call of SetClient or RotateSecret
    require,    \* setting RequireMessageAuthenticator
    packet,     \* packets being handled
    events,
    \* observation
    wrong,      \* wrong codes compared with a challenge
    tries,      \* failures counted since the last lock, unlock or success
    raced       \* users with overlapping failures, or overlapping sends

vars == <<user, sent, challenge, client, cache, admin, require, packet, events, wrong, tries, raced>>
panelVars == <<client, cache, admin, require>>

UserRow == [exists: BOOLEAN, active: BOOLEAN, locked: BOOLEAN, failed: 0..MaxFailures - 1]
Challenge == [state: {"unused", "open", "expired", "deleted"}, user: Users, attempts: 0..MaxAttempts]
ClientRow == [enabled: BOOLEAN, secret: 0..MaxEvents]

\* user: the name it carries. of: the row that was read. right: the password
\* or the code is the right one. seen: a count that was read.
Packet == [pc: {"new", "password", "fail", "rate", "send", "open", "verify", "exhausted",
                "recheck", "clear", "done"},
           user: Users, of: Users, state: States \cup {NoState}, right: BOOLEAN,
           seen: Nat,
           answer: {"none", "drop", "reject", "challenge", "accept"}]

NewPacket == [pc |-> "new", user |-> CHOOSE u \in Users : TRUE, of |-> CHOOSE u \in Users : TRUE,
              state |-> NoState, right |-> FALSE, seen |-> 0,
              answer |-> "none"]

TypeOK ==
    /\ user \in [Users -> UserRow]
    /\ sent \in [Users -> Nat]
    /\ challenge \in [States -> Challenge]
    /\ client \in ClientRow
    /\ cache \in [loaded: BOOLEAN, row: ClientRow]
    /\ admin \in {"idle", "invalidate"}
    /\ require \in BOOLEAN
    /\ packet \in [Packets -> Packet]
    /\ events \in 0..MaxEvents
    /\ wrong \in [States -> Nat] /\ tries \in [Users -> Nat] /\ raced \subseteq Users \X {"fail", "send"}

Init ==
    /\ user = [u \in Users |-> [exists |-> TRUE, active |-> TRUE, locked |-> FALSE, failed |-> 0]]
    /\ sent = [u \in Users |-> 0]
    /\ challenge = [s \in States |-> [state |-> "unused", user |-> NewPacket.user, attempts |-> 0]]
    /\ client = [enabled |-> TRUE, secret |-> 0]
    /\ cache = [loaded |-> FALSE, row |-> client]
    /\ admin = "idle" /\ require \in BOOLEAN
    /\ packet = [p \in Packets |-> NewPacket]
    /\ events = 0
    /\ wrong = [s \in States |-> 0] /\ tries = [u \in Users |-> 0] /\ raced = {}

-------------------------------------------------------------------------------
(* Helpers *)

At(p, pc) == packet[p].pc = pc
Goto(p, pc) == packet' = [packet EXCEPT ![p].pc = pc]

\* What a handled packet leaves behind: its answer, and for whom.
Answer(p, a) ==
    packet' = [packet EXCEPT ![p] = IF a = "accept" THEN [@ EXCEPT !.pc = "done", !.answer = a]
                                    ELSE [NewPacket EXCEPT !.pc = "done", !.answer = a]]

Usable(u) == user[u].exists /\ user[u].active /\ ~user[u].locked
Event == events < MaxEvents /\ events' = events + 1
Open(s) == s \in States /\ challenge[s].state = "open"

-------------------------------------------------------------------------------
(* RADIUSSecret, lookup and ServeRADIUS *)

\* lookup: the cached clients, loaded again a minute after the last time or
\* after invalidate; all under Server.mu.
Looked == IF cache.loaded THEN cache.row ELSE client

\* A packet signed and encrypted under a secret. It is dropped when its source
\* has no secret, its Message-Authenticator is not valid, or it has none (auth)
\* although the settings require one.
Arrive(p, u, s, right, secret, auth) ==
    LET same == secret = Looked.secret
        drop == ~Looked.enabled \/ (auth /\ ~same) \/ (~auth /\ require)
    IN
    /\ At(p, "new")
    /\ secret <= client.secret
    /\ cache' = [loaded |-> TRUE, row |-> Looked]
    /\ packet' = [packet EXCEPT ![p] =
          IF drop THEN [@ EXCEPT !.pc = "done", !.answer = "drop"]
          ELSE [@ EXCEPT !.pc = IF s = NoState THEN "password" ELSE "verify",
                         !.user = u, !.state = s, !.right = right /\ same]]
    /\ UNCHANGED <<user, sent, challenge, client, admin, require, events, wrong, tries, raced>>

-------------------------------------------------------------------------------
(* CheckPassword and StartChallenge *)

\* ldapCheck cannot reach the directory, or the license has no users left: no
\* failure is counted.
DirectoryFails(p) ==
    /\ At(p, "password") /\ Usable(packet[p].user)
    /\ Answer(p, "reject")
    /\ UNCHANGED <<user, sent, challenge, panelVars, events, wrong, tries, raced>>

CheckPassword(p) ==
    LET u == packet[p].user IN
    /\ At(p, "password")
    /\ \/ ~Usable(u) /\ Answer(p, "reject")
       \/ /\ Usable(u)
          /\ packet' = [packet EXCEPT ![p].pc = IF packet[p].right THEN "rate" ELSE "fail",
                                      ![p].of = u, ![p].seen = user[u].failed]
    /\ UNCHANGED <<user, sent, challenge, panelVars, events, wrong, tries, raced>>

\* Mutant: the lock comes one failure late.
FailLate(u, failed) ==
    IF failed >= MaxFailures THEN [user[u] EXCEPT !.failed = 0, !.locked = TRUE]
    ELSE [user[u] EXCEPT !.failed = failed + 1, !.locked = FALSE]

\* Mutant: the count starts again without a lock.
FailNoLock(u, failed) == [user[u] EXCEPT !.failed = (failed + 1) % MaxFailures, !.locked = FALSE]

\* fail: the count of the row that was read, and the lock column in any case.
Failed(u, failed) ==
    IF failed + 1 >= MaxFailures THEN [user[u] EXCEPT !.failed = 0, !.locked = TRUE]
    ELSE [user[u] EXCEPT !.failed = failed + 1, !.locked = FALSE]

Fail(p) ==
    LET u == packet[p].of  f == Failed(u, packet[p].seen) IN
    /\ At(p, "fail")
    /\ user' = IF user[u].exists THEN [user EXCEPT ![u] = f] ELSE user
    /\ tries' = [tries EXCEPT ![u] = IF f.locked THEN 0 ELSE @ + 1]
    /\ raced' = IF user[u].failed # packet[p].seen \/ user[u].locked
                THEN raced \cup {<<u, "fail">>} ELSE raced
    /\ Answer(p, "reject")
    /\ UNCHANGED <<sent, challenge, panelVars, events, wrong>>

\* Mutant: the limit is exceeded by one.
MayStill(n) == n <= MaxSends

MaySend(n) == n < MaxSends

RateLimit(p) ==
    LET u == packet[p].of IN
    /\ At(p, "rate")
    /\ IF MaySend(sent[u])
       THEN packet' = [packet EXCEPT ![p].pc = "send", ![p].seen = sent[u]]
       ELSE Answer(p, "reject")
    /\ UNCHANGED <<user, sent, challenge, panelVars, events, wrong, tries, raced>>

\* The provider takes the message, or it refuses it or its answer is lost: the
\* message is then logged as failed and not counted, though it may arrive.
SendCode(p) ==
    LET u == packet[p].of IN
    /\ At(p, "send")
    /\ \/ /\ sent' = [sent EXCEPT ![u] = @ + 1]
          /\ raced' = IF sent[u] # packet[p].seen THEN raced \cup {<<u, "send">>} ELSE raced
          /\ packet' = [packet EXCEPT ![p].pc = "open", ![p].seen = 0]
       \/ Answer(p, "reject") /\ UNCHANGED <<sent, raced>>
    /\ UNCHANGED <<user, challenge, panelVars, events, wrong, tries>>

\* Expired challenges are swept at the same time.
OpenChallenge(p, s) ==
    /\ At(p, "open")
    /\ challenge[s].state = "unused"
    /\ challenge' = [t \in States |->
          IF t = s THEN [state |-> "open", user |-> packet[p].of, attempts |-> 0]
          ELSE IF challenge[t].state = "expired" THEN [challenge[t] EXCEPT !.state = "deleted"]
          ELSE challenge[t]]
    /\ Answer(p, "challenge")
    /\ UNCHANGED <<user, sent, panelVars, events, wrong, tries, raced>>

-------------------------------------------------------------------------------
(* VerifyChallenge: the comparison and the delete are under Service.mu, the  *)
(* user's row is read after the unlock.                                      *)

VerifyUnknown(p) ==
    LET s == packet[p].state IN
    /\ At(p, "verify") /\ ~Open(s)
    /\ challenge' = [challenge EXCEPT ![s].state = IF @ = "unused" THEN @ ELSE "deleted"]
    /\ Answer(p, "reject")
    /\ UNCHANGED <<user, sent, panelVars, events, wrong, tries, raced>>

\* Mutant: the last attempt leaves the challenge open.
LeftOneMore(n) == n <= MaxAttempts

\* Attempts are left after the n-th wrong code.
Left(n) == n < MaxAttempts

VerifyWrong(p) ==
    LET s == packet[p].state  n == challenge[s].attempts + 1 IN
    /\ At(p, "verify") /\ Open(s) /\ ~packet[p].right
    /\ challenge' = [challenge EXCEPT ![s].attempts = IF Left(n) THEN n ELSE 0,
                                      ![s].state = IF Left(n) THEN "open" ELSE "deleted"]
    /\ wrong' = [wrong EXCEPT ![s] = @ + 1]
    /\ IF Left(n) THEN Answer(p, "challenge")
       ELSE packet' = [packet EXCEPT ![p].pc = "exhausted", ![p].of = challenge[s].user]
    /\ UNCHANGED <<user, sent, panelVars, events, tries, raced>>

\* The user is read for the failure that exhaustion counts as.
Exhausted(p) ==
    LET u == packet[p].of IN
    /\ At(p, "exhausted")
    /\ IF user[u].exists THEN packet' = [packet EXCEPT ![p].pc = "fail", ![p].seen = user[u].failed]
       ELSE Answer(p, "reject")
    /\ UNCHANGED <<user, sent, challenge, panelVars, events, wrong, tries, raced>>

\* Mutant: a challenge stays until it expires.
KeepChallenge(s) == challenge

DeleteChallenge(s) == [challenge EXCEPT ![s].state = "deleted"]

VerifyRight(p) ==
    LET s == packet[p].state IN
    /\ At(p, "verify") /\ Open(s) /\ packet[p].right
    /\ challenge' = DeleteChallenge(s)
    /\ packet' = [packet EXCEPT ![p].pc = "recheck", ![p].of = challenge[s].user]
    /\ UNCHANGED <<user, sent, panelVars, events, wrong, tries, raced>>

Recheck(p) ==
    /\ At(p, "recheck")
    /\ IF Usable(packet[p].of) THEN Goto(p, "clear") ELSE Answer(p, "reject")
    /\ UNCHANGED <<user, sent, challenge, panelVars, events, wrong, tries, raced>>

\* Mutant: whoever sends the code is accepted.
AnyName(p) == TRUE

\* The code belongs to the user the packet names.
SameName(p) == packet[p].of = packet[p].user

\* The failures are cleared, then the names compared.
Clear(p) ==
    LET u == packet[p].of IN
    /\ At(p, "clear")
    /\ user' = IF user[u].exists THEN [user EXCEPT ![u].failed = 0, ![u].locked = FALSE] ELSE user
    /\ tries' = [tries EXCEPT ![u] = 0]
    /\ Answer(p, IF SameName(p) THEN "accept" ELSE "reject")
    /\ UNCHANGED <<sent, challenge, panelVars, events, wrong, raced>>

-------------------------------------------------------------------------------
(* Administration *)

\* Update of active, Delete, Unlock. (Create is a matter of capacity.)
SetActive(u, b) ==
    /\ Event
    /\ user[u].exists /\ user[u].active # b
    /\ user' = [user EXCEPT ![u].active = b]
    /\ UNCHANGED <<sent, challenge, panelVars, packet, wrong, tries, raced>>

Delete(u) ==
    /\ Event
    /\ user[u].exists
    /\ user' = [user EXCEPT ![u] = [exists |-> FALSE, active |-> FALSE, locked |-> FALSE, failed |-> 0]]
    /\ UNCHANGED <<sent, challenge, panelVars, packet, wrong, tries, raced>>

Unlock(u) ==
    /\ Event
    /\ user[u].exists
    /\ user' = [user EXCEPT ![u].failed = 0, ![u].locked = FALSE]
    /\ tries' = [tries EXCEPT ![u] = 0]
    /\ UNCHANGED <<sent, challenge, panelVars, packet, wrong, raced>>

\* SetClient switches the client on or off, RotateSecret replaces the secret.
WriteClient(row) ==
    /\ Event
    /\ admin = "idle" /\ row # client
    /\ client' = row
    /\ admin' = "invalidate"
    /\ UNCHANGED <<user, sent, challenge, cache, require, packet, wrong, tries, raced>>

SetClient(b) == WriteClient([client EXCEPT !.enabled = b])
RotateSecret == WriteClient([client EXCEPT !.secret = @ + 1])

\* Mutant: the cached clients are kept.
InvalidateNot ==
    /\ admin = "invalidate"
    /\ admin' = "idle"
    /\ UNCHANGED <<user, sent, challenge, client, cache, require, packet, events, wrong, tries, raced>>

Invalidate ==
    /\ admin = "invalidate"
    /\ cache' = [cache EXCEPT !.loaded = FALSE]
    /\ admin' = "idle"
    /\ UNCHANGED <<user, sent, challenge, client, require, packet, events, wrong, tries, raced>>

SaveConfig(b) ==
    /\ Event
    /\ require # b
    /\ require' = b
    /\ UNCHANGED <<user, sent, challenge, client, cache, admin, packet, wrong, tries, raced>>

-------------------------------------------------------------------------------
(* Time and restarts *)

Expire(s) ==
    /\ challenge[s].state = "open"
    /\ challenge' = [challenge EXCEPT ![s].state = "expired"]
    /\ UNCHANGED <<user, sent, panelVars, packet, events, wrong, tries, raced>>

\* A minute after it was loaded the cache no longer counts.
CacheAges ==
    /\ cache.loaded
    /\ cache' = [cache EXCEPT !.loaded = FALSE]
    /\ UNCHANGED <<user, sent, challenge, client, admin, require, packet, events, wrong, tries, raced>>

LockEnds(u) ==
    /\ user[u].locked
    /\ user' = [user EXCEPT ![u].locked = FALSE]
    /\ UNCHANGED <<sent, challenge, panelVars, packet, events, wrong, tries, raced>>

\* Challenges, cache and packets are in memory.
Restart ==
    /\ Event
    /\ challenge' = [s \in States |-> IF challenge[s].state = "unused" THEN challenge[s]
                                      ELSE [challenge[s] EXCEPT !.state = "deleted"]]
    /\ cache' = [cache EXCEPT !.loaded = FALSE]
    /\ admin' = "idle"
    /\ packet' = [p \in Packets |-> IF packet[p].pc \in {"new", "done"} THEN packet[p]
                                    ELSE [NewPacket EXCEPT !.pc = "done", !.answer = "drop"]]
    /\ UNCHANGED <<user, sent, client, require, wrong, tries, raced>>

Handle(p) ==
    \/ \E u \in Users, s \in States \cup {NoState}, right, auth \in BOOLEAN, k \in 0..MaxEvents :
          Arrive(p, u, s, right, k, auth)
    \/ CheckPassword(p) \/ DirectoryFails(p) \/ Fail(p) \/ RateLimit(p) \/ SendCode(p)
    \/ \E s \in States : OpenChallenge(p, s)
    \/ VerifyUnknown(p) \/ VerifyWrong(p) \/ Exhausted(p) \/ VerifyRight(p) \/ Recheck(p) \/ Clear(p)

Panel ==
    \/ \E u \in Users : Delete(u) \/ Unlock(u) \/ \E b \in BOOLEAN : SetActive(u, b)
    \/ \E b \in BOOLEAN : SetClient(b) \/ SaveConfig(b)
    \/ RotateSecret \/ Invalidate

Next ==
    \/ \E p \in Packets : Handle(p)
    \/ Panel
    \/ \E s \in States : Expire(s)
    \/ \E u \in Users : LockEnds(u)
    \/ CacheAges \/ Restart

Spec == Init /\ [][Next]_vars

-------------------------------------------------------------------------------
(* Properties *)

\* A challenge is accepted at most once: of two copies of the packet that
\* carries the code, one finds the challenge gone.
AcceptedOnce ==
    \A p, q \in Packets : p # q /\ packet[p].answer = "accept" /\ packet[q].answer = "accept"
                          => packet[p].state # packet[q].state

\* Access-Accept goes to the user whose password opened the challenge.
AcceptedIsOwner ==
    \A p \in Packets : packet[p].answer = "accept" => challenge[packet[p].state].user = packet[p].user

\* No challenge is compared with more wrong codes than the policy allows,
\* however the packets interleave.
AttemptsBounded == \A s \in States : wrong[s] <= MaxAttempts

\* No more codes than MaxSends are logged as sent to a mobile, unless two packets
\* of its user were between the count and the message at the same time.
SendsBounded == \A u \in Users : sent[u] <= MaxSends \/ <<u, "send">> \in raced

\* A user's row counts every failure since the last lock, unlock or success,
\* unless two packets of the user failed at the same time.
FailuresCounted ==
    \A u \in Users : user[u].exists => \/ user[u].failed = tries[u] /\ tries[u] < MaxFailures
                                       \/ <<u, "fail">> \in raced

\* Once SetClient or RotateSecret has returned, no packet is served with the
\* cached row it replaced.
CacheIsCurrent == admin = "idle" /\ cache.loaded => cache.row = client

\* A code that was sent lets its owner in, once, and can be guessed at only as
\* often as the policy says, however the packets of a sign-in interleave.
CodesAreSafe == TypeOK /\ AcceptedOnce /\ AcceptedIsOwner /\ AttemptsBounded

\* The counters that limit codes and failed sign-ins count every one logged, but for
\* packets of one user that overlapped between the read and the write.
CountsHold == SendsBounded /\ FailuresCounted
===============================================================================
