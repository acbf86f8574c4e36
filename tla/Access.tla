-------------------------------- MODULE Access --------------------------------
(* Panel sign-in and user administration: internal/auth with the session     *)
(* middleware and handlers of internal/api. A call is one HTTP request; each *)
(* of its actions is one statement or transaction, so two calls interleave   *)
(* between what one has read and what it writes.                             *)
EXTENDS Naturals, FiniteSets

CONSTANTS
    Users,        \* panel users
    Sessions,     \* session tokens
    Calls,        \* HTTP requests, each made once
    MaxFailures,  \* maxFailures
    Stories       \* initial states: records [row, session]

VARIABLES
    row,          \* table users
    session,      \* table sessions
    call,         \* requests in progress: what each has read
    \* observation of what the tables do not keep
    resets,       \* ResetMFA calls per user
    stale         \* writes that were overtaken by another call

vars == <<row, session, call, resets, stale>>

Roles == {"superadmin", "viewer"}

\* No row yet: CreateUser inserts it.
None == "none"

\* A password and a TOTP secret are the number of their replacement; secret 0
\* is NULL. locked says that locked_until is ahead.
UserRow == [role: Roles \cup {None}, active: BOOLEAN, failed: 0..MaxFailures - 1, locked: BOOLEAN,
            password: Nat, secret: Nat, enabled: BOOLEAN]

\* state: "free" (not issued), "open", "deleted". age: idle past idleTimeout,
\* over past expires_at. password: the one the login checked. late: that it was
\* replaced before the row was inserted. proof: resets when the code was checked.
SessionRow == [state: {"free", "open", "deleted"}, user: Users, mfa: BOOLEAN,
               age: {"fresh", "idle", "over"}, password: Nat, late: BOOLEAN, proof: Nat]

Steps == {"ready", "failure", "insert", "expired", "touch", "handle", "self", "update", "sessions",
          "code", "enable", "complete", "done"}

Ops == {"none", "login", "mfa", "setup", "enable", "logout", "admin", "reauth"}

Idle(u, s) == [pc |-> "ready", op |-> "none", user |-> u, sid |-> s, failed |-> 0, password |-> 0,
               mfa |-> FALSE, enabled |-> FALSE, role |-> "viewer", proof |-> 0,
               target |-> u, newRole |-> "viewer", newActive |-> TRUE]

\* A database the panel may start with: somebody administers it, active users
\* and users of open sessions have a role, and nobody was reset yet.
Story(i) ==
    /\ i.row \in [Users -> UserRow] /\ i.session \in [Sessions -> SessionRow]
    /\ \E u \in Users : i.row[u].role = "superadmin" /\ i.row[u].active
    /\ \A u \in Users : /\ i.row[u].active => i.row[u].role # None
                        /\ i.row[u].enabled => i.row[u].secret # 0
    /\ \A s \in Sessions : i.session[s].state = "open" =>
          LET r == i.session[s] IN
          /\ i.row[r.user].role # None
          /\ i.row[r.user].password = r.password \/ r.late
          /\ r.mfa => r.proof = 0

ConstantsOK ==
    /\ MaxFailures \in Nat \ {0}
    /\ Sessions # {}
    /\ \A i \in Stories : Story(i)

ASSUME AccessConstants == ConstantsOK

CallState ==
    [pc: Steps, op: Ops, user: Users, sid: Sessions, failed: 0..MaxFailures - 1, password: Nat,
     mfa: BOOLEAN, enabled: BOOLEAN, role: Roles, proof: Nat,
     target: Users, newRole: Roles, newActive: BOOLEAN]

TypeOK ==
    /\ row \in [Users -> UserRow]
    /\ session \in [Sessions -> SessionRow]
    /\ call \in [Calls -> CallState]
    /\ resets \in [Users -> Nat]
    /\ stale \subseteq {"update", "enable"}

Init ==
    /\ \E i \in Stories : row = i.row /\ session = i.session
    /\ call = [c \in Calls |-> Idle(CHOOSE u \in Users : TRUE, CHOOSE s \in Sessions : TRUE)]
    /\ resets = [u \in Users |-> 0]
    /\ stale = {}

-------------------------------------------------------------------------------
(* Helpers *)

At(c, pc) == call[c].pc = pc
Goto(c, pc) == call' = [call EXCEPT ![c].pc = pc]
Finish(c) == Goto(c, "done")
Handling(c, op) == At(c, "handle") /\ call[c].op = op

Open(s) == session[s].state = "open"
Admin(u) == row[u].role = "superadmin" /\ row[u].active

\* Mutant: sessions are left alone.
EndNoSessions(u) == session

EndSessions(u) ==
    [s \in Sessions |-> IF Open(s) /\ session[s].user = u
                        THEN [session[s] EXCEPT !.state = "deleted"] ELSE session[s]]

\* Mutant: the count is not reset when the lock is set.
FailureKept(u, failed) ==
    [row[u] EXCEPT !.failed = failed + 1, !.locked = (failed + 1 >= MaxFailures)]

\* recordFailure: the count comes from the row read earlier, the lock column is
\* written either way.
Failure(u, failed) ==
    IF failed + 1 >= MaxFailures THEN [row[u] EXCEPT !.failed = 0, !.locked = TRUE]
    ELSE [row[u] EXCEPT !.failed = failed + 1, !.locked = FALSE]

-------------------------------------------------------------------------------
(* Login *)

LoginRead(c, u) ==
    /\ At(c, "ready")
    /\ \/ /\ ~row[u].active \/ row[u].locked
          /\ Finish(c)
       \/ /\ row[u].active /\ ~row[u].locked
          /\ \E pc \in {"failure", "insert"} :
                call' = [call EXCEPT ![c].pc = pc, ![c].op = "login", ![c].user = u,
                                     ![c].failed = row[u].failed, ![c].password = row[u].password]
    /\ UNCHANGED <<row, session, resets, stale>>

\* Wrong password or wrong code, in Login, checkCode and Reauthenticate.
RecordFailure(c) ==
    /\ At(c, "failure")
    /\ row' = [row EXCEPT ![call[c].user] = Failure(call[c].user, call[c].failed)]
    /\ Finish(c)
    /\ UNCHANGED <<session, resets, stale>>

LoginInsert(c, s) ==
    /\ At(c, "insert")
    /\ session[s].state = "free"
    /\ session' = [session EXCEPT ![s] =
          [state |-> "open", user |-> call[c].user, mfa |-> FALSE, age |-> "fresh",
           password |-> call[c].password, late |-> call[c].password # row[call[c].user].password,
           proof |-> 0]]
    /\ Finish(c)
    /\ UNCHANGED <<row, resets, stale>>

-------------------------------------------------------------------------------
(* loadSession and Authenticate: the handler works on what was read here. *)

Visible(s) == Open(s) /\ row[session[s].user].active

AuthRead(c, s, op) ==
    /\ At(c, "ready")
    /\ op \in Ops \ {"none", "login"}
    /\ \/ ~Visible(s) /\ Finish(c)
       \/ LET u == session[s].user IN
          /\ Visible(s)
          /\ call' = [call EXCEPT ![c] =
                [@ EXCEPT !.pc = IF session[s].age = "fresh" THEN "touch" ELSE "expired",
                          !.op = op, !.sid = s, !.user = u, !.mfa = session[s].mfa,
                          !.enabled = row[u].enabled, !.role = row[u].role]]
    /\ UNCHANGED <<row, session, resets, stale>>

AuthExpired(c) ==
    /\ At(c, "expired")
    /\ session' = [session EXCEPT ![call[c].sid].state = "deleted"]
    /\ Finish(c)
    /\ UNCHANGED <<row, resets, stale>>

AuthTouch(c) ==
    /\ At(c, "touch")
    /\ session' = [session EXCEPT ![call[c].sid].age = IF @ = "idle" THEN "fresh" ELSE @]
    /\ Goto(c, "handle")
    /\ UNCHANGED <<row, resets, stale>>

Logout(c) ==
    /\ Handling(c, "logout")
    /\ session' = [session EXCEPT ![call[c].sid].state = "deleted"]
    /\ Finish(c)
    /\ UNCHANGED <<row, resets, stale>>

-------------------------------------------------------------------------------
(* Two-factor steps of a session that passed the password *)

BeginTOTPSetup(c) ==
    /\ Handling(c, "setup")
    /\ LET u == call[c].user IN
       row' = IF ~call[c].enabled /\ ~row[u].enabled
              THEN [row EXCEPT ![u].secret = @ + 1] ELSE row
    /\ Finish(c)
    /\ UNCHANGED <<session, resets, stale>>

\* VerifyMFA needs TOTP enabled when the session was loaded, EnableTOTP not.
MFAStart(c) ==
    /\ call[c].op \in {"mfa", "enable"} /\ At(c, "handle")
    /\ Goto(c, IF call[c].enabled = (call[c].op = "mfa") THEN "code" ELSE "done")
    /\ UNCHANGED <<row, session, resets, stale>>

\* Reauthenticate first confirms the password, for a fully signed-in user.
ReauthPassword(c) ==
    LET u == call[c].user IN
    /\ Handling(c, "reauth")
    /\ \/ (~call[c].mfa \/ row[u].locked) /\ Finish(c)
       \/ /\ call[c].mfa /\ ~row[u].locked
          /\ \E pc \in {"failure", "code"} :
                call' = [call EXCEPT ![c].pc = pc, ![c].failed = row[u].failed]
    /\ UNCHANGED <<row, session, resets, stale>>

\* What the handler does with a right code.
AfterCode(op) ==
    CASE op = "mfa" -> "complete" [] op = "enable" -> "enable" [] op = "reauth" -> "done"

CheckCode(c) ==
    LET u == call[c].user IN
    /\ At(c, "code")
    /\ \/ (row[u].locked \/ row[u].secret = 0) /\ Finish(c)
       \/ /\ ~row[u].locked /\ row[u].secret # 0
          /\ \E pc \in {AfterCode(call[c].op), "failure"} :
                call' = [call EXCEPT ![c].pc = pc, ![c].failed = row[u].failed,
                                     ![c].proof = resets[u]]
    /\ UNCHANGED <<row, session, resets, stale>>

EnableTOTP(c) ==
    /\ At(c, "enable")
    /\ row' = [row EXCEPT ![call[c].user].enabled = TRUE]
    /\ stale' = IF row[call[c].user].secret = 0 THEN stale \cup {"enable"} ELSE stale
    /\ Goto(c, "complete")
    /\ UNCHANGED <<session, resets>>

CompleteLogin(c) ==
    LET u == call[c].user  s == call[c].sid IN
    /\ At(c, "complete")
    /\ session' = IF Open(s) THEN [session EXCEPT ![s].mfa = TRUE, ![s].proof = call[c].proof]
                  ELSE session
    /\ row' = [row EXCEPT ![u].failed = 0, ![u].locked = FALSE]
    /\ Finish(c)
    /\ UNCHANGED <<resets, stale>>

-------------------------------------------------------------------------------
(* Administration: requirePerm decides on the session as it was loaded *)

Permitted(c) == call[c].mfa /\ call[c].role = "superadmin"

AdminDenied(c) ==
    /\ Handling(c, "admin") /\ ~Permitted(c)
    /\ Finish(c)
    /\ UNCHANGED <<row, session, resets, stale>>

\* CreateUser, in the panel and by the create-admin command.
CreateUser(c, u, role) ==
    /\ Handling(c, "admin") /\ Permitted(c)
    /\ row[u].role = None
    /\ row' = [row EXCEPT ![u] = [role |-> role, active |-> TRUE, failed |-> 0, locked |-> FALSE,
                                  password |-> 1, secret |-> 0, enabled |-> FALSE]]
    /\ Finish(c)
    /\ UNCHANGED <<session, resets, stale>>

\* UpdateUser: a user's own row is read first, to compare the role.
UpdateStart(c, u, role, active) ==
    /\ Handling(c, "admin") /\ Permitted(c)
    /\ call' = [call EXCEPT ![c] =
          [@ EXCEPT !.pc = IF u = call[c].user THEN "self" ELSE "update",
                    !.target = u, !.newRole = role, !.newActive = active]]
    /\ UNCHANGED <<row, session, resets, stale>>

\* Mutant: only deactivating oneself is refused.
SelfAllowedActive(c) == call[c].newActive

SelfAllowed(c) == row[call[c].user].role = call[c].newRole /\ call[c].newActive

UpdateSelf(c) ==
    /\ At(c, "self")
    /\ Goto(c, IF SelfAllowed(c) THEN "update" ELSE "done")
    /\ stale' = IF SelfAllowed(c) /\ ~Admin(call[c].user) THEN stale \cup {"update"} ELSE stale
    /\ UNCHANGED <<row, session, resets>>

UpdateWrite(c) ==
    LET u == call[c].target IN
    /\ At(c, "update")
    /\ row' = [row EXCEPT ![u].role = call[c].newRole, ![u].active = call[c].newActive]
    /\ stale' = IF Admin(call[c].user) THEN stale ELSE stale \cup {"update"}
    /\ Goto(c, IF call[c].newActive THEN "done" ELSE "sessions")
    /\ UNCHANGED <<session, resets>>

UpdateSessions(c) ==
    /\ At(c, "sessions")
    /\ session' = EndSessions(call[c].target)
    /\ Finish(c)
    /\ UNCHANGED <<row, resets, stale>>

SetPassword(c, u) ==
    /\ Handling(c, "admin") /\ Permitted(c)
    /\ row' = [row EXCEPT ![u].password = @ + 1, ![u].failed = 0, ![u].locked = FALSE]
    /\ session' = EndSessions(u)
    /\ Finish(c)
    /\ UNCHANGED <<resets, stale>>

\* Mutants: the reset leaves the sessions open; it forgets the flag.
ResetOnlyRow(c, u) ==
    /\ Handling(c, "admin") /\ Permitted(c)
    /\ row' = [row EXCEPT ![u].enabled = FALSE, ![u].secret = 0]
    /\ resets' = [resets EXCEPT ![u] = @ + 1]
    /\ Finish(c)
    /\ UNCHANGED <<session, stale>>

ResetKeepsEnabled(c, u) ==
    /\ Handling(c, "admin") /\ Permitted(c)
    /\ row' = [row EXCEPT ![u].secret = 0]
    /\ session' = EndSessions(u)
    /\ resets' = [resets EXCEPT ![u] = @ + 1]
    /\ Finish(c)
    /\ UNCHANGED stale

ResetMFA(c, u) ==
    /\ Handling(c, "admin") /\ Permitted(c)
    /\ row' = [row EXCEPT ![u].enabled = FALSE, ![u].secret = 0]
    /\ session' = EndSessions(u)
    /\ resets' = [resets EXCEPT ![u] = @ + 1]
    /\ Finish(c)
    /\ UNCHANGED stale

Unlock(c, u) ==
    /\ Handling(c, "admin") /\ Permitted(c)
    /\ row' = [row EXCEPT ![u].failed = 0, ![u].locked = FALSE]
    /\ Finish(c)
    /\ UNCHANGED <<session, resets, stale>>

-------------------------------------------------------------------------------
(* Time *)

LockEnds(u) ==
    /\ row[u].locked
    /\ row' = [row EXCEPT ![u].locked = FALSE]
    /\ UNCHANGED <<session, call, resets, stale>>

SessionAges(s) ==
    /\ Open(s) /\ session[s].age # "over"
    /\ \E age \in {"idle", "over"} \ {session[s].age} :
          session' = [session EXCEPT ![s].age = age]
    /\ UNCHANGED <<row, call, resets, stale>>

Administration(c) ==
    \/ AdminDenied(c) \/ UpdateSelf(c) \/ UpdateWrite(c) \/ UpdateSessions(c)
    \/ \E u \in Users, role \in Roles : CreateUser(c, u, role)
    \/ \E u \in {v \in Users : row[v].role # None} :
          \/ SetPassword(c, u) \/ ResetMFA(c, u) \/ Unlock(c, u)
          \/ \E role \in Roles, active \in BOOLEAN : UpdateStart(c, u, role, active)

SignIn(c) ==
    \/ \E u \in Users : LoginRead(c, u)
    \/ \E s \in Sessions : LoginInsert(c, s)
    \/ RecordFailure(c) \/ MFAStart(c) \/ CheckCode(c) \/ EnableTOTP(c) \/ CompleteLogin(c)
    \/ BeginTOTPSetup(c) \/ ReauthPassword(c) \/ Logout(c)

Authenticate(c) ==
    \/ \E s \in Sessions, op \in Ops : AuthRead(c, s, op)
    \/ AuthExpired(c) \/ AuthTouch(c)

Next ==
    \/ \E c \in Calls : SignIn(c) \/ Authenticate(c) \/ Administration(c)
    \/ \E u \in Users : LockEnds(u)
    \/ \E s \in Sessions : SessionAges(s)

Spec == Init /\ [][Next]_vars

-------------------------------------------------------------------------------
(* Properties *)

\* A session counts as signed in only by a code that was checked since the
\* user's last ResetMFA: a reset in the middle of VerifyMFA or EnableTOTP takes
\* the session away before completeLogin can mark it.
GrantedSinceReset ==
    \A s \in Sessions : Open(s) /\ session[s].mfa => session[s].proof = resets[session[s].user]

\* "SetPassword replaces a user's password and ends their sessions": a session
\* opened with an earlier password remains only when its Login had read the
\* user before and inserted the row after.
OldPasswordOnlyByRace ==
    \A s \in Sessions : Open(s) => \/ session[s].password = row[session[s].user].password
                                   \/ session[s].late

\* An administrator remains, unless an UpdateUser compared or wrote for an actor
\* who was demoted or deactivated after the permission check.
AdminRemains == (\E u \in Users : Admin(u)) \/ "update" \in stale

\* A user with two-factor enabled has a secret to check codes with, unless a
\* ResetMFA came between the code check and the UPDATE of EnableTOTP.
EnabledHasSecret == \A u \in Users : row[u].enabled => row[u].secret # 0 \/ "enable" \in stale

\* ResetMFA takes the second factor away as a whole, in the middle of any
\* sign-in: neither a session nor an enabled flag survives that rests on it.
SecondFactorHolds == TypeOK /\ GrantedSinceReset /\ EnabledHasSecret
===============================================================================
