----------------------------- MODULE AccessProofs -----------------------------
(* The properties of Access for any number of users, sessions and requests,     *)
(* from any database that is a Story. All of them are parts of one inductive    *)
(* invariant, AccessInv, which says in addition what a request between two      *)
(* statements still may rely on.                                                *)
EXTENDS Access, TLAPS

\* A session once issued keeps its user: a call works on the one it read.
OnSession(c) ==
    call[c].pc \in {"expired", "touch", "handle", "code", "enable", "complete"} =>
       session[call[c].sid].state # "free" /\ session[call[c].sid].user = call[c].user

\* A login inserts for a user that exists.
LoginHasRow(c) == call[c].pc = "insert" => row[call[c].user].role # None

\* Only these three operations check a code.
CodeHasOp(c) == call[c].pc = "code" => call[c].op \in {"mfa", "enable", "reauth"}

\* A checked code is still good as long as the session is there.
CodeIsCurrent(c) ==
    call[c].pc \in {"enable", "complete"} /\ Open(call[c].sid) => call[c].proof = resets[call[c].user]

\* An own update gives nothing away, unless it compared an overtaken row.
OwnUpdateKeeps(c) ==
    call[c].pc = "update" /\ call[c].target = call[c].user =>
       call[c].newActive /\ (call[c].newRole = "superadmin" \/ "update" \in stale)

\* What every call under way has in hand.
CallsHold ==
    \A c \in Calls : OnSession(c) /\ LoginHasRow(c) /\ CodeHasOp(c) /\ CodeIsCurrent(c) /\ OwnUpdateKeeps(c)

\* Who can sign in or is signed in has a role: the row was created.
RowsHold ==
    /\ \A u \in Users : row[u].active => row[u].role # None
    /\ \A s \in Sessions : Open(s) => row[session[s].user].role # None

\* What the runs check, without the types.
Safe == GrantedSinceReset /\ EnabledHasSecret /\ OldPasswordOnlyByRace /\ AdminRemains

\* The inductive invariant.
AccessInv == TypeOK /\ CallsHold /\ RowsHold /\ Safe

\* The counter may be reset: at least one failure is allowed.
LEMMA ZeroFailures == 0 \in 0..MaxFailures - 1 /\ MaxFailures \in Nat \ {0}
BY AccessConstants DEF ConstantsOK

\* A call that only moves on keeps what it has read.
LEMMA GotoType ==
    ASSUME call \in [Calls -> CallState], NEW c \in Calls, NEW pc \in Steps, Goto(c, pc)
    PROVE  call' \in [Calls -> CallState]
<1>1. call' = [call EXCEPT ![c] = [call[c] EXCEPT !.pc = pc]]
  BY DEF Goto
<1>2. [call[c] EXCEPT !.pc = pc] \in CallState
  BY DEF CallState
<1>. QED
  BY <1>1, <1>2

\* The last step of a request.
LEMMA FinishType ==
    ASSUME call \in [Calls -> CallState], NEW c \in Calls, Finish(c)
    PROVE  call' \in [Calls -> CallState]
<1>1. "done" \in Steps
  BY DEF Steps
<1>. QED
  BY <1>1, GotoType DEF Finish

\* Ending a user's sessions changes their state only.
LEMMA EndedType ==
    ASSUME session \in [Sessions -> SessionRow], NEW u \in Users, session' = EndSessions(u)
    PROVE  session' \in [Sessions -> SessionRow]
<1>1. ASSUME NEW s \in Sessions PROVE [session[s] EXCEPT !.state = "deleted"] \in SessionRow
  BY DEF SessionRow
<1>. QED
  BY <1>1 DEF EndSessions

\* A call that has only read goes on with what it read: its own record has to
\* fit the tables, everything else is as before.
LEMMA ReadOnly ==
    ASSUME AccessInv, NEW c \in Calls, NEW r \in CallState, call' = [call EXCEPT ![c] = r],
           UNCHANGED <<row, session, resets, stale>>,
           r.pc \in {"expired", "touch", "handle", "code", "enable", "complete"} =>
              session[r.sid].state # "free" /\ session[r.sid].user = r.user,
           r.pc = "insert" => row[r.user].role # None,
           r.pc = "code" => r.op \in {"mfa", "enable", "reauth"},
           r.pc \in {"enable", "complete"} /\ Open(r.sid) => r.proof = resets[r.user],
           r.pc = "update" /\ r.target = r.user =>
              r.newActive /\ (r.newRole = "superadmin" \/ "update" \in stale)
    PROVE  AccessInv'
<1>1. TypeOK'
  BY DEF AccessInv, TypeOK
<1>2. RowsHold' /\ Safe'
  BY DEF AccessInv, RowsHold, Safe, GrantedSinceReset, EnabledHasSecret, OldPasswordOnlyByRace,
         AdminRemains, Open, Admin
<1>3. \A i \in Calls : call'[i] = IF i = c THEN r ELSE call[i]
  BY DEF AccessInv, TypeOK
<1>4. CallsHold'
  BY <1>3 DEF AccessInv, CallsHold, OnSession, LoginHasRow, CodeHasOp, CodeIsCurrent, OwnUpdateKeeps,
              Open
<1>. QED
  BY <1>1, <1>2, <1>4 DEF AccessInv

\* A refused request changes nothing.
LEMMA DoneKeeps ==
    ASSUME AccessInv, NEW c \in Calls, Finish(c), UNCHANGED <<row, session, resets, stale>>
    PROVE  AccessInv'
<1>. DEFINE r == [call[c] EXCEPT !.pc = "done"]
<1>1. call[c] \in CallState
  BY DEF AccessInv, TypeOK
<1>2. r \in CallState /\ r.pc = "done"
  BY <1>1 DEF CallState, Steps
<1>3. call' = [call EXCEPT ![c] = r]
  BY DEF Finish, Goto
<1>. HIDE DEF r
<1>. QED
  BY <1>2, <1>3, ReadOnly

\* Login reads the user: an active one has a role, for the row it will insert.
LEMMA LoginReadKeeps ==
    ASSUME AccessInv, NEW c \in Calls, NEW u \in Users, LoginRead(c, u)
    PROVE  AccessInv'
<1>1. CASE Finish(c)
  BY <1>1, DoneKeeps DEF LoginRead
<1>2. CASE ~Finish(c)
  <2>1. PICK pc \in {"failure", "insert"} :
          call' = [call EXCEPT ![c].pc = pc, ![c].op = "login", ![c].user = u,
                               ![c].failed = row[u].failed, ![c].password = row[u].password]
    BY <1>2 DEF LoginRead
  <2>. DEFINE r == [call[c] EXCEPT !.pc = pc, !.op = "login", !.user = u,
                                   !.failed = row[u].failed, !.password = row[u].password]
  <2>2. call[c] \in CallState /\ row[u] \in UserRow
    BY DEF AccessInv, TypeOK
  <2>3. r \in CallState /\ r.pc \in {"failure", "insert"} /\ r.user = u
    BY <2>2 DEF CallState, UserRow, Steps, Ops
  <2>4. call' = [call EXCEPT ![c] = r]
    BY <2>1
  <2>5. row[u].role # None
    BY <1>2 DEF LoginRead, AccessInv, RowsHold
  <2>6. UNCHANGED <<row, session, resets, stale>>
    BY DEF LoginRead
  <2>. HIDE DEF r
  <2>. QED
    BY <2>3, <2>4, <2>5, <2>6, ReadOnly
<1>. QED
  BY <1>1, <1>2

\* recordFailure writes the counter of a row, within its bound.
LEMMA RecordFailureKeeps ==
    ASSUME AccessInv, NEW c \in Calls, RecordFailure(c)
    PROVE  AccessInv'
<1>1. TypeOK'
  <2>1. row' \in [Users -> UserRow]
    <3>. DEFINE r == Failure(call[c].user, call[c].failed)
    <3>1. call[c].user \in Users /\ row[call[c].user] \in UserRow
      BY DEF AccessInv, TypeOK, CallState
    <3>2. r \in UserRow
      <4>1. call[c].failed \in 0..MaxFailures - 1
        BY DEF AccessInv, TypeOK, CallState
      <4>2. CASE call[c].failed + 1 >= MaxFailures
        <5>1. r = [row[call[c].user] EXCEPT !.failed = 0, !.locked = TRUE]
          BY <4>2 DEF Failure
        <5>. QED
          BY <3>1, <5>1, ZeroFailures DEF UserRow
      <4>3. CASE ~(call[c].failed + 1 >= MaxFailures)
        <5>1. r = [row[call[c].user] EXCEPT !.failed = call[c].failed + 1, !.locked = FALSE]
          BY <4>3 DEF Failure
        <5>2. call[c].failed + 1 \in 0..MaxFailures - 1
          BY <4>1, <4>3, ZeroFailures
        <5>. QED
          BY <3>1, <5>1, <5>2 DEF UserRow
      <4>. QED
        BY <4>2, <4>3
    <3>3. row' = [row EXCEPT ![call[c].user] = r]
      BY <3>1 DEF AccessInv, TypeOK, RecordFailure
    <3>. QED
      BY <3>1, <3>2, <3>3 DEF AccessInv, TypeOK
  <2>2. session' \in [Sessions -> SessionRow]
    BY DEF AccessInv, TypeOK, RecordFailure
  <2>3. call' \in [Calls -> CallState]
    BY FinishType DEF AccessInv, TypeOK, RecordFailure
  <2>4. resets' \in [Users -> Nat] /\ stale' \subseteq {"update", "enable"}
    BY DEF AccessInv, TypeOK, RecordFailure
  <2>. QED
    BY <2>1, <2>2, <2>3, <2>4 DEF TypeOK
<1>2. CallsHold'
  BY DEF AccessInv, CallsHold, OnSession, LoginHasRow, CodeHasOp, CodeIsCurrent, OwnUpdateKeeps,
         RowsHold, TypeOK, RecordFailure, At, Goto, Finish, Open, Failure, UserRow, SessionRow,
         CallState, Roles, None
<1>3. RowsHold'
  BY DEF AccessInv, CallsHold, LoginHasRow, RowsHold, TypeOK, RecordFailure, At, Goto, Finish, Open,
         Failure, UserRow, SessionRow, CallState, Roles, None
<1>4. GrantedSinceReset'
  BY DEF AccessInv, CallsHold, OnSession, CodeIsCurrent, Safe, GrantedSinceReset, TypeOK,
         RecordFailure, At, Goto, Finish, Open, Admin, Failure, UserRow, SessionRow, CallState
<1>5. EnabledHasSecret'
  BY DEF AccessInv, Safe, EnabledHasSecret, TypeOK, RecordFailure, At, Goto, Finish, Open, Admin,
         Failure, UserRow, SessionRow, CallState
<1>6. OldPasswordOnlyByRace'
  BY DEF AccessInv, RowsHold, Safe, OldPasswordOnlyByRace, TypeOK, RecordFailure, At, Goto, Finish,
         Open, Admin, Failure, UserRow, SessionRow, CallState
<1>7. AdminRemains'
  BY DEF AccessInv, CallsHold, OwnUpdateKeeps, Safe, AdminRemains, TypeOK, RecordFailure, At, Goto,
         Finish, Open, Admin, Failure, UserRow, SessionRow, CallState, None
<1>. QED
  BY <1>1, <1>2, <1>3, <1>4, <1>5, <1>6, <1>7 DEF AccessInv, Safe

\* Login inserts a session without second factor, marked late when the
\* password was replaced since it was read.
LEMMA LoginInsertKeeps ==
    ASSUME AccessInv, NEW c \in Calls, NEW s \in Sessions, LoginInsert(c, s)
    PROVE  AccessInv'
<1>1. TypeOK'
  <2>1. row' \in [Users -> UserRow]
    BY DEF AccessInv, TypeOK, LoginInsert
  <2>2. session' \in [Sessions -> SessionRow]
    <3>. DEFINE r == [state |-> "open", user |-> call[c].user, mfa |-> FALSE, age |-> "fresh",
                   password |-> call[c].password, late |-> call[c].password # row[call[c].user].password,
                   proof |-> 0]
    <3>1. s \in Sessions /\ session[s] \in SessionRow
      BY DEF AccessInv, TypeOK, CallState
    <3>2. r \in SessionRow
      BY <3>1 DEF AccessInv, TypeOK, CallState, UserRow, SessionRow
    <3>3. session' = [session EXCEPT ![s] = r]
      BY <3>1 DEF AccessInv, TypeOK, LoginInsert
    <3>. QED
      BY <3>1, <3>2, <3>3 DEF AccessInv, TypeOK
  <2>3. call' \in [Calls -> CallState]
    BY FinishType DEF AccessInv, TypeOK, LoginInsert
  <2>4. resets' \in [Users -> Nat] /\ stale' \subseteq {"update", "enable"}
    BY DEF AccessInv, TypeOK, LoginInsert
  <2>. QED
    BY <2>1, <2>2, <2>3, <2>4 DEF TypeOK
<1>2. CallsHold'
  BY DEF AccessInv, CallsHold, OnSession, LoginHasRow, CodeHasOp, CodeIsCurrent, OwnUpdateKeeps,
         RowsHold, TypeOK, LoginInsert, At, Goto, Finish, Open, UserRow, SessionRow, CallState,
         Roles, None
<1>3. RowsHold'
  BY DEF AccessInv, CallsHold, LoginHasRow, RowsHold, TypeOK, LoginInsert, At, Goto, Finish, Open,
         UserRow, SessionRow, CallState, Roles, None
<1>4. GrantedSinceReset'
  BY DEF AccessInv, CallsHold, OnSession, CodeIsCurrent, Safe, GrantedSinceReset, TypeOK,
         LoginInsert, At, Goto, Finish, Open, Admin, UserRow, SessionRow, CallState
<1>5. EnabledHasSecret'
  BY DEF AccessInv, Safe, EnabledHasSecret, TypeOK, LoginInsert, At, Goto, Finish, Open, Admin,
         UserRow, SessionRow, CallState
<1>6. OldPasswordOnlyByRace'
  BY DEF AccessInv, RowsHold, Safe, OldPasswordOnlyByRace, TypeOK, LoginInsert, At, Goto, Finish,
         Open, Admin, UserRow, SessionRow, CallState
<1>7. AdminRemains'
  BY DEF AccessInv, CallsHold, OwnUpdateKeeps, Safe, AdminRemains, TypeOK, LoginInsert, At, Goto,
         Finish, Open, Admin, UserRow, SessionRow, CallState, None
<1>. QED
  BY <1>1, <1>2, <1>3, <1>4, <1>5, <1>6, <1>7 DEF AccessInv, Safe

\* Authenticate loads a session that is issued, with its user.
LEMMA AuthReadKeeps ==
    ASSUME AccessInv, NEW c \in Calls, NEW s \in Sessions, NEW op \in Ops, AuthRead(c, s, op)
    PROVE  AccessInv'
<1>1. CASE Finish(c)
  BY <1>1, DoneKeeps DEF AuthRead
<1>2. CASE ~Finish(c)
  <2>. DEFINE u == session[s].user
              r == [call[c] EXCEPT !.pc = IF session[s].age = "fresh" THEN "touch" ELSE "expired",
                      !.op = op, !.sid = s, !.user = u, !.mfa = session[s].mfa,
                      !.enabled = row[u].enabled, !.role = row[u].role]
  <2>1. call[c] \in CallState /\ session[s] \in SessionRow
    BY DEF AccessInv, TypeOK
  <2>2. u \in Users /\ row[u] \in UserRow
    BY <2>1 DEF AccessInv, TypeOK, SessionRow
  <2>3. row[u].role \in Roles
    BY <1>2, <2>2 DEF AuthRead, Visible, AccessInv, RowsHold, UserRow
  <2>4. r \in CallState /\ r.pc \in {"touch", "expired"} /\ r.sid = s /\ r.user = u
    BY <2>1, <2>2, <2>3 DEF CallState, UserRow, SessionRow, Steps
  <2>5. call' = [call EXCEPT ![c] = r]
    BY <1>2 DEF AuthRead
  <2>6. UNCHANGED <<row, session, resets, stale>> /\ session[s].state # "free"
    BY <1>2 DEF AuthRead, Visible, Open
  <2>. HIDE DEF r
  <2>. QED
    BY <2>4, <2>5, <2>6, ReadOnly
<1>. QED
  BY <1>1, <1>2

\* Authenticate deletes the expired session it loaded.
LEMMA AuthExpiredKeeps ==
    ASSUME AccessInv, NEW c \in Calls, AuthExpired(c)
    PROVE  AccessInv'
<1>1. TypeOK'
  <2>1. row' \in [Users -> UserRow]
    BY DEF AccessInv, TypeOK, AuthExpired
  <2>2. session' \in [Sessions -> SessionRow]
    <3>. DEFINE r == [session[call[c].sid] EXCEPT !.state = "deleted"]
    <3>1. call[c].sid \in Sessions /\ session[call[c].sid] \in SessionRow
      BY DEF AccessInv, TypeOK, CallState
    <3>2. r \in SessionRow
      BY <3>1 DEF AccessInv, TypeOK, CallState, UserRow, SessionRow
    <3>3. session' = [session EXCEPT ![call[c].sid] = r]
      BY <3>1 DEF AccessInv, TypeOK, AuthExpired
    <3>. QED
      BY <3>1, <3>2, <3>3 DEF AccessInv, TypeOK
  <2>3. call' \in [Calls -> CallState]
    BY FinishType DEF AccessInv, TypeOK, AuthExpired
  <2>4. resets' \in [Users -> Nat] /\ stale' \subseteq {"update", "enable"}
    BY DEF AccessInv, TypeOK, AuthExpired
  <2>. QED
    BY <2>1, <2>2, <2>3, <2>4 DEF TypeOK
<1>2. CallsHold'
  BY DEF AccessInv, CallsHold, OnSession, LoginHasRow, CodeHasOp, CodeIsCurrent, OwnUpdateKeeps,
         RowsHold, TypeOK, AuthExpired, At, Goto, Finish, Open, UserRow, SessionRow, CallState,
         Roles, None
<1>3. RowsHold'
  BY DEF AccessInv, CallsHold, LoginHasRow, RowsHold, TypeOK, AuthExpired, At, Goto, Finish, Open,
         UserRow, SessionRow, CallState, Roles, None
<1>4. GrantedSinceReset'
  BY DEF AccessInv, CallsHold, OnSession, CodeIsCurrent, Safe, GrantedSinceReset, TypeOK,
         AuthExpired, At, Goto, Finish, Open, Admin, UserRow, SessionRow, CallState
<1>5. EnabledHasSecret'
  BY DEF AccessInv, Safe, EnabledHasSecret, TypeOK, AuthExpired, At, Goto, Finish, Open, Admin,
         UserRow, SessionRow, CallState
<1>6. OldPasswordOnlyByRace'
  BY DEF AccessInv, RowsHold, Safe, OldPasswordOnlyByRace, TypeOK, AuthExpired, At, Goto, Finish,
         Open, Admin, UserRow, SessionRow, CallState
<1>7. AdminRemains'
  BY DEF AccessInv, CallsHold, OwnUpdateKeeps, Safe, AdminRemains, TypeOK, AuthExpired, At, Goto,
         Finish, Open, Admin, UserRow, SessionRow, CallState, None
<1>. QED
  BY <1>1, <1>2, <1>3, <1>4, <1>5, <1>6, <1>7 DEF AccessInv, Safe

\* Authenticate renews the session it loaded, deleted or not.
LEMMA AuthTouchKeeps ==
    ASSUME AccessInv, NEW c \in Calls, AuthTouch(c)
    PROVE  AccessInv'
<1>1. TypeOK'
  <2>1. row' \in [Users -> UserRow]
    BY DEF AccessInv, TypeOK, AuthTouch
  <2>2. session' \in [Sessions -> SessionRow]
    <3>. DEFINE r == [session[call[c].sid] EXCEPT !.age = IF @ = "idle" THEN "fresh" ELSE @]
    <3>1. call[c].sid \in Sessions /\ session[call[c].sid] \in SessionRow
      BY DEF AccessInv, TypeOK, CallState
    <3>2. r \in SessionRow
      BY <3>1 DEF AccessInv, TypeOK, CallState, UserRow, SessionRow
    <3>3. session' = [session EXCEPT ![call[c].sid] = r]
      BY <3>1 DEF AccessInv, TypeOK, AuthTouch
    <3>. QED
      BY <3>1, <3>2, <3>3 DEF AccessInv, TypeOK
  <2>3. call' \in [Calls -> CallState]
    <3>. DEFINE pc == "handle"
    <3>1. pc \in Steps
      BY DEF Steps
    <3>2. Goto(c, pc)
      BY DEF AuthTouch
    <3>. QED
      BY <3>1, <3>2, GotoType DEF AccessInv, TypeOK
  <2>4. resets' \in [Users -> Nat] /\ stale' \subseteq {"update", "enable"}
    BY DEF AccessInv, TypeOK, AuthTouch
  <2>. QED
    BY <2>1, <2>2, <2>3, <2>4 DEF TypeOK
<1>2. CallsHold'
  BY DEF AccessInv, CallsHold, OnSession, LoginHasRow, CodeHasOp, CodeIsCurrent, OwnUpdateKeeps,
         RowsHold, TypeOK, AuthTouch, At, Goto, Open, UserRow, SessionRow, CallState, Roles, None
<1>3. RowsHold'
  BY DEF AccessInv, CallsHold, LoginHasRow, RowsHold, TypeOK, AuthTouch, At, Goto, Open, UserRow,
         SessionRow, CallState, Roles, None
<1>4. GrantedSinceReset'
  BY DEF AccessInv, CallsHold, OnSession, CodeIsCurrent, Safe, GrantedSinceReset, TypeOK, AuthTouch,
         At, Goto, Open, Admin, UserRow, SessionRow, CallState
<1>5. EnabledHasSecret'
  BY DEF AccessInv, Safe, EnabledHasSecret, TypeOK, AuthTouch, At, Goto, Open, Admin, UserRow,
         SessionRow, CallState
<1>6. OldPasswordOnlyByRace'
  BY DEF AccessInv, RowsHold, Safe, OldPasswordOnlyByRace, TypeOK, AuthTouch, At, Goto, Open, Admin,
         UserRow, SessionRow, CallState
<1>7. AdminRemains'
  BY DEF AccessInv, CallsHold, OwnUpdateKeeps, Safe, AdminRemains, TypeOK, AuthTouch, At, Goto,
         Open, Admin, UserRow, SessionRow, CallState, None
<1>. QED
  BY <1>1, <1>2, <1>3, <1>4, <1>5, <1>6, <1>7 DEF AccessInv, Safe

\* Logout deletes the session of the call.
LEMMA LogoutKeeps ==
    ASSUME AccessInv, NEW c \in Calls, Logout(c)
    PROVE  AccessInv'
<1>1. TypeOK'
  <2>1. row' \in [Users -> UserRow]
    BY DEF AccessInv, TypeOK, Logout
  <2>2. session' \in [Sessions -> SessionRow]
    <3>. DEFINE r == [session[call[c].sid] EXCEPT !.state = "deleted"]
    <3>1. call[c].sid \in Sessions /\ session[call[c].sid] \in SessionRow
      BY DEF AccessInv, TypeOK, CallState
    <3>2. r \in SessionRow
      BY <3>1 DEF AccessInv, TypeOK, CallState, UserRow, SessionRow
    <3>3. session' = [session EXCEPT ![call[c].sid] = r]
      BY <3>1 DEF AccessInv, TypeOK, Logout
    <3>. QED
      BY <3>1, <3>2, <3>3 DEF AccessInv, TypeOK
  <2>3. call' \in [Calls -> CallState]
    BY FinishType DEF AccessInv, TypeOK, Logout
  <2>4. resets' \in [Users -> Nat] /\ stale' \subseteq {"update", "enable"}
    BY DEF AccessInv, TypeOK, Logout
  <2>. QED
    BY <2>1, <2>2, <2>3, <2>4 DEF TypeOK
<1>2. CallsHold'
  BY DEF AccessInv, CallsHold, OnSession, LoginHasRow, CodeHasOp, CodeIsCurrent, OwnUpdateKeeps,
         RowsHold, TypeOK, Logout, At, Goto, Finish, Handling, Open, UserRow, SessionRow, CallState,
         Roles, None
<1>3. RowsHold'
  BY DEF AccessInv, CallsHold, LoginHasRow, RowsHold, TypeOK, Logout, At, Goto, Finish, Handling,
         Open, UserRow, SessionRow, CallState, Roles, None
<1>4. GrantedSinceReset'
  BY DEF AccessInv, CallsHold, OnSession, CodeIsCurrent, Safe, GrantedSinceReset, TypeOK, Logout,
         At, Goto, Finish, Handling, Open, Admin, UserRow, SessionRow, CallState
<1>5. EnabledHasSecret'
  BY DEF AccessInv, Safe, EnabledHasSecret, TypeOK, Logout, At, Goto, Finish, Handling, Open, Admin,
         UserRow, SessionRow, CallState
<1>6. OldPasswordOnlyByRace'
  BY DEF AccessInv, RowsHold, Safe, OldPasswordOnlyByRace, TypeOK, Logout, At, Goto, Finish,
         Handling, Open, Admin, UserRow, SessionRow, CallState
<1>7. AdminRemains'
  BY DEF AccessInv, CallsHold, OwnUpdateKeeps, Safe, AdminRemains, TypeOK, Logout, At, Goto, Finish,
         Handling, Open, Admin, UserRow, SessionRow, CallState, None
<1>. QED
  BY <1>1, <1>2, <1>3, <1>4, <1>5, <1>6, <1>7 DEF AccessInv, Safe

\* BeginTOTPSetup writes a new secret, never none.
LEMMA BeginTOTPSetupKeeps ==
    ASSUME AccessInv, NEW c \in Calls, BeginTOTPSetup(c)
    PROVE  AccessInv'
<1>1. TypeOK'
  <2>1. row' \in [Users -> UserRow]
    <3>. DEFINE r == [row[call[c].user] EXCEPT !.secret = @ + 1]
    <3>1. call[c].user \in Users /\ row[call[c].user] \in UserRow
      BY DEF AccessInv, TypeOK, CallState
    <3>2. r \in UserRow
      BY <3>1 DEF UserRow
    <3>3. row' = [row EXCEPT ![call[c].user] = r] \/ row' = row
      BY <3>1 DEF AccessInv, TypeOK, BeginTOTPSetup
    <3>. QED
      BY <3>1, <3>2, <3>3 DEF AccessInv, TypeOK
  <2>2. session' \in [Sessions -> SessionRow]
    BY DEF AccessInv, TypeOK, BeginTOTPSetup
  <2>3. call' \in [Calls -> CallState]
    BY FinishType DEF AccessInv, TypeOK, BeginTOTPSetup
  <2>4. resets' \in [Users -> Nat] /\ stale' \subseteq {"update", "enable"}
    BY DEF AccessInv, TypeOK, BeginTOTPSetup
  <2>. QED
    BY <2>1, <2>2, <2>3, <2>4 DEF TypeOK
<1>2. CallsHold'
  BY DEF AccessInv, CallsHold, OnSession, LoginHasRow, CodeHasOp, CodeIsCurrent, OwnUpdateKeeps,
         RowsHold, TypeOK, BeginTOTPSetup, At, Goto, Finish, Handling, Open, UserRow, SessionRow,
         CallState, Roles, None
<1>3. RowsHold'
  BY DEF AccessInv, CallsHold, LoginHasRow, RowsHold, TypeOK, BeginTOTPSetup, At, Goto, Finish,
         Handling, Open, UserRow, SessionRow, CallState, Roles, None
<1>4. GrantedSinceReset'
  BY DEF AccessInv, CallsHold, OnSession, CodeIsCurrent, Safe, GrantedSinceReset, TypeOK,
         BeginTOTPSetup, At, Goto, Finish, Handling, Open, Admin, UserRow, SessionRow, CallState
<1>5. EnabledHasSecret'
  BY DEF AccessInv, Safe, EnabledHasSecret, TypeOK, BeginTOTPSetup, At, Goto, Finish, Handling,
         Open, Admin, UserRow, SessionRow, CallState
<1>6. OldPasswordOnlyByRace'
  BY DEF AccessInv, RowsHold, Safe, OldPasswordOnlyByRace, TypeOK, BeginTOTPSetup, At, Goto, Finish,
         Handling, Open, Admin, UserRow, SessionRow, CallState
<1>7. AdminRemains'
  BY DEF AccessInv, CallsHold, OwnUpdateKeeps, Safe, AdminRemains, TypeOK, BeginTOTPSetup, At, Goto,
         Finish, Handling, Open, Admin, UserRow, SessionRow, CallState, None
<1>. QED
  BY <1>1, <1>2, <1>3, <1>4, <1>5, <1>6, <1>7 DEF AccessInv, Safe

\* VerifyMFA and EnableTOTP go on to the code for the session they were called on.
LEMMA MFAStartKeeps ==
    ASSUME AccessInv, NEW c \in Calls, MFAStart(c)
    PROVE  AccessInv'
<1>. DEFINE pc == IF call[c].enabled = (call[c].op = "mfa") THEN "code" ELSE "done"
            r == [call[c] EXCEPT !.pc = pc]
<1>1. call[c] \in CallState
  BY DEF AccessInv, TypeOK
<1>2. /\ r \in CallState /\ r.pc \in {"code", "done"}
      /\ r.sid = call[c].sid /\ r.user = call[c].user /\ r.op = call[c].op
  BY <1>1 DEF CallState, Steps
<1>3. call' = [call EXCEPT ![c] = r] /\ UNCHANGED <<row, session, resets, stale>>
  BY DEF MFAStart, Goto
<1>4. call[c].op \in {"mfa", "enable"} /\ OnSession(c) /\ call[c].pc = "handle"
  BY DEF MFAStart, At, AccessInv, CallsHold
<1>. HIDE DEF r
<1>. QED
  BY <1>2, <1>3, <1>4, ReadOnly DEF OnSession

\* Reauthenticate goes on to the code for the session it was called on.
LEMMA ReauthPasswordKeeps ==
    ASSUME AccessInv, NEW c \in Calls, ReauthPassword(c)
    PROVE  AccessInv'
<1>. DEFINE u == call[c].user
<1>1. CASE Finish(c)
  BY <1>1, DoneKeeps DEF ReauthPassword
<1>2. CASE ~Finish(c)
  <2>1. PICK pc \in {"failure", "code"} :
          call' = [call EXCEPT ![c].pc = pc, ![c].failed = row[u].failed]
    BY <1>2 DEF ReauthPassword
  <2>. DEFINE r == [call[c] EXCEPT !.pc = pc, !.failed = row[u].failed]
  <2>2. call[c] \in CallState /\ row[u] \in UserRow
    BY DEF AccessInv, TypeOK, CallState
  <2>3. /\ r \in CallState /\ r.pc \in {"failure", "code"}
        /\ r.sid = call[c].sid /\ r.user = call[c].user /\ r.op = call[c].op
    BY <2>2 DEF CallState, UserRow, Steps
  <2>4. call' = [call EXCEPT ![c] = r]
    BY <2>1
  <2>5. UNCHANGED <<row, session, resets, stale>> /\ call[c].op = "reauth"
    BY DEF ReauthPassword, Handling
  <2>6. OnSession(c) /\ call[c].pc = "handle"
    BY DEF ReauthPassword, Handling, At, AccessInv, CallsHold
  <2>. HIDE DEF r
  <2>. QED
    BY <2>3, <2>4, <2>5, <2>6, ReadOnly DEF OnSession
<1>. QED
  BY <1>1, <1>2

\* checkCode: the code was right for the resets so far.
LEMMA CheckCodeKeeps ==
    ASSUME AccessInv, NEW c \in Calls, CheckCode(c)
    PROVE  AccessInv'
<1>. DEFINE u == call[c].user
<1>1. CASE Finish(c)
  BY <1>1, DoneKeeps DEF CheckCode
<1>2. CASE ~Finish(c)
  <2>1. PICK pc \in {AfterCode(call[c].op), "failure"} :
          call' = [call EXCEPT ![c].pc = pc, ![c].failed = row[u].failed,
                               ![c].proof = resets[u]]
    BY <1>2 DEF CheckCode
  <2>. DEFINE r == [call[c] EXCEPT !.pc = pc, !.failed = row[u].failed, !.proof = resets[u]]
  <2>2. call[c] \in CallState /\ row[u] \in UserRow /\ resets[u] \in Nat
    BY DEF AccessInv, TypeOK, CallState
  <2>3. UNCHANGED <<row, session, resets, stale>> /\ call[c].pc = "code"
    BY DEF CheckCode, At
  <2>4. OnSession(c) /\ CodeHasOp(c)
    BY DEF AccessInv, CallsHold
  <2>5. pc \in {"complete", "enable", "done", "failure"}
    BY <2>3, <2>4 DEF CodeHasOp, AfterCode
  <2>6. call' = [call EXCEPT ![c] = r]
    BY <2>1
  <2>7. /\ r \in CallState /\ r.pc \in {"complete", "enable", "done", "failure"}
        /\ r.sid = call[c].sid /\ r.user = u /\ r.proof = resets[u]
    BY <2>2, <2>5 DEF CallState, UserRow, Steps
  <2>. HIDE DEF r
  <2>. QED
    BY <2>3, <2>4, <2>6, <2>7, ReadOnly DEF OnSession
<1>. QED
  BY <1>1, <1>2

\* EnableTOTP: without a secret the UPDATE was overtaken.
LEMMA EnableTOTPKeeps ==
    ASSUME AccessInv, NEW c \in Calls, EnableTOTP(c)
    PROVE  AccessInv'
<1>1. TypeOK'
  <2>1. row' \in [Users -> UserRow]
    <3>. DEFINE r == [row[call[c].user] EXCEPT !.enabled = TRUE]
    <3>1. call[c].user \in Users /\ row[call[c].user] \in UserRow
      BY DEF AccessInv, TypeOK, CallState
    <3>2. r \in UserRow
      BY <3>1, ZeroFailures DEF AccessInv, TypeOK, CallState, UserRow, Roles
    <3>3. row' = [row EXCEPT ![call[c].user] = r]
      BY <3>1 DEF AccessInv, TypeOK, EnableTOTP
    <3>. QED
      BY <3>1, <3>2, <3>3 DEF AccessInv, TypeOK
  <2>2. session' \in [Sessions -> SessionRow]
    BY DEF AccessInv, TypeOK, EnableTOTP
  <2>3. call' \in [Calls -> CallState]
    <3>. DEFINE pc == "complete"
    <3>1. pc \in Steps
      BY DEF Steps
    <3>2. Goto(c, pc)
      BY DEF EnableTOTP
    <3>. QED
      BY <3>1, <3>2, GotoType DEF AccessInv, TypeOK
  <2>4. resets' \in [Users -> Nat] /\ stale' \subseteq {"update", "enable"}
    BY DEF AccessInv, TypeOK, EnableTOTP
  <2>. QED
    BY <2>1, <2>2, <2>3, <2>4 DEF TypeOK
<1>2. CallsHold'
  BY DEF AccessInv, CallsHold, OnSession, LoginHasRow, CodeHasOp, CodeIsCurrent, OwnUpdateKeeps,
         RowsHold, TypeOK, EnableTOTP, At, Goto, Open, UserRow, SessionRow, CallState, Roles, None
<1>3. RowsHold'
  BY DEF AccessInv, CallsHold, LoginHasRow, RowsHold, TypeOK, EnableTOTP, At, Goto, Open, UserRow,
         SessionRow, CallState, Roles, None
<1>4. GrantedSinceReset'
  BY DEF AccessInv, CallsHold, OnSession, CodeIsCurrent, Safe, GrantedSinceReset, TypeOK,
         EnableTOTP, At, Goto, Open, Admin, UserRow, SessionRow, CallState
<1>5. EnabledHasSecret'
  BY DEF AccessInv, Safe, EnabledHasSecret, TypeOK, EnableTOTP, At, Goto, Open, Admin, UserRow,
         SessionRow, CallState
<1>6. OldPasswordOnlyByRace'
  BY DEF AccessInv, RowsHold, Safe, OldPasswordOnlyByRace, TypeOK, EnableTOTP, At, Goto, Open,
         Admin, UserRow, SessionRow, CallState
<1>7. AdminRemains'
  BY DEF AccessInv, CallsHold, OwnUpdateKeeps, Safe, AdminRemains, TypeOK, EnableTOTP, At, Goto,
         Open, Admin, UserRow, SessionRow, CallState, None
<1>. QED
  BY <1>1, <1>2, <1>3, <1>4, <1>5, <1>6, <1>7 DEF AccessInv, Safe

\* completeLogin marks a session that is still open, so no reset came in between.
LEMMA CompleteLoginKeeps ==
    ASSUME AccessInv, NEW c \in Calls, CompleteLogin(c)
    PROVE  AccessInv'
<1>1. TypeOK'
  <2>1. row' \in [Users -> UserRow]
    <3>. DEFINE r == [row[call[c].user] EXCEPT !.failed = 0, !.locked = FALSE]
    <3>1. call[c].user \in Users /\ row[call[c].user] \in UserRow
      BY DEF AccessInv, TypeOK, CallState
    <3>2. r \in UserRow
      BY <3>1, ZeroFailures DEF AccessInv, TypeOK, CallState, UserRow, Roles
    <3>3. row' = [row EXCEPT ![call[c].user] = r]
      BY <3>1 DEF AccessInv, TypeOK, CompleteLogin
    <3>. QED
      BY <3>1, <3>2, <3>3 DEF AccessInv, TypeOK
  <2>2. session' \in [Sessions -> SessionRow]
    <3>. DEFINE s == call[c].sid
                r == [session[s] EXCEPT !.mfa = TRUE, !.proof = call[c].proof]
    <3>1. s \in Sessions /\ session[s] \in SessionRow
      BY DEF AccessInv, TypeOK, CallState
    <3>2. r \in SessionRow
      BY <3>1 DEF AccessInv, TypeOK, CallState, SessionRow
    <3>3. session' = [session EXCEPT ![s] = r] \/ session' = session
      BY <3>1 DEF AccessInv, TypeOK, CompleteLogin
    <3>. QED
      BY <3>1, <3>2, <3>3 DEF AccessInv, TypeOK
  <2>3. call' \in [Calls -> CallState]
    BY FinishType DEF AccessInv, TypeOK, CompleteLogin
  <2>4. resets' \in [Users -> Nat] /\ stale' \subseteq {"update", "enable"}
    BY DEF AccessInv, TypeOK, CompleteLogin
  <2>. QED
    BY <2>1, <2>2, <2>3, <2>4 DEF TypeOK
<1>2. CallsHold'
  BY DEF AccessInv, CallsHold, OnSession, LoginHasRow, CodeHasOp, CodeIsCurrent, OwnUpdateKeeps,
         RowsHold, TypeOK, CompleteLogin, At, Goto, Finish, Open, UserRow, SessionRow, CallState,
         Roles, None
<1>3. RowsHold'
  BY DEF AccessInv, CallsHold, LoginHasRow, RowsHold, TypeOK, CompleteLogin, At, Goto, Finish, Open,
         UserRow, SessionRow, CallState, Roles, None
<1>4. GrantedSinceReset'
  BY DEF AccessInv, CallsHold, OnSession, CodeIsCurrent, Safe, GrantedSinceReset, TypeOK,
         CompleteLogin, At, Goto, Finish, Open, Admin, UserRow, SessionRow, CallState
<1>5. EnabledHasSecret'
  BY DEF AccessInv, Safe, EnabledHasSecret, TypeOK, CompleteLogin, At, Goto, Finish, Open, Admin,
         UserRow, SessionRow, CallState
<1>6. OldPasswordOnlyByRace'
  BY DEF AccessInv, RowsHold, Safe, OldPasswordOnlyByRace, TypeOK, CompleteLogin, At, Goto, Finish,
         Open, Admin, UserRow, SessionRow, CallState
<1>7. AdminRemains'
  BY DEF AccessInv, CallsHold, OwnUpdateKeeps, Safe, AdminRemains, TypeOK, CompleteLogin, At, Goto,
         Finish, Open, Admin, UserRow, SessionRow, CallState, None
<1>. QED
  BY <1>1, <1>2, <1>3, <1>4, <1>5, <1>6, <1>7 DEF AccessInv, Safe

\* A request without permission changes nothing.
LEMMA AdminDeniedKeeps ==
    ASSUME AccessInv, NEW c \in Calls, AdminDenied(c)
    PROVE  AccessInv'
<1>. QED
  BY DoneKeeps DEF AdminDenied

\* CreateUser fills a row no session and no login refers to.
LEMMA CreateUserKeeps ==
    ASSUME AccessInv, NEW c \in Calls, NEW u \in Users, NEW role \in Roles, CreateUser(c, u, role)
    PROVE  AccessInv'
<1>1. TypeOK'
  <2>1. row' \in [Users -> UserRow]
    <3>. DEFINE r == [role |-> role, active |-> TRUE, failed |-> 0, locked |-> FALSE,
                   password |-> 1, secret |-> 0, enabled |-> FALSE]
    <3>1. u \in Users /\ row[u] \in UserRow
      BY DEF AccessInv, TypeOK, CallState
    <3>2. r \in UserRow
      BY <3>1, ZeroFailures DEF AccessInv, TypeOK, CallState, UserRow, Roles
    <3>3. row' = [row EXCEPT ![u] = r]
      BY <3>1 DEF AccessInv, TypeOK, CreateUser
    <3>. QED
      BY <3>1, <3>2, <3>3 DEF AccessInv, TypeOK
  <2>2. session' \in [Sessions -> SessionRow]
    BY DEF AccessInv, TypeOK, CreateUser
  <2>3. call' \in [Calls -> CallState]
    BY FinishType DEF AccessInv, TypeOK, CreateUser
  <2>4. resets' \in [Users -> Nat] /\ stale' \subseteq {"update", "enable"}
    BY DEF AccessInv, TypeOK, CreateUser
  <2>. QED
    BY <2>1, <2>2, <2>3, <2>4 DEF TypeOK
<1>2. CallsHold'
  BY DEF AccessInv, CallsHold, OnSession, LoginHasRow, CodeHasOp, CodeIsCurrent, OwnUpdateKeeps,
         RowsHold, TypeOK, CreateUser, At, Goto, Finish, Handling, Open, Permitted, UserRow,
         SessionRow, CallState, Roles, None
<1>3. RowsHold'
  BY DEF AccessInv, CallsHold, LoginHasRow, RowsHold, TypeOK, CreateUser, At, Goto, Finish,
         Handling, Open, Permitted, UserRow, SessionRow, CallState, Roles, None
<1>4. GrantedSinceReset'
  BY DEF AccessInv, CallsHold, OnSession, CodeIsCurrent, Safe, GrantedSinceReset, TypeOK,
         CreateUser, At, Goto, Finish, Handling, Open, Admin, Permitted, UserRow, SessionRow,
         CallState
<1>5. EnabledHasSecret'
  BY DEF AccessInv, Safe, EnabledHasSecret, TypeOK, CreateUser, At, Goto, Finish, Handling, Open,
         Admin, Permitted, UserRow, SessionRow, CallState
<1>6. OldPasswordOnlyByRace'
  BY DEF AccessInv, RowsHold, Safe, OldPasswordOnlyByRace, TypeOK, CreateUser, At, Goto, Finish,
         Handling, Open, Admin, Permitted, UserRow, SessionRow, CallState
<1>7. AdminRemains'
  BY DEF AccessInv, CallsHold, OwnUpdateKeeps, Safe, AdminRemains, TypeOK, CreateUser, At, Goto,
         Finish, Handling, Open, Admin, Permitted, UserRow, SessionRow, CallState, None
<1>. QED
  BY <1>1, <1>2, <1>3, <1>4, <1>5, <1>6, <1>7 DEF AccessInv, Safe

\* UpdateUser goes on to its own row, or to that of another user.
LEMMA UpdateStartKeeps ==
    ASSUME AccessInv, NEW c \in Calls, NEW u \in Users, NEW role \in Roles, NEW active \in BOOLEAN, UpdateStart(c, u, role, active)
    PROVE  AccessInv'
<1>. DEFINE r == [call[c] EXCEPT !.pc = IF u = call[c].user THEN "self" ELSE "update",
                                 !.target = u, !.newRole = role, !.newActive = active]
<1>1. call[c] \in CallState
  BY DEF AccessInv, TypeOK
<1>2. /\ r \in CallState /\ r.pc = IF u = call[c].user THEN "self" ELSE "update"
      /\ r.target = u /\ r.user = call[c].user
  BY <1>1 DEF CallState, Steps
<1>3. call' = [call EXCEPT ![c] = r] /\ UNCHANGED <<row, session, resets, stale>>
  BY DEF UpdateStart
<1>. HIDE DEF r
<1>. QED
  BY <1>2, <1>3, ReadOnly

\* UpdateUser of oneself keeps the role, unless the row was overtaken.
LEMMA UpdateSelfKeeps ==
    ASSUME AccessInv, NEW c \in Calls, UpdateSelf(c)
    PROVE  AccessInv'
<1>1. TypeOK'
  <2>1. row' \in [Users -> UserRow]
    BY DEF AccessInv, TypeOK, UpdateSelf
  <2>2. session' \in [Sessions -> SessionRow]
    BY DEF AccessInv, TypeOK, UpdateSelf
  <2>3. call' \in [Calls -> CallState]
    <3>. DEFINE pc == IF SelfAllowed(c) THEN "update" ELSE "done"
    <3>1. pc \in Steps
      BY DEF Steps
    <3>2. Goto(c, pc)
      BY DEF UpdateSelf
    <3>. QED
      BY <3>1, <3>2, GotoType DEF AccessInv, TypeOK
  <2>4. resets' \in [Users -> Nat] /\ stale' \subseteq {"update", "enable"}
    BY DEF AccessInv, TypeOK, UpdateSelf
  <2>. QED
    BY <2>1, <2>2, <2>3, <2>4 DEF TypeOK
<1>2. CallsHold'
  BY DEF AccessInv, CallsHold, OnSession, LoginHasRow, CodeHasOp, CodeIsCurrent, OwnUpdateKeeps,
         RowsHold, TypeOK, UpdateSelf, At, Goto, Open, Admin, SelfAllowed, UserRow, SessionRow,
         CallState, Roles, None
<1>3. RowsHold'
  BY DEF AccessInv, CallsHold, LoginHasRow, RowsHold, TypeOK, UpdateSelf, At, Goto, Open, Admin,
         SelfAllowed, UserRow, SessionRow, CallState, Roles, None
<1>4. GrantedSinceReset'
  BY DEF AccessInv, CallsHold, OnSession, CodeIsCurrent, Safe, GrantedSinceReset, TypeOK,
         UpdateSelf, At, Goto, Open, Admin, SelfAllowed, UserRow, SessionRow, CallState
<1>5. EnabledHasSecret'
  BY DEF AccessInv, Safe, EnabledHasSecret, TypeOK, UpdateSelf, At, Goto, Open, Admin, SelfAllowed,
         UserRow, SessionRow, CallState
<1>6. OldPasswordOnlyByRace'
  BY DEF AccessInv, RowsHold, Safe, OldPasswordOnlyByRace, TypeOK, UpdateSelf, At, Goto, Open,
         Admin, SelfAllowed, UserRow, SessionRow, CallState
<1>7. AdminRemains'
  BY DEF AccessInv, CallsHold, OwnUpdateKeeps, Safe, AdminRemains, TypeOK, UpdateSelf, At, Goto,
         Open, Admin, SelfAllowed, UserRow, SessionRow, CallState, None
<1>. QED
  BY <1>1, <1>2, <1>3, <1>4, <1>5, <1>6, <1>7 DEF AccessInv, Safe

\* UpdateUser of an administrator leaves that administrator.
LEMMA UpdateWriteKeeps ==
    ASSUME AccessInv, NEW c \in Calls, UpdateWrite(c)
    PROVE  AccessInv'
<1>1. TypeOK'
  <2>1. row' \in [Users -> UserRow]
    <3>. DEFINE r == [row[call[c].target] EXCEPT !.role = call[c].newRole, !.active = call[c].newActive]
    <3>1. call[c].target \in Users /\ row[call[c].target] \in UserRow
      BY DEF AccessInv, TypeOK, CallState
    <3>2. r \in UserRow
      BY <3>1, ZeroFailures DEF AccessInv, TypeOK, CallState, UserRow, Roles
    <3>3. row' = [row EXCEPT ![call[c].target] = r]
      BY <3>1 DEF AccessInv, TypeOK, UpdateWrite
    <3>. QED
      BY <3>1, <3>2, <3>3 DEF AccessInv, TypeOK
  <2>2. session' \in [Sessions -> SessionRow]
    BY DEF AccessInv, TypeOK, UpdateWrite
  <2>3. call' \in [Calls -> CallState]
    <3>. DEFINE pc == IF call[c].newActive THEN "done" ELSE "sessions"
    <3>1. pc \in Steps
      BY DEF Steps
    <3>2. Goto(c, pc)
      BY DEF UpdateWrite
    <3>. QED
      BY <3>1, <3>2, GotoType DEF AccessInv, TypeOK
  <2>4. resets' \in [Users -> Nat] /\ stale' \subseteq {"update", "enable"}
    BY DEF AccessInv, TypeOK, UpdateWrite
  <2>. QED
    BY <2>1, <2>2, <2>3, <2>4 DEF TypeOK
<1>2. CallsHold'
  BY DEF AccessInv, CallsHold, OnSession, LoginHasRow, CodeHasOp, CodeIsCurrent, OwnUpdateKeeps,
         RowsHold, TypeOK, UpdateWrite, At, Goto, Open, Admin, UserRow, SessionRow, CallState,
         Roles, None
<1>3. RowsHold'
  BY DEF AccessInv, CallsHold, LoginHasRow, RowsHold, TypeOK, UpdateWrite, At, Goto, Open, Admin,
         UserRow, SessionRow, CallState, Roles, None
<1>4. GrantedSinceReset'
  BY DEF AccessInv, CallsHold, OnSession, CodeIsCurrent, Safe, GrantedSinceReset, TypeOK,
         UpdateWrite, At, Goto, Open, Admin, UserRow, SessionRow, CallState
<1>5. EnabledHasSecret'
  BY DEF AccessInv, Safe, EnabledHasSecret, TypeOK, UpdateWrite, At, Goto, Open, Admin, UserRow,
         SessionRow, CallState
<1>6. OldPasswordOnlyByRace'
  BY DEF AccessInv, RowsHold, Safe, OldPasswordOnlyByRace, TypeOK, UpdateWrite, At, Goto, Open,
         Admin, UserRow, SessionRow, CallState
<1>7. AdminRemains'
  BY DEF AccessInv, CallsHold, OwnUpdateKeeps, Safe, AdminRemains, TypeOK, UpdateWrite, At, Goto,
         Open, Admin, UserRow, SessionRow, CallState, None
<1>. QED
  BY <1>1, <1>2, <1>3, <1>4, <1>5, <1>6, <1>7 DEF AccessInv, Safe

\* UpdateUser ends the sessions of a deactivated user.
LEMMA UpdateSessionsKeeps ==
    ASSUME AccessInv, NEW c \in Calls, UpdateSessions(c)
    PROVE  AccessInv'
<1>1. TypeOK'
  <2>1. row' \in [Users -> UserRow]
    BY DEF AccessInv, TypeOK, UpdateSessions
  <2>2. session' \in [Sessions -> SessionRow]
    BY EndedType DEF AccessInv, TypeOK, UpdateSessions, CallState
  <2>3. call' \in [Calls -> CallState]
    BY FinishType DEF AccessInv, TypeOK, UpdateSessions
  <2>4. resets' \in [Users -> Nat] /\ stale' \subseteq {"update", "enable"}
    BY DEF AccessInv, TypeOK, UpdateSessions
  <2>. QED
    BY <2>1, <2>2, <2>3, <2>4 DEF TypeOK
<1>2. CallsHold'
  BY DEF AccessInv, CallsHold, OnSession, LoginHasRow, CodeHasOp, CodeIsCurrent, OwnUpdateKeeps,
         RowsHold, TypeOK, UpdateSessions, At, Goto, Finish, Open, EndSessions, UserRow, SessionRow,
         CallState, Roles, None
<1>3. RowsHold'
  BY DEF AccessInv, CallsHold, LoginHasRow, RowsHold, TypeOK, UpdateSessions, At, Goto, Finish,
         Open, EndSessions, UserRow, SessionRow, CallState, Roles, None
<1>4. GrantedSinceReset'
  BY DEF AccessInv, CallsHold, OnSession, CodeIsCurrent, Safe, GrantedSinceReset, TypeOK,
         UpdateSessions, At, Goto, Finish, Open, Admin, EndSessions, UserRow, SessionRow, CallState
<1>5. EnabledHasSecret'
  BY DEF AccessInv, Safe, EnabledHasSecret, TypeOK, UpdateSessions, At, Goto, Finish, Open, Admin,
         EndSessions, UserRow, SessionRow, CallState
<1>6. OldPasswordOnlyByRace'
  BY DEF AccessInv, RowsHold, Safe, OldPasswordOnlyByRace, TypeOK, UpdateSessions, At, Goto, Finish,
         Open, Admin, EndSessions, UserRow, SessionRow, CallState
<1>7. AdminRemains'
  BY DEF AccessInv, CallsHold, OwnUpdateKeeps, Safe, AdminRemains, TypeOK, UpdateSessions, At, Goto,
         Finish, Open, Admin, EndSessions, UserRow, SessionRow, CallState, None
<1>. QED
  BY <1>1, <1>2, <1>3, <1>4, <1>5, <1>6, <1>7 DEF AccessInv, Safe

\* SetPassword replaces the password and ends the sessions that used the old one.
LEMMA SetPasswordKeeps ==
    ASSUME AccessInv, NEW c \in Calls, NEW u \in Users, row[u].role # None, SetPassword(c, u)
    PROVE  AccessInv'
<1>1. TypeOK'
  <2>1. row' \in [Users -> UserRow]
    <3>. DEFINE r == [row[u] EXCEPT !.password = @ + 1, !.failed = 0, !.locked = FALSE]
    <3>1. u \in Users /\ row[u] \in UserRow
      BY DEF AccessInv, TypeOK, CallState
    <3>2. r \in UserRow
      <4>1. row[u].password + 1 \in Nat
        BY <3>1 DEF UserRow
      <4>2. r = [row[u] EXCEPT !.password = row[u].password + 1, !.failed = 0, !.locked = FALSE]
        OBVIOUS
      <4>. QED
        BY <3>1, <4>1, <4>2, ZeroFailures DEF UserRow
    <3>3. row' = [row EXCEPT ![u] = r]
      BY <3>1 DEF AccessInv, TypeOK, SetPassword
    <3>. QED
      BY <3>1, <3>2, <3>3 DEF AccessInv, TypeOK
  <2>2. session' \in [Sessions -> SessionRow]
    BY EndedType DEF AccessInv, TypeOK, SetPassword, CallState
  <2>3. call' \in [Calls -> CallState]
    BY FinishType DEF AccessInv, TypeOK, SetPassword
  <2>4. resets' \in [Users -> Nat] /\ stale' \subseteq {"update", "enable"}
    BY DEF AccessInv, TypeOK, SetPassword
  <2>. QED
    BY <2>1, <2>2, <2>3, <2>4 DEF TypeOK
<1>2. CallsHold'
  BY DEF AccessInv, CallsHold, OnSession, LoginHasRow, CodeHasOp, CodeIsCurrent, OwnUpdateKeeps,
         RowsHold, TypeOK, SetPassword, At, Goto, Finish, Handling, Open, EndSessions, Permitted,
         UserRow, SessionRow, CallState, Roles, None
<1>3. RowsHold'
  BY DEF AccessInv, CallsHold, LoginHasRow, RowsHold, TypeOK, SetPassword, At, Goto, Finish,
         Handling, Open, EndSessions, Permitted, UserRow, SessionRow, CallState, Roles, None
<1>4. GrantedSinceReset'
  BY DEF AccessInv, CallsHold, OnSession, CodeIsCurrent, Safe, GrantedSinceReset, TypeOK,
         SetPassword, At, Goto, Finish, Handling, Open, Admin, EndSessions, Permitted, UserRow,
         SessionRow, CallState
<1>5. EnabledHasSecret'
  BY DEF AccessInv, Safe, EnabledHasSecret, TypeOK, SetPassword, At, Goto, Finish, Handling, Open,
         Admin, EndSessions, Permitted, UserRow, SessionRow, CallState
<1>6. OldPasswordOnlyByRace'
  BY DEF AccessInv, RowsHold, Safe, OldPasswordOnlyByRace, TypeOK, SetPassword, At, Goto, Finish,
         Handling, Open, Admin, EndSessions, Permitted, UserRow, SessionRow, CallState
<1>7. AdminRemains'
  BY DEF AccessInv, CallsHold, OwnUpdateKeeps, Safe, AdminRemains, TypeOK, SetPassword, At, Goto,
         Finish, Handling, Open, Admin, EndSessions, Permitted, UserRow, SessionRow, CallState, None
<1>. QED
  BY <1>1, <1>2, <1>3, <1>4, <1>5, <1>6, <1>7 DEF AccessInv, Safe

\* ResetMFA ends the sessions that rest on the factor it removes.
LEMMA ResetMFAKeeps ==
    ASSUME AccessInv, NEW c \in Calls, NEW u \in Users, row[u].role # None, ResetMFA(c, u)
    PROVE  AccessInv'
<1>1. TypeOK'
  <2>1. row' \in [Users -> UserRow]
    <3>. DEFINE r == [row[u] EXCEPT !.enabled = FALSE, !.secret = 0]
    <3>1. u \in Users /\ row[u] \in UserRow
      BY DEF AccessInv, TypeOK, CallState
    <3>2. r \in UserRow
      BY <3>1, ZeroFailures DEF AccessInv, TypeOK, CallState, UserRow, Roles
    <3>3. row' = [row EXCEPT ![u] = r]
      BY <3>1 DEF AccessInv, TypeOK, ResetMFA
    <3>. QED
      BY <3>1, <3>2, <3>3 DEF AccessInv, TypeOK
  <2>2. session' \in [Sessions -> SessionRow]
    BY EndedType DEF AccessInv, TypeOK, ResetMFA, CallState
  <2>3. call' \in [Calls -> CallState]
    BY FinishType DEF AccessInv, TypeOK, ResetMFA
  <2>4. resets' \in [Users -> Nat] /\ stale' \subseteq {"update", "enable"}
    BY DEF AccessInv, TypeOK, ResetMFA
  <2>. QED
    BY <2>1, <2>2, <2>3, <2>4 DEF TypeOK
<1>2. CallsHold'
  BY DEF AccessInv, CallsHold, OnSession, LoginHasRow, CodeHasOp, CodeIsCurrent, OwnUpdateKeeps,
         RowsHold, TypeOK, ResetMFA, At, Goto, Finish, Handling, Open, EndSessions, Permitted,
         UserRow, SessionRow, CallState, Roles, None
<1>3. RowsHold'
  BY DEF AccessInv, CallsHold, LoginHasRow, RowsHold, TypeOK, ResetMFA, At, Goto, Finish, Handling,
         Open, EndSessions, Permitted, UserRow, SessionRow, CallState, Roles, None
<1>4. GrantedSinceReset'
  BY DEF AccessInv, CallsHold, OnSession, CodeIsCurrent, Safe, GrantedSinceReset, TypeOK, ResetMFA,
         At, Goto, Finish, Handling, Open, Admin, EndSessions, Permitted, UserRow, SessionRow,
         CallState
<1>5. EnabledHasSecret'
  BY DEF AccessInv, Safe, EnabledHasSecret, TypeOK, ResetMFA, At, Goto, Finish, Handling, Open,
         Admin, EndSessions, Permitted, UserRow, SessionRow, CallState
<1>6. OldPasswordOnlyByRace'
  BY DEF AccessInv, RowsHold, Safe, OldPasswordOnlyByRace, TypeOK, ResetMFA, At, Goto, Finish,
         Handling, Open, Admin, EndSessions, Permitted, UserRow, SessionRow, CallState
<1>7. AdminRemains'
  <2>1. ASSUME NEW v \in Users PROVE row'[v].role = row[v].role /\ row'[v].active = row[v].active
    BY DEF AccessInv, TypeOK, ResetMFA, UserRow
  <2>. QED
    BY <2>1 DEF AccessInv, Safe, AdminRemains, Admin, ResetMFA
<1>. QED
  BY <1>1, <1>2, <1>3, <1>4, <1>5, <1>6, <1>7 DEF AccessInv, Safe

\* Unlock writes only the counter and the lock.
LEMMA UnlockKeeps ==
    ASSUME AccessInv, NEW c \in Calls, NEW u \in Users, row[u].role # None, Unlock(c, u)
    PROVE  AccessInv'
<1>1. TypeOK'
  <2>1. row' \in [Users -> UserRow]
    <3>. DEFINE r == [row[u] EXCEPT !.failed = 0, !.locked = FALSE]
    <3>1. u \in Users /\ row[u] \in UserRow
      BY DEF AccessInv, TypeOK, CallState
    <3>2. r \in UserRow
      BY <3>1, ZeroFailures DEF AccessInv, TypeOK, CallState, UserRow, Roles
    <3>3. row' = [row EXCEPT ![u] = r]
      BY <3>1 DEF AccessInv, TypeOK, Unlock
    <3>. QED
      BY <3>1, <3>2, <3>3 DEF AccessInv, TypeOK
  <2>2. session' \in [Sessions -> SessionRow]
    BY DEF AccessInv, TypeOK, Unlock
  <2>3. call' \in [Calls -> CallState]
    BY FinishType DEF AccessInv, TypeOK, Unlock
  <2>4. resets' \in [Users -> Nat] /\ stale' \subseteq {"update", "enable"}
    BY DEF AccessInv, TypeOK, Unlock
  <2>. QED
    BY <2>1, <2>2, <2>3, <2>4 DEF TypeOK
<1>2. CallsHold'
  BY DEF AccessInv, CallsHold, OnSession, LoginHasRow, CodeHasOp, CodeIsCurrent, OwnUpdateKeeps,
         RowsHold, TypeOK, Unlock, At, Goto, Finish, Handling, Open, Permitted, UserRow, SessionRow,
         CallState, Roles, None
<1>3. RowsHold'
  BY DEF AccessInv, CallsHold, LoginHasRow, RowsHold, TypeOK, Unlock, At, Goto, Finish, Handling,
         Open, Permitted, UserRow, SessionRow, CallState, Roles, None
<1>4. GrantedSinceReset'
  BY DEF AccessInv, CallsHold, OnSession, CodeIsCurrent, Safe, GrantedSinceReset, TypeOK, Unlock,
         At, Goto, Finish, Handling, Open, Admin, Permitted, UserRow, SessionRow, CallState
<1>5. EnabledHasSecret'
  BY DEF AccessInv, Safe, EnabledHasSecret, TypeOK, Unlock, At, Goto, Finish, Handling, Open, Admin,
         Permitted, UserRow, SessionRow, CallState
<1>6. OldPasswordOnlyByRace'
  BY DEF AccessInv, RowsHold, Safe, OldPasswordOnlyByRace, TypeOK, Unlock, At, Goto, Finish,
         Handling, Open, Admin, Permitted, UserRow, SessionRow, CallState
<1>7. AdminRemains'
  BY DEF AccessInv, CallsHold, OwnUpdateKeeps, Safe, AdminRemains, TypeOK, Unlock, At, Goto, Finish,
         Handling, Open, Admin, Permitted, UserRow, SessionRow, CallState, None
<1>. QED
  BY <1>1, <1>2, <1>3, <1>4, <1>5, <1>6, <1>7 DEF AccessInv, Safe

\* A lock that runs out changes nothing else.
LEMMA LockEndsKeeps ==
    ASSUME AccessInv, NEW u \in Users, LockEnds(u)
    PROVE  AccessInv'
<1>1. TypeOK'
  <2>1. row' \in [Users -> UserRow]
    <3>. DEFINE r == [row[u] EXCEPT !.locked = FALSE]
    <3>1. u \in Users /\ row[u] \in UserRow
      BY DEF AccessInv, TypeOK, CallState
    <3>2. r \in UserRow
      BY <3>1, ZeroFailures DEF AccessInv, TypeOK, CallState, UserRow, Roles
    <3>3. row' = [row EXCEPT ![u] = r]
      BY <3>1 DEF AccessInv, TypeOK, LockEnds
    <3>. QED
      BY <3>1, <3>2, <3>3 DEF AccessInv, TypeOK
  <2>2. session' \in [Sessions -> SessionRow]
    BY DEF AccessInv, TypeOK, LockEnds
  <2>3. call' \in [Calls -> CallState]
    BY DEF AccessInv, TypeOK, LockEnds
  <2>4. resets' \in [Users -> Nat] /\ stale' \subseteq {"update", "enable"}
    BY DEF AccessInv, TypeOK, LockEnds
  <2>. QED
    BY <2>1, <2>2, <2>3, <2>4 DEF TypeOK
<1>2. CallsHold'
  BY DEF AccessInv, CallsHold, OnSession, LoginHasRow, CodeHasOp, CodeIsCurrent, OwnUpdateKeeps,
         RowsHold, TypeOK, LockEnds, Open, UserRow, SessionRow, CallState, Roles, None
<1>3. RowsHold'
  BY DEF AccessInv, CallsHold, LoginHasRow, RowsHold, TypeOK, LockEnds, Open, UserRow, SessionRow,
         CallState, Roles, None
<1>4. GrantedSinceReset'
  BY DEF AccessInv, CallsHold, OnSession, CodeIsCurrent, Safe, GrantedSinceReset, TypeOK, LockEnds,
         Open, Admin, UserRow, SessionRow, CallState
<1>5. EnabledHasSecret'
  BY DEF AccessInv, Safe, EnabledHasSecret, TypeOK, LockEnds, Open, Admin, UserRow, SessionRow,
         CallState
<1>6. OldPasswordOnlyByRace'
  BY DEF AccessInv, RowsHold, Safe, OldPasswordOnlyByRace, TypeOK, LockEnds, Open, Admin, UserRow,
         SessionRow, CallState
<1>7. AdminRemains'
  BY DEF AccessInv, CallsHold, OwnUpdateKeeps, Safe, AdminRemains, TypeOK, LockEnds, Open, Admin,
         UserRow, SessionRow, CallState, None
<1>. QED
  BY <1>1, <1>2, <1>3, <1>4, <1>5, <1>6, <1>7 DEF AccessInv, Safe

\* A session that ages stays what it was.
LEMMA SessionAgesKeeps ==
    ASSUME AccessInv, NEW s \in Sessions, SessionAges(s)
    PROVE  AccessInv'
<1>1. TypeOK'
  <2>1. row' \in [Users -> UserRow]
    BY DEF AccessInv, TypeOK, SessionAges
  <2>2. session' \in [Sessions -> SessionRow]
    <3>. PICK age \in {"idle", "over"} : session' = [session EXCEPT ![s].age = age]
      BY DEF SessionAges
    <3>. DEFINE r == [session[s] EXCEPT !.age = age]
    <3>2. r \in SessionRow
      BY DEF AccessInv, TypeOK, SessionRow
    <3>3. session' = [session EXCEPT ![s] = r]
      OBVIOUS
    <3>. QED
      BY <3>2, <3>3 DEF AccessInv, TypeOK
  <2>3. call' \in [Calls -> CallState]
    BY DEF AccessInv, TypeOK, SessionAges
  <2>4. resets' \in [Users -> Nat] /\ stale' \subseteq {"update", "enable"}
    BY DEF AccessInv, TypeOK, SessionAges
  <2>. QED
    BY <2>1, <2>2, <2>3, <2>4 DEF TypeOK
<1>2. CallsHold'
  BY DEF AccessInv, CallsHold, OnSession, LoginHasRow, CodeHasOp, CodeIsCurrent, OwnUpdateKeeps,
         RowsHold, TypeOK, SessionAges, Open, UserRow, SessionRow, CallState, Roles, None
<1>3. RowsHold'
  BY DEF AccessInv, CallsHold, LoginHasRow, RowsHold, TypeOK, SessionAges, Open, UserRow,
         SessionRow, CallState, Roles, None
<1>4. GrantedSinceReset'
  BY DEF AccessInv, CallsHold, OnSession, CodeIsCurrent, Safe, GrantedSinceReset, TypeOK,
         SessionAges, Open, Admin, UserRow, SessionRow, CallState
<1>5. EnabledHasSecret'
  BY DEF AccessInv, Safe, EnabledHasSecret, TypeOK, SessionAges, Open, Admin, UserRow, SessionRow,
         CallState
<1>6. OldPasswordOnlyByRace'
  BY DEF AccessInv, RowsHold, Safe, OldPasswordOnlyByRace, TypeOK, SessionAges, Open, Admin,
         UserRow, SessionRow, CallState
<1>7. AdminRemains'
  BY DEF AccessInv, CallsHold, OwnUpdateKeeps, Safe, AdminRemains, TypeOK, SessionAges, Open, Admin,
         UserRow, SessionRow, CallState, None
<1>. QED
  BY <1>1, <1>2, <1>3, <1>4, <1>5, <1>6, <1>7 DEF AccessInv, Safe

\* Any Story, with nothing called yet, satisfies the invariant.
LEMMA InitHolds == Init => AccessInv
<1>. SUFFICES ASSUME Init PROVE AccessInv
  OBVIOUS
<1>1. PICK i \in Stories : row = i.row /\ session = i.session
  BY DEF Init
<1>2. Story(i)
  BY AccessConstants DEF ConstantsOK
<1>. DEFINE a == CHOOSE u \in Users : TRUE
            b == CHOOSE s \in Sessions : TRUE
<1>3. a \in Users /\ b \in Sessions
  BY <1>2, AccessConstants DEF Story, ConstantsOK
<1>4. call = [c \in Calls |-> Idle(a, b)]
  BY DEF Init
<1>. HIDE DEF a, b
<1>5. Idle(a, b) \in CallState /\ Idle(a, b).pc = "ready"
  BY <1>3, ZeroFailures DEF Idle, CallState, Steps, Ops, Roles
<1>6. resets = [u \in Users |-> 0] /\ stale = {}
  BY DEF Init
<1>7. TypeOK
  BY <1>1, <1>2, <1>4, <1>5, <1>6 DEF TypeOK, Story
<1>8. CallsHold
  BY <1>4, <1>5 DEF CallsHold, OnSession, LoginHasRow, CodeHasOp, CodeIsCurrent, OwnUpdateKeeps
<1>9. RowsHold
  BY <1>1, <1>2 DEF Story, RowsHold, Open
<1>10. GrantedSinceReset
  BY <1>1, <1>2, <1>6, <1>7 DEF Story, GrantedSinceReset, Open, TypeOK, SessionRow
<1>11. EnabledHasSecret /\ OldPasswordOnlyByRace /\ AdminRemains
  BY <1>1, <1>2 DEF Story, EnabledHasSecret, OldPasswordOnlyByRace, AdminRemains, Open, Admin
<1>. QED
  BY <1>7, <1>8, <1>9, <1>10, <1>11 DEF AccessInv, Safe

\* Every statement of every request keeps the invariant, and so does time.
LEMMA NextHolds == AccessInv /\ [Next]_vars => AccessInv'
<1>. SUFFICES ASSUME AccessInv, [Next]_vars PROVE AccessInv'
  OBVIOUS
<1>1. ASSUME NEW c \in Calls, SignIn(c) PROVE AccessInv'
  BY <1>1, LoginReadKeeps, LoginInsertKeeps, RecordFailureKeeps, MFAStartKeeps, CheckCodeKeeps,
     EnableTOTPKeeps, CompleteLoginKeeps, BeginTOTPSetupKeeps, ReauthPasswordKeeps, LogoutKeeps
     DEF SignIn
<1>2. ASSUME NEW c \in Calls, Authenticate(c) PROVE AccessInv'
  BY <1>2, AuthReadKeeps, AuthExpiredKeeps, AuthTouchKeeps DEF Authenticate
<1>3. ASSUME NEW c \in Calls, Administration(c) PROVE AccessInv'
  BY <1>3, AdminDeniedKeeps, UpdateSelfKeeps, UpdateWriteKeeps, UpdateSessionsKeeps, CreateUserKeeps,
     SetPasswordKeeps, ResetMFAKeeps, UnlockKeeps, UpdateStartKeeps DEF Administration
<1>4. ASSUME NEW u \in Users, LockEnds(u) PROVE AccessInv'
  BY <1>4, LockEndsKeeps
<1>5. ASSUME NEW s \in Sessions, SessionAges(s) PROVE AccessInv'
  BY <1>5, SessionAgesKeeps
<1>6. CASE UNCHANGED vars
  BY <1>6 DEF vars, AccessInv, TypeOK, CallsHold, OnSession, LoginHasRow, CodeHasOp, CodeIsCurrent,
              OwnUpdateKeeps, RowsHold, Safe, GrantedSinceReset, EnabledHasSecret,
              OldPasswordOnlyByRace, AdminRemains, Open, Admin
<1>. QED
  BY <1>1, <1>2, <1>3, <1>4, <1>5, <1>6 DEF Next

\* The invariant of the panel's sign-in and user administration.
LEMMA AccessHolds == Spec => []AccessInv
<1>. QED
  BY InitHolds, NextHolds, PTL DEF Spec

\* ResetMFA takes the second factor away as a whole, in the middle of any number
\* of sign-ins: no session and no enabled flag survives that rests on it.
THEOREM SecondFactorIsWhole == Spec => []SecondFactorHolds
<1>1. AccessInv => SecondFactorHolds
  BY DEF AccessInv, Safe, SecondFactorHolds
<1>. QED
  BY <1>1, AccessHolds, PTL

\* SetPassword ends every session opened with the old password, except one whose
\* Login had read the user before and inserted its row after.
THEOREM OldPasswordsEnd == Spec => []OldPasswordOnlyByRace
<1>1. AccessInv => OldPasswordOnlyByRace
  BY DEF AccessInv, Safe
<1>. QED
  BY <1>1, AccessHolds, PTL

\* However many administrators update each other and themselves at once, one
\* remains, unless an update was compared or written for one already demoted.
THEOREM AnAdminRemains == Spec => []AdminRemains
<1>1. AccessInv => AdminRemains
  BY DEF AccessInv, Safe
<1>. QED
  BY <1>1, AccessHolds, PTL

===============================================================================
