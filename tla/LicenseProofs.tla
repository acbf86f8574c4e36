----------------------------- MODULE LicenseProofs -----------------------------
(* What TLAPS proves of License, for every set of tokens and requests. *)
EXTENDS License, TLAPS

\* The floor is never behind the row, and TouchClock raises it first.
FloorLeads == floor >= maxSeen /\ (At(Loop, "touch") => floor >= call[Loop].now)

\* While nothing went out of step, at most one call is between the guard and
\* the row, and the guard holds what it is about to write.
OneWriter ==
  ~torn => \A p \in Between :
             /\ \A q \in Between : q = p
             /\ At(p, "store") => lic = call[p].tok
             /\ At(p, "null") => lic = NoLicense

\* Only tokens of this installation get as far as the row.
RowIsBound ==
  /\ token = NoLicense \/ token.bound
  /\ \A p \in Procs : At(p, "store") => call[p].tok.bound

\* The row holds the license in force, or one Load has found expired.
RowInForce ==
  Between = {} /\ ~torn => lic = token \/ (lic = NoLicense /\ crashes > 0 /\ floor >= token.notAfter)

\* A heartbeat that was told "revoked" asked about a license that is.
AnswersTrue ==
  \A p \in Procs : /\ At(p, "ready") \/ At(p, "request") \/ At(p, "post") => call[p].answer = "none"
                   /\ call[p].answer = "revoked" => call[p].sent \in revoked

\* The inductive invariant.
LicenseInv == TypeOK /\ FloorLeads /\ OneWriter /\ RowIsBound /\ RowInForce /\ AnswersTrue

\* The later of two times is a time, and not before either.
LEMMA LaterIsLater ==
  ASSUME NEW a \in 0..MaxClock, NEW b \in 0..MaxClock
  PROVE  Later(a, b) \in 0..MaxClock /\ Later(a, b) >= a /\ Later(a, b) >= b
  BY LicenseConstants DEF Later, LicenseConstants

\* The kinds of calls and licenses.
LEMMA FreshTypes ==
  /\ Fresh \in CallState /\ NoLicense \in Licenses /\ [Fresh EXCEPT !.pc = "done"] \in CallState
  /\ Loop \in Procs
  BY LicenseConstants DEF LicenseConstants, Fresh, CallState, Licenses, Answers, Procs

\* A call ends in a state of its kind, past the row and without an answer.
LEMMA FinishType ==
  ASSUME TypeOK, NEW p \in Procs, Finish(p)
  PROVE  /\ call' \in [Procs -> CallState]
         /\ \A q \in Procs \ {p} : call'[q] = call[q]
         /\ call'[p].pc \in {"ready", "done"} /\ call'[p].answer = "none"
  BY FreshTypes DEF TypeOK, Finish, Fresh

\* A step of one call that writes neither the guard nor the row.
LEMMA CallOnly ==
  ASSUME LicenseInv, NEW p \in Procs, UNCHANGED <<lic, floor, token, maxSeen, clock, revoked, crashes, torn>>,
         call' \in [Procs -> CallState], \A q \in Procs \ {p} : call'[q] = call[q],
         call[p].pc \notin {"store", "null"}, call'[p].pc \notin {"store", "null", "touch"},
         call'[p].pc \in {"ready", "request", "post"} => call'[p].answer = "none",
         call'[p].answer = "revoked" => call'[p].sent \in revoked
  PROVE  LicenseInv'
  <1>1. TypeOK' BY DEF LicenseInv, TypeOK
  <1>2. Between' = Between BY DEF Between
  <1>3. FloorLeads' BY FreshTypes DEF LicenseInv, FloorLeads, At
  <1>4. OneWriter'
    <2>1. \A q \in Between : call'[q] = call[q] BY DEF Between
    <2> QED BY <1>2, <2>1 DEF LicenseInv, OneWriter, At
  <1>5. RowIsBound' BY DEF LicenseInv, RowIsBound, At
  <1>6. RowInForce' BY <1>2 DEF LicenseInv, RowInForce
  <1>7. AnswersTrue' BY DEF LicenseInv, AnswersTrue, At
  <1> QED BY <1>1, <1>3, <1>4, <1>5, <1>6, <1>7 DEF LicenseInv

\* Uploads, activations and heartbeats up to their answer.
LEMMA AskingKeeps ==
  ASSUME LicenseInv, NEW p \in Procs,
         \/ \E t \in Tokens : Upload(p, t)
         \/ \E key \in BOOLEAN : Activate(p, key)
         \/ HeartbeatBegin(p) \/ HeartbeatRequest(p) \/ Answered(p)
  PROVE  LicenseInv'
  <1>0. /\ call \in [Procs -> CallState] /\ lic \in Licenses /\ call[p] \in CallState
        /\ At(p, "ready") \/ At(p, "request") \/ At(p, "post") => call[p].answer = "none"
    BY DEF LicenseInv, TypeOK, AnswersTrue
  <1>1. ASSUME Finish(p), UNCHANGED <<lic, floor, token, maxSeen, clock, revoked, crashes, torn>>,
               call[p].pc \notin {"store", "null"}
        PROVE  LicenseInv'
    BY <1>1, FinishType, CallOnly DEF LicenseInv
  <1>2. ASSUME NEW t \in Tokens, Upload(p, t) PROVE LicenseInv'
    <2>1. call' \in [Procs -> CallState] /\ \A q \in Procs \ {p} : call'[q] = call[q]
      BY <1>0, <1>2 DEF Upload, CallState, Licenses
    <2>2. call'[p].pc = "install" /\ call'[p].answer = "none" BY <1>0, <1>2 DEF Upload, CallState
    <2> QED BY <1>2, <2>1, <2>2, CallOnly DEF Upload, At
  <1>3. ASSUME NEW key \in BOOLEAN, Activate(p, key) PROVE LicenseInv'
    <2>1. CASE key \/ lic # NoLicense
      <3>1. call' \in [Procs -> CallState] /\ \A q \in Procs \ {p} : call'[q] = call[q]
        BY <1>0, <1>3, <2>1 DEF Activate, CallState
      <3>2. call'[p].pc = "post" /\ call'[p].answer = "none" BY <1>0, <1>3, <2>1 DEF Activate, CallState
      <3> QED BY <1>3, <3>1, <3>2, CallOnly DEF Activate, At
    <2>2. CASE ~(key \/ lic # NoLicense) BY <1>1, <1>3, <2>2 DEF Activate, At
    <2> QED BY <2>1, <2>2
  <1>4. CASE HeartbeatBegin(p)
    <2>1. CASE lic # NoLicense /\ lic.online
      <3>1. call' \in [Procs -> CallState] /\ \A q \in Procs \ {p} : call'[q] = call[q]
        BY <1>0, <1>4, <2>1 DEF HeartbeatBegin, CallState
      <3>2. call'[p].pc = "request" /\ call'[p].answer = "none" BY <1>0, <1>4, <2>1 DEF HeartbeatBegin, CallState
      <3> QED BY <1>4, <3>1, <3>2, CallOnly DEF HeartbeatBegin, At
    <2>2. CASE ~(lic # NoLicense /\ lic.online) BY <1>1, <1>4, <2>2 DEF HeartbeatBegin, At
    <2> QED BY <2>1, <2>2
  <1>5. CASE HeartbeatRequest(p)
    <2>1. CASE lic # NoLicense
      <3>1. call' \in [Procs -> CallState] /\ \A q \in Procs \ {p} : call'[q] = call[q]
        BY <1>0, <1>5, <2>1 DEF HeartbeatRequest, CallState
      <3>2. call'[p].pc = "post" /\ call'[p].answer = "none" BY <1>0, <1>5, <2>1 DEF HeartbeatRequest, CallState
      <3> QED BY <1>5, <3>1, <3>2, CallOnly DEF HeartbeatRequest, At
    <2>2. CASE lic = NoLicense BY <1>1, <1>5, <2>2 DEF HeartbeatRequest, At
    <2> QED BY <2>1, <2>2
  <1>6. ASSUME NEW a \in Answers, NEW t \in Licenses, ServerAnswers(p, a, t) PROVE LicenseInv'
    <2>1. call' \in [Procs -> CallState] /\ \A q \in Procs \ {p} : call'[q] = call[q]
      BY <1>0, <1>6 DEF ServerAnswers, Kept, CallState
    <2>2. call'[p].pc = "answer" /\ call'[p].answer = a /\ call'[p].sent = call[p].sent
      BY <1>0, <1>6 DEF ServerAnswers, Kept, CallState
    <2>3. a = "revoked" => call[p].sent \in revoked BY <1>6 DEF ServerAnswers
    <2> QED BY <1>6, <2>1, <2>2, <2>3, CallOnly DEF ServerAnswers, At
  <1> QED BY <1>2, <1>3, <1>4, <1>5, <1>6 DEF Answered

\* A writer of the guard is the only one between the guard and the row, or the
\* two are out of step.
LEMMA WritingKeeps ==
  ASSUME LicenseInv, NEW p \in Procs, UNCHANGED <<floor, token, maxSeen, clock, revoked, crashes>>,
         torn' = (torn \/ Between # {}), lic' \in Licenses,
         call' \in [Procs -> CallState], \A q \in Procs \ {p} : call'[q] = call[q],
         call[p].pc \notin {"store", "null"}, call'[p].pc \in {"store", "null"},
         call'[p].answer = "revoked" => call'[p].sent \in revoked,
         call'[p].pc = "store" => lic' = call'[p].tok /\ call'[p].tok.bound,
         call'[p].pc = "null" => lic' = NoLicense
  PROVE  LicenseInv'
  <1>1. TypeOK' BY DEF LicenseInv, TypeOK
  <1>2. p \notin Between /\ Between' = Between \cup {p} BY DEF Between
  <1>3. FloorLeads' BY FreshTypes DEF LicenseInv, FloorLeads, At
  <1>4. OneWriter' BY <1>2 DEF OneWriter, At
  <1>5. RowIsBound' BY DEF LicenseInv, RowIsBound, At
  <1>6. RowInForce' BY <1>2 DEF RowInForce
  <1>7. AnswersTrue' BY DEF LicenseInv, AnswersTrue, At
  <1> QED BY <1>1, <1>3, <1>4, <1>5, <1>6, <1>7 DEF LicenseInv

\* The answer is taken; a revocation empties the guard.
LEMMA ReceiveKeeps ==
  ASSUME LicenseInv, NEW p \in Procs, Receive(p) PROVE LicenseInv'
  <1>0. call \in [Procs -> CallState] /\ call[p] \in CallState /\ call[p].pc = "answer" BY DEF LicenseInv, TypeOK, Receive, At
  <1>1. UNCHANGED <<floor, token, maxSeen, clock, revoked, crashes>> BY DEF Receive
  <1>2. CASE call[p].answer = "updated"
    <2>1. call' = [call EXCEPT ![p] = [Fresh EXCEPT !.pc = "install", !.tok = call[p].tok]] /\ UNCHANGED <<lic, torn>>
      BY <1>2 DEF Receive
    <2>2. call' \in [Procs -> CallState] /\ \A q \in Procs \ {p} : call'[q] = call[q]
      BY <1>0, <2>1, FreshTypes DEF CallState, Fresh
    <2>3. call'[p].pc = "install" /\ call'[p].answer = "none" BY <1>0, <2>1 DEF Fresh
    <2> QED BY <1>0, <1>1, <2>1, <2>2, <2>3, CallOnly
  <1>3. CASE call[p].answer = "revoked"
    <2>1. /\ call' = [call EXCEPT ![p] = [Fresh EXCEPT !.pc = "null"]] /\ lic' = NoLicense
          /\ torn' = (torn \/ Between # {})
      BY <1>3 DEF Receive
    <2>2. call' \in [Procs -> CallState] /\ \A q \in Procs \ {p} : call'[q] = call[q]
      BY <1>0, <2>1, FreshTypes DEF CallState, Fresh
    <2>3. call'[p].pc = "null" /\ call'[p].answer = "none" BY <1>0, <2>1 DEF Fresh
    <2> QED BY <1>0, <1>1, <2>1, <2>2, <2>3, WritingKeeps, FreshTypes
  <1>4. CASE call[p].answer \in {"ok", "error"}
    <2>1. Finish(p) /\ UNCHANGED <<lic, torn>> BY <1>4 DEF Receive
    <2> QED BY <1>0, <1>1, <2>1, FinishType, CallOnly DEF LicenseInv
  <1> QED BY <1>2, <1>3, <1>4 DEF Receive

\* Guard.Install: what it accepts is bound to this installation.
LEMMA InstallKeeps ==
  ASSUME LicenseInv, NEW p \in Procs, Install(p) PROVE LicenseInv'
  <1>0. call \in [Procs -> CallState] /\ call[p] \in CallState /\ call[p].pc = "install"
    BY DEF LicenseInv, TypeOK, Install, At
  <1>1. UNCHANGED <<floor, token, maxSeen, clock, revoked, crashes>> BY DEF Install
  <1>2. CASE Accepts(call[p].tok, lic, Now)
    <2>1. lic' = call[p].tok /\ torn' = (torn \/ Between # {}) /\ call' = [call EXCEPT ![p].pc = "store"]
      BY <1>2 DEF Install, Goto
    <2>2. call' \in [Procs -> CallState] /\ \A q \in Procs \ {p} : call'[q] = call[q]
      BY <1>0, <2>1 DEF CallState
    <2>3. call'[p].pc = "store" /\ call'[p].tok = call[p].tok /\ call'[p].answer = call[p].answer
          /\ call'[p].sent = call[p].sent
      BY <1>0, <2>1 DEF CallState
    <2>4. call[p].tok.bound /\ call[p].tok \in Licenses BY <1>0, <1>2 DEF Accepts, CallState
    <2>5. call[p].answer = "revoked" => call[p].sent \in revoked BY DEF LicenseInv, AnswersTrue
    <2> QED BY <1>0, <1>1, <2>1, <2>2, <2>3, <2>4, <2>5, WritingKeeps
  <1>3. CASE ~Accepts(call[p].tok, lic, Now)
    <2>1. Finish(p) /\ UNCHANGED <<lic, torn>> BY <1>3 DEF Install
    <2> QED BY <1>0, <1>1, <2>1, FinishType, CallOnly DEF LicenseInv
  <1> QED BY <1>2, <1>3

\* The row is written with what the guard holds, or the two are out of step.
LEMMA StoreKeeps ==
  ASSUME LicenseInv, NEW p \in Procs, Store(p) PROVE LicenseInv'
  <1>1. /\ UNCHANGED <<lic, floor, maxSeen, clock, revoked, crashes>> /\ p \in Between
        /\ call' \in [Procs -> CallState] /\ \A q \in Procs \ {p} : call'[q] = call[q]
        /\ call'[p].pc \in {"ready", "done"} /\ call'[p].answer = "none"
    BY FinishType DEF Store, LicenseInv
  <1>2. call[p] \in CallState /\ call[p].pc \in {"store", "null"} BY <1>1 DEF LicenseInv, TypeOK, Between
  <1>3. Between' = Between \ {p} BY <1>1 DEF Between
  <1>4. \/ token' = call[p].tok /\ call[p].pc = "store" /\ UNCHANGED torn
        \/ token' = NoLicense /\ call[p].pc = "null" /\ UNCHANGED torn
        \/ UNCHANGED token /\ torn' = TRUE
    BY DEF Store, Write, At
  <1>5. TypeOK' BY <1>1, <1>2, <1>4, FreshTypes DEF LicenseInv, TypeOK, CallState
  <1>6. FloorLeads' BY <1>1, FreshTypes DEF LicenseInv, FloorLeads, At
  <1>7. OneWriter'
    <2>1. \A q \in Between' : call'[q] = call[q] /\ q \in Between BY <1>1, <1>3 DEF Between
    <2>2. torn' \in BOOLEAN /\ (torn => torn') BY <1>4 DEF LicenseInv, TypeOK
    <2> QED BY <1>1, <1>3, <2>1, <2>2 DEF LicenseInv, OneWriter, At
  <1>8. RowIsBound' BY <1>1, <1>4 DEF LicenseInv, RowIsBound, At
  <1>9. RowInForce'
    <2> SUFFICES ASSUME ~torn' PROVE lic' = token' BY DEF RowInForce
    <2>1. ~torn /\ (call[p].pc = "store" => lic = call[p].tok) /\ (call[p].pc = "null" => lic = NoLicense)
      BY <1>1, <1>4 DEF LicenseInv, OneWriter, At
    <2> QED BY <1>1, <1>4, <2>1
  <1>10. AnswersTrue' BY <1>1 DEF LicenseInv, AnswersTrue, At
  <1> QED BY <1>5, <1>6, <1>7, <1>8, <1>9, <1>10 DEF LicenseInv

\* TouchClock raises the floor and then the row, with the time it read once.
LEMMA TouchKeeps ==
  ASSUME LicenseInv, TouchFloor \/ TouchRow PROVE LicenseInv'
  <1>0. /\ call \in [Procs -> CallState] /\ call[Loop] \in CallState /\ Loop \in Procs
        /\ floor \in 0..MaxClock /\ maxSeen \in 0..MaxClock /\ clock \in 0..MaxClock
    BY FreshTypes DEF LicenseInv, TypeOK
  <1>1. UNCHANGED <<lic, token, clock, revoked, crashes, torn>> BY DEF TouchFloor, TouchRow
  <1>2. /\ call' \in [Procs -> CallState] /\ \A q \in Procs \ {Loop} : call'[q] = call[q]
        /\ call[Loop].pc \notin {"store", "null"} /\ call'[Loop].pc \notin {"store", "null", "request", "post"}
        /\ call'[Loop].answer = "none"
        /\ floor' \in 0..MaxClock /\ maxSeen' \in 0..MaxClock /\ floor' >= floor /\ floor' >= maxSeen'
        /\ call'[Loop].pc = "touch" => floor' >= call'[Loop].now
    <2>1. CASE TouchFloor
      <3>1. /\ call' = [call EXCEPT ![Loop].pc = "touch", ![Loop].now = clock] /\ UNCHANGED maxSeen
            /\ floor' = Later(floor, clock) /\ call[Loop].pc = "ready"
        BY <2>1 DEF TouchFloor, At
      <3>2. floor' \in 0..MaxClock /\ floor' >= floor /\ floor' >= clock BY <1>0, <3>1, LaterIsLater
      <3>3. call[Loop].answer = "none" BY <1>0, <3>1 DEF LicenseInv, AnswersTrue, At
      <3>4. call' \in [Procs -> CallState] /\ \A q \in Procs \ {Loop} : call'[q] = call[q]
        BY <1>0, <3>1 DEF CallState
      <3>5. call'[Loop].pc = "touch" /\ call'[Loop].now = clock /\ call'[Loop].answer = "none"
        BY <1>0, <3>1, <3>3 DEF CallState
      <3>6. floor >= maxSeen BY DEF LicenseInv, FloorLeads
      <3> QED BY <1>0, <3>1, <3>2, <3>4, <3>5, <3>6, LicenseConstants DEF LicenseConstants
    <2>2. CASE TouchRow
      <3>1. /\ Finish(Loop) /\ UNCHANGED floor /\ maxSeen' = Later(maxSeen, call[Loop].now)
            /\ call[Loop].pc = "touch"
        BY <2>2 DEF TouchRow, At
      <3>2. call[Loop].now \in 0..MaxClock BY <1>0 DEF CallState
      <3>3. floor >= maxSeen /\ floor >= call[Loop].now BY <3>1 DEF LicenseInv, FloorLeads, At
      <3>4. maxSeen' \in 0..MaxClock BY <1>0, <3>1, <3>2, LaterIsLater
      <3>5. floor >= maxSeen' BY <1>0, <3>1, <3>2, <3>3 DEF Later
      <3> QED BY <1>0, <3>1, <3>4, <3>5, FinishType DEF LicenseInv
    <2> QED BY <2>1, <2>2
  <1>3. Between' = Between BY <1>2 DEF Between
  <1>4. TypeOK' BY <1>1, <1>2 DEF LicenseInv, TypeOK
  <1>5. FloorLeads' BY <1>2 DEF FloorLeads, At
  <1>6. OneWriter'
    <2>1. \A q \in Between : call'[q] = call[q] BY <1>2 DEF Between
    <2> QED BY <1>1, <1>3, <2>1 DEF LicenseInv, OneWriter, At
  <1>7. RowIsBound' BY <1>1, <1>2 DEF LicenseInv, RowIsBound, At
  <1>8. RowInForce'
    <2> SUFFICES ASSUME Between = {}, ~torn PROVE lic = token \/ (lic = NoLicense /\ crashes > 0 /\ floor' >= token.notAfter)
      BY <1>1, <1>3 DEF RowInForce
    <2>1. CASE lic = token BY <2>1
    <2>2. CASE lic = NoLicense /\ crashes > 0 /\ floor >= token.notAfter
      <3>1. token.notAfter \in Nat BY LicenseConstants DEF LicenseInv, TypeOK, LicenseConstants, Licenses, Token, NoLicense
      <3> QED BY <1>0, <1>2, <2>2, <3>1, LicenseConstants DEF LicenseConstants
    <2> QED BY <2>1, <2>2 DEF LicenseInv, RowInForce
  <1>9. AnswersTrue' BY <1>1, <1>2 DEF LicenseInv, AnswersTrue, At
  <1> QED BY <1>4, <1>5, <1>6, <1>7, <1>8, <1>9 DEF LicenseInv

\* Load: the floor and the license come from the row.
LEMMA RestartKeeps ==
  ASSUME LicenseInv, Restart PROVE LicenseInv'
  <1>0. /\ maxSeen \in 0..MaxClock /\ clock \in 0..MaxClock /\ crashes \in 0..MaxCrashes /\ token \in Licenses
    BY DEF LicenseInv, TypeOK
  <1>1. /\ Later(maxSeen, clock) \in 0..MaxClock /\ Later(maxSeen, clock) = Later(clock, maxSeen)
        /\ MaxCrashes \in Nat /\ token.notAfter \in Nat
    BY <1>0, LaterIsLater, LicenseConstants DEF Later, LicenseConstants, Licenses, Token, NoLicense
  <1>2. /\ UNCHANGED <<token, clock, revoked>> /\ crashes' = crashes + 1 /\ crashes < MaxCrashes
        /\ torn' = (torn \/ Between # {})
        /\ floor' = IF token = NoLicense THEN maxSeen ELSE Later(maxSeen, clock)
        /\ maxSeen' = floor'
        /\ lic' = IF token # NoLicense /\ Accepts(token, NoLicense, Later(clock, maxSeen)) THEN token ELSE NoLicense
        /\ call' = [p \in Procs |-> IF p = Loop \/ At(p, "ready") THEN Fresh ELSE [Fresh EXCEPT !.pc = "done"]]
    BY DEF Restart, LoadFloor
  <1>3. \A p \in Procs : call'[p].pc \in {"ready", "done"} /\ call'[p].answer = "none" BY <1>2 DEF Fresh
  <1>4. call' \in [Procs -> CallState] BY <1>2, FreshTypes
  <1>5. Between' = {} BY <1>3 DEF Between
  <1>6. TypeOK' BY <1>0, <1>1, <1>2, <1>4, FreshTypes DEF LicenseInv, TypeOK
  <1>7. FloorLeads'
    <2>1. floor' \in 0..MaxClock BY <1>0, <1>1, <1>2
    <2> QED BY <1>2, <1>3, <2>1, FreshTypes, LicenseConstants DEF FloorLeads, At, LicenseConstants
  <1>8. OneWriter' BY <1>5 DEF OneWriter
  <1>9. RowIsBound' BY <1>2, <1>3 DEF LicenseInv, RowIsBound, At
  <1>10. RowInForce'
    <2> SUFFICES lic' = token \/ (lic' = NoLicense /\ crashes' > 0 /\ floor' >= token.notAfter)
      BY <1>2 DEF RowInForce
    <2>1. CASE token = NoLicense BY <1>2, <2>1
    <2>2. CASE token # NoLicense
      <3>1. CASE Accepts(token, NoLicense, Later(clock, maxSeen)) BY <1>2, <2>2, <3>1
      <3>2. CASE ~Accepts(token, NoLicense, Later(clock, maxSeen))
        <4>1. ~(Later(clock, maxSeen) < token.notAfter) BY <2>2, <3>2 DEF Accepts, LicenseInv, RowIsBound
        <4>2. floor' >= token.notAfter BY <1>0, <1>1, <1>2, <2>2, <4>1, LicenseConstants DEF LicenseConstants
        <4> QED BY <1>0, <1>1, <1>2, <3>2, <4>2
      <3> QED BY <3>1, <3>2
    <2> QED BY <2>1, <2>2
  <1>11. AnswersTrue' BY <1>3 DEF AnswersTrue, At
  <1> QED BY <1>6, <1>7, <1>8, <1>9, <1>10, <1>11 DEF LicenseInv

\* The clock, the server's revocations, and stuttering.
LEMMA OutsideKeeps ==
  ASSUME LicenseInv,
         \/ \E t \in 0..MaxClock : SetClock(t)
         \/ \E t \in Tokens : Revoke(t)
         \/ UNCHANGED vars
  PROVE  LicenseInv'
  <1>1. UNCHANGED <<lic, floor, token, maxSeen, call, crashes, torn>> /\ revoked \subseteq revoked'
    BY DEF SetClock, Revoke, vars
  <1>2. clock' \in 0..MaxClock /\ revoked' \subseteq Tokens BY DEF SetClock, Revoke, vars, LicenseInv, TypeOK
  <1>3. Between' = Between BY <1>1 DEF Between
  <1>4. TypeOK' BY <1>1, <1>2 DEF LicenseInv, TypeOK
  <1>5. FloorLeads' /\ OneWriter' /\ RowIsBound' /\ RowInForce'
    BY <1>1, <1>3 DEF LicenseInv, FloorLeads, OneWriter, RowIsBound, RowInForce, At
  <1>6. AnswersTrue' BY <1>1 DEF LicenseInv, AnswersTrue, At
  <1> QED BY <1>4, <1>5, <1>6 DEF LicenseInv

\* The invariant holds in every state.
LEMMA LicenseAlways == Spec => []LicenseInv
  <1>1. Init => LicenseInv
    <2> SUFFICES ASSUME Init PROVE LicenseInv OBVIOUS
    <2>1. TypeOK
      <3>1. 0 \in 0..MaxClock /\ 0 \in 0..MaxCrashes BY LicenseConstants DEF LicenseConstants
      <3>2. call \in [Procs -> CallState] BY FreshTypes DEF Init
      <3> QED BY <3>1, <3>2, FreshTypes DEF Init, TypeOK
    <2>2. \A p \in Procs : call[p].pc = "ready" /\ call[p].answer = "none" BY DEF Init, Fresh
    <2>3. Between = {} BY <2>2 DEF Between
    <2> QED BY <2>1, <2>2, <2>3, FreshTypes DEF Init, LicenseInv, FloorLeads, OneWriter, RowIsBound, RowInForce, AnswersTrue, At
  <1>2. LicenseInv /\ [Next]_vars => LicenseInv'
    <2> SUFFICES ASSUME LicenseInv, [Next]_vars PROVE LicenseInv' OBVIOUS
    <2> QED BY AskingKeeps, ReceiveKeeps, InstallKeeps, StoreKeeps, TouchKeeps, RestartKeeps, OutsideKeeps
            DEF Next, Heartbeat
  <1> QED BY <1>1, <1>2, PTL DEF Spec

\* Manager and the guard: a license that expired at a time the row knows stays
\* expired whatever happens to the clock, and the row and the guard hold the
\* same license unless two writers overlapped or a write was lost.
THEOREM GuardAndRowAgree == Spec => []GuardAgreesWithRow
  <1>1. LicenseInv => GuardAgreesWithRow
    <2> SUFFICES ASSUME LicenseInv PROVE GuardAgreesWithRow OBVIOUS
    <2>1. ExpiredStaysExpired
      <3> SUFFICES ASSUME lic # NoLicense, maxSeen >= lic.notAfter PROVE DeviceStatus = "expired"
        BY DEF ExpiredStaysExpired
      <3>1. floor \in 0..MaxClock /\ clock \in 0..MaxClock /\ maxSeen \in 0..MaxClock /\ lic.notAfter \in Nat
        BY LicenseConstants DEF LicenseInv, TypeOK, LicenseConstants, Licenses, Token
      <3>2. Later(clock, floor) \in 0..MaxClock /\ Later(clock, floor) >= floor /\ floor >= maxSeen
        BY <3>1, LaterIsLater DEF LicenseInv, FloorLeads
      <3>3. ~(Later(clock, floor) < lic.notAfter) BY <3>1, <3>2, LicenseConstants DEF LicenseConstants
      <3> QED BY <3>3 DEF DeviceStatus, Status, Now
    <2>2. StoredIsInForce BY DEF LicenseInv, RowInForce, StoredIsInForce
    <2> QED BY <2>1, <2>2 DEF LicenseInv, GuardAgreesWithRow
  <1> QED BY <1>1, LicenseAlways, PTL

\* Guard.Install and the heartbeat: while the process lives, a license gives
\* way only to one issued no earlier, or to the server's word that it, or the
\* one before it, is revoked.
THEOREM LicensesGiveWay == Spec => GivesWayOnlyToNewer
  <1> DEFINE Lost == lic # NoLicense /\ lic' = NoLicense /\ crashes' = crashes =>
                       lic \in revoked \/ \E p \in Procs : call[p].answer = "revoked" /\ call[p].sent # lic
             Older == lic # NoLicense /\ lic' # NoLicense /\ crashes' = crashes => lic'.issued >= lic.issued
  <1>1. LicenseInv /\ [Next]_vars => Lost /\ Older
    <2> SUFFICES ASSUME LicenseInv, [Next]_vars PROVE Lost /\ Older OBVIOUS
    <2>1. lic \in Licenses /\ (lic # NoLicense => lic.issued \in Nat)
      BY LicenseConstants DEF LicenseInv, TypeOK, LicenseConstants, Licenses, Token
    <2>2. UNCHANGED lic => Lost /\ Older BY <2>1
    <2>3. ASSUME NEW p \in Procs, Install(p), ~UNCHANGED lic PROVE Lost /\ Older
      <3>1. lic' = call[p].tok /\ Accepts(call[p].tok, lic, Now) BY <2>3 DEF Install
      <3>2. lic' # NoLicense BY <3>1 DEF Accepts, NoLicense
      <3> QED BY <3>1, <3>2 DEF Accepts
    <2>4. ASSUME NEW p \in Procs, Receive(p), ~UNCHANGED lic PROVE Lost /\ Older
      <3>1. lic' = NoLicense /\ call[p].answer = "revoked" BY <2>4 DEF Receive
      <3>2. call[p].sent \in revoked BY <3>1 DEF LicenseInv, AnswersTrue
      <3> QED BY <3>1, <3>2
    <2>5. CASE Restart
      <3>1. crashes' # crashes BY <2>5 DEF Restart, LicenseInv, TypeOK
      <3> QED BY <3>1
    <2>6. UNCHANGED lic \/ Restart \/ \E p \in Procs : Install(p) \/ Receive(p)
      BY DEF Next, Heartbeat, Answered, HeartbeatBegin, HeartbeatRequest, ServerAnswers, Store, Upload, Activate,
         TouchFloor, TouchRow, SetClock, Revoke, vars
    <2> QED BY <2>2, <2>3, <2>4, <2>5, <2>6
  <1>2. LicenseInv /\ [Next]_vars => [Lost]_vars /\ [Older]_vars BY <1>1
  <1> QED BY <1>2, LicenseAlways, PTL DEF Spec, GivesWayOnlyToNewer, LostOnlyWhenRevoked, NeverOlder
===============================================================================
