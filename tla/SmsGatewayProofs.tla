--------------------------- MODULE SmsGatewayProofs ---------------------------
(* The properties of SmsGateway for any number of users, devices and calls. A   *)
(* call between two statements holds a record of what it has read; Fits says    *)
(* what that record is still good for, and every step of every other call has   *)
(* to keep it so or mark the call as disturbed.                                 *)
EXTENDS SmsGateway, FiniteSetTheorems, TLAPS

\* The names Usage counts: active users and names synced from a device.
Counted == Active \cup {n \in Names : \E d \in Devices : <<d, n>> \in synced}

\* The operations that ask the license for room.
AddingOps == {"create", "activate", "import"}

\* A call that works on a user names one, and says what it is.
NameFits(r) ==
    /\ r.pc = "ready" => r = Ready
    /\ r.pc \in {"capacity", "write", "rate", "send"} => r.name \in Names
    /\ r.pc \in {"capacity", "write"} => r.op \in AddingOps
    /\ r.pc = "next" => r.op \in {"import", "mail"}
    /\ r.pc \in {"relay", "code"} => r.op = "mail"
    /\ r.pc = "commit" => r.op = "sync"
    /\ r.pc \in {"rate", "send"} => r.op \in {"mail", "radius"}

\* checkCapacity counted a place for the user about to be written.
RoomFits(c, r) ==
    r.pc = "write" /\ c \notin disturbed => Room(1) \/ users[r.name] = "active"

\* ImportDirectory counted places for all the users it still has to add.
ImportFits(c, r) ==
    r.op = "import" /\ c \notin disturbed =>
       /\ r.pc = "done" => ~r.failed \/ r.done = {}
       /\ r.pc \in {"next", "capacity", "write"} => ~r.failed /\ \A n \in r.todo : users[n] = "none"
       /\ r.pc = "next" => Room(Cardinality(r.todo))
       /\ r.pc \in {"capacity", "write"} =>
             r.name \notin r.todo /\ users[r.name] = "none" /\ Room(Cardinality(r.todo) + 1)

\* A mobile of the mail was sent to, is still to be, or the mail has failed.
MailFits(r) ==
    r.op = "mail" /\ ~r.failed =>
       /\ r.pc \in {"relay", "code", "next"} => r.done \cup r.todo = r.list
       /\ r.pc \in {"rate", "send"} => r.done \cup r.todo \cup {r.name} = r.list
       /\ r.pc = "done" => r.done = r.list

\* A call about to send decided so on a count it read.
SendFits(r) == r.pc = "send" => MaySend(r.seen)

\* The names a device reported are those known before.
SyncFits(r) == r.pc = "commit" => \A k \in known : k[1] = r.dev => k[2] \in r.list \/ r.dev \in raced

\* All that holds of the record r of call c.
Fits(c, r) ==
    NameFits(r) /\ RoomFits(c, r) /\ ImportFits(c, r) /\ MailFits(r) /\ SendFits(r) /\ SyncFits(r)

\* Every call fits.
CallsFit == \A c \in Calls : Fits(c, call[c])

\* A name known to be synced is still a local user of its device.
KnownIsLocal == \A k \in known : k[2] \in local[k[1]]

\* The inductive invariant.
GatewayInv == TypeOK /\ CallsFit /\ KnownIsLocal /\ SharedRateLimit /\ SyncKeepsKnown

-------------------------------------------------------------------------------
(* Operators *)

\* The users counted are finitely many.
LEMMA UsageIsCount ==
    ASSUME TypeOK
    PROVE  IsFiniteSet(Counted) /\ Usage = Cardinality(Counted) /\ Usage \in Nat
<1>1. Counted \subseteq Names
  BY DEF Counted, Active
<1>2. IsFiniteSet(Counted)
  BY <1>1, GatewayConstants, FS_Subset
<1>3. Usage = Cardinality(Counted)
  BY DEF Usage, Counted
<1>. QED
  BY <1>2, <1>3, FS_CardinalityType

\* Making one user active adds at most one to the count, and nothing when the
\* user was active before.
LEMMA OneMore ==
    ASSUME TypeOK, NEW n \in Names, users' = [users EXCEPT ![n] = "active"], synced' = synced
    PROVE  Usage' \in Nat /\ Usage' <= Usage + 1 /\ (users[n] = "active" => Usage' = Usage)
<1>1. Counted' = Counted \cup {n}
  BY DEF Counted, Active, TypeOK
<1>2. Usage' = Cardinality(Counted')
  BY DEF Usage, Counted, Active
<1>3. IsFiniteSet(Counted) /\ Usage = Cardinality(Counted) /\ Usage \in Nat
  BY UsageIsCount
<1>4. CASE n \in Counted
  <2>1. Counted' = Counted
    BY <1>1, <1>4
  <2>. QED
    BY <1>2, <1>3, <2>1
<1>5. CASE n \notin Counted
  <2>1. Cardinality(Counted \cup {n}) = Cardinality(Counted) + 1
    BY <1>3, <1>5, FS_AddElement
  <2>2. users[n] # "active"
    BY <1>5 DEF Counted, Active
  <2>. QED
    BY <1>1, <1>2, <1>3, <2>1, <2>2
<1>. QED
  BY <1>4, <1>5

\* A call that ends leaves only the outcome of an import or a mail.
LEMMA FinishRecord ==
    ASSUME TypeOK, NEW c \in Calls, NEW failed \in BOOLEAN, Finish(c, failed)
    PROVE  \E r \in Call :
              /\ call' = [call EXCEPT ![c] = r] /\ r.pc = "done"
              /\ r.op \in {"none", "import", "mail"}
              /\ r.op # "none" => /\ r.op = call[c].op /\ r.done = call[c].done /\ r.list = call[c].list
                                  /\ r.failed <=> call[c].failed \/ failed
<1>. DEFINE d == CHOOSE d \in Devices : TRUE
<1>1. d \in Devices
  BY GatewayConstants
<1>2. call[c] \in Call
  BY DEF TypeOK
<1>3. Ready = [op |-> "none", pc |-> "ready", name |-> NoName, dev |-> d, todo |-> {}, done |-> {},
               list |-> {}, seen |-> 0, failed |-> FALSE]
  BY DEF Ready
<1>. HIDE DEF d
<1>4. CASE call[c].op \in {"import", "mail"}
  <2>. DEFINE f == call[c].failed \/ failed
              r == [Ready EXCEPT !.pc = "done", !.op = call[c].op, !.done = call[c].done,
                                 !.list = call[c].list, !.failed = f]
  <2>1. call' = [call EXCEPT ![c] = r]
    BY <1>4 DEF Finish
  <2>2. f \in BOOLEAN /\ (f <=> call[c].failed \/ failed)
    BY <1>2 DEF Call
  <2>. HIDE DEF f
  <2>3. r \in Call /\ r.pc = "done" /\ r.op = call[c].op /\ r.done = call[c].done /\ r.list = call[c].list
    BY <1>1, <1>2, <1>3, <2>2 DEF Call
  <2>4. r.failed = f
    BY <1>3
  <2>. HIDE DEF r
  <2>. QED
    BY <1>4, <2>1, <2>2, <2>3, <2>4
<1>5. CASE call[c].op \notin {"import", "mail"}
  <2>. DEFINE r == [Ready EXCEPT !.pc = "done"]
  <2>1. call' = [call EXCEPT ![c] = r]
    BY <1>5 DEF Finish
  <2>2. r \in Call /\ r.pc = "done" /\ r.op = "none"
    BY <1>1, <1>3 DEF Call, Ops
  <2>. QED
    BY <2>1, <2>2
<1>. QED
  BY <1>4, <1>5

-------------------------------------------------------------------------------
(* Steps that only read *)

\* Everything but the calls.
Tables == <<users, synced, sent, cap, local, events, known, disturbed, raced>>

\* A call that has only read goes on with a record that fits the tables.
LEMMA ReadOnly ==
    ASSUME GatewayInv, NEW c \in Calls, NEW r \in Call, call' = [call EXCEPT ![c] = r],
           UNCHANGED Tables, Fits(c, r)
    PROVE  GatewayInv'
<1>1. TypeOK'
  BY DEF GatewayInv, TypeOK, Tables
<1>2. KnownIsLocal' /\ SharedRateLimit' /\ SyncKeepsKnown'
  BY DEF GatewayInv, KnownIsLocal, SharedRateLimit, SyncKeepsKnown, Tables
<1>3. \A i \in Calls : Fits(i, call'[i])
  <2>1. \A i \in Calls : call'[i] = IF i = c THEN r ELSE call[i]
    BY DEF GatewayInv, TypeOK
  <2>. QED
    BY <2>1 DEF GatewayInv, CallsFit
<1>4. ASSUME NEW i \in Calls PROVE Fits(i, call'[i]) <=> Fits(i, call[i])'
  BY DEF Fits, NameFits, RoomFits, ImportFits, MailFits, SendFits, SyncFits, Room, Usage, Active, Tables
<1>. QED
  BY <1>1, <1>2, <1>3, <1>4 DEF GatewayInv, CallsFit

\* What a call that ends has to have achieved.
Ends(c, failed) ==
    /\ call[c].op = "import" => ~(call[c].failed \/ failed) \/ call[c].done = {} \/ c \in disturbed
    /\ call[c].op = "mail" /\ ~(call[c].failed \/ failed) => call[c].done = call[c].list

\* A record of a finished call fits any tables.
LEMMA EndFits ==
    ASSUME TypeOK, NEW c \in Calls, NEW failed \in BOOLEAN, Finish(c, failed), Ends(c, failed)
    PROVE  \E r \in Call : call' = [call EXCEPT ![c] = r] /\ r.pc = "done" /\ Fits(c, r)
<1>1. PICK r \in Call :
         /\ call' = [call EXCEPT ![c] = r] /\ r.pc = "done"
         /\ r.op \in {"none", "import", "mail"}
         /\ r.op # "none" => /\ r.op = call[c].op /\ r.done = call[c].done /\ r.list = call[c].list
                             /\ r.failed <=> call[c].failed \/ failed
  BY FinishRecord
<1>2. NameFits(r) /\ RoomFits(c, r) /\ SendFits(r) /\ SyncFits(r)
  BY <1>1 DEF NameFits, RoomFits, SendFits, SyncFits
<1>3. ImportFits(c, r) /\ MailFits(r)
  BY <1>1 DEF ImportFits, MailFits, Ends
<1>. QED
  BY <1>1, <1>2, <1>3 DEF Fits

\* A call that ends without writing.
LEMMA EndKeeps ==
    ASSUME GatewayInv, NEW c \in Calls, NEW failed \in BOOLEAN, Finish(c, failed), Ends(c, failed),
           UNCHANGED Tables
    PROVE  GatewayInv'
<1>. QED
  BY EndFits, ReadOnly DEF GatewayInv

\* What is known of a call's record before its step.
LEMMA CallFits ==
    ASSUME GatewayInv, NEW c \in Calls
    PROVE  call[c] \in Call /\ Fits(c, call[c]) /\ (At(c, "ready") => call[c] = Ready)
<1>. QED
  BY DEF GatewayInv, TypeOK, CallsFit, Fits, NameFits, At

\* The record of a call not yet made.
LEMMA ReadyRecord ==
    /\ Ready \in Call /\ Ready.op = "none" /\ Ready.pc = "ready"
    /\ Ready.todo = {} /\ Ready.done = {} /\ Ready.list = {} /\ Ready.failed = FALSE
<1>. DEFINE d == CHOOSE d \in Devices : TRUE
<1>1. d \in Devices
  BY GatewayConstants
<1>2. Ready = [op |-> "none", pc |-> "ready", name |-> NoName, dev |-> d, todo |-> {}, done |-> {},
               list |-> {}, seen |-> 0, failed |-> FALSE]
  BY DEF Ready
<1>. HIDE DEF d
<1>. QED
  BY <1>1, <1>2 DEF Call, Ops

\* Create names its user.
LEMMA CreateKeeps ==
    ASSUME GatewayInv, NEW c \in Calls, NEW n \in Names, Create(c, n)
    PROVE  GatewayInv'
<1>. DEFINE r == [call[c] EXCEPT !.op = "create", !.pc = "capacity", !.name = n]
<1>1. call[c] \in Call
  BY CallFits
<1>2. r \in Call /\ r.op = "create" /\ r.pc = "capacity" /\ r.name = n
  BY <1>1 DEF Call, Ops
<1>3. call' = [call EXCEPT ![c] = r] /\ UNCHANGED Tables
  BY DEF Create, Tables
<1>. HIDE DEF r
<1>4. Fits(c, r)
  BY <1>2 DEF Fits, NameFits, RoomFits, ImportFits, MailFits, SendFits, SyncFits, AddingOps
<1>. QED
  BY <1>2, <1>3, <1>4, ReadOnly

\* Update of a user that is active already needs no place.
LEMMA ActivateKeeps ==
    ASSUME GatewayInv, NEW c \in Calls, NEW n \in Names, Activate(c, n)
    PROVE  GatewayInv'
<1>. DEFINE pc == IF users[n] = "active" THEN "write" ELSE "capacity"
            r == [call[c] EXCEPT !.op = "activate", !.name = n, !.pc = pc]
<1>1. call[c] \in Call
  BY CallFits
<1>2. r \in Call /\ r.op = "activate" /\ r.pc = pc /\ r.name = n
  BY <1>1 DEF Call, Ops
<1>3. call' = [call EXCEPT ![c] = r] /\ UNCHANGED Tables
  BY DEF Activate, Tables
<1>. HIDE DEF r
<1>4. Fits(c, r)
  BY <1>2 DEF Fits, NameFits, RoomFits, ImportFits, MailFits, SendFits, SyncFits, AddingOps
<1>. QED
  BY <1>2, <1>3, <1>4, ReadOnly

\* ImportDirectory starts only with places for all it has to add.
LEMMA ImportKeeps ==
    ASSUME GatewayInv, NEW c \in Calls, NEW names \in SUBSET Names, Import(c, names)
    PROVE  GatewayInv'
<1>. DEFINE add == SearchDirectory(names)
            room == ImportRoom(Cardinality(add))
            r == [call[c] EXCEPT !.op = "import", !.todo = add,
                                 !.pc = IF room THEN "next" ELSE "done", !.failed = ~room]
<1>1. call[c] \in Call /\ call[c].done = {}
  BY CallFits, ReadyRecord DEF Import
<1>2. add \subseteq Names /\ \A n \in add : users[n] = "none"
  BY DEF SearchDirectory
<1>3. call' = [call EXCEPT ![c] = r] /\ UNCHANGED Tables
  BY DEF Import, Tables
<1>4. room <=> Room(Cardinality(add))
  BY DEF ImportRoom
<1>5. room \in BOOLEAN
  BY DEF ImportRoom, Room
<1>. HIDE DEF room, add
<1>6. /\ r \in Call /\ r.op = "import" /\ r.todo = add /\ r.done = {}
      /\ r.pc = IF room THEN "next" ELSE "done"
      /\ r.failed = ~room
  BY <1>1, <1>2, <1>5 DEF Call, Ops
<1>. HIDE DEF r
<1>7. Fits(c, r)
  BY <1>2, <1>4, <1>6 DEF Fits, NameFits, RoomFits, ImportFits, MailFits, SendFits, SyncFits, AddingOps
<1>. QED
  BY <1>3, <1>6, <1>7, ReadOnly

\* The next user of an import takes one of the places counted for all.
LEMMA ImportNextKeeps ==
    ASSUME GatewayInv, NEW c \in Calls, ImportNext(c)
    PROVE  GatewayInv'
<1>0. /\ UNCHANGED Tables
      /\ IF call[c].todo = {} THEN Finish(c, FALSE)
         ELSE \E n \in call[c].todo :
                call' = [call EXCEPT ![c].pc = "capacity", ![c].name = n, ![c].todo = @ \ {n}]
  BY Zenon DEF ImportNext, At, Tables
<1>a. call[c].pc = "next" /\ call[c].op = "import"
  BY Zenon DEF ImportNext, At
<1>1. call[c] \in Call /\ ImportFits(c, call[c])
  BY CallFits DEF Fits
<1>2. CASE call[c].todo = {}
  <2>1. Finish(c, FALSE) /\ UNCHANGED Tables
    BY <1>0, <1>2, Zenon
  <2>2. Ends(c, FALSE)
    BY <1>a, <1>1 DEF Ends, ImportFits
  <2>. QED
    BY <2>1, <2>2, EndKeeps
<1>3. CASE call[c].todo # {}
  <2>1. PICK n \in call[c].todo :
          call' = [call EXCEPT ![c].pc = "capacity", ![c].name = n, ![c].todo = @ \ {n}]
    BY <1>0, <1>3, Zenon
  <2>. DEFINE todo == call[c].todo \ {n}
              r == [call[c] EXCEPT !.pc = "capacity", !.name = n, !.todo = todo]
  <2>2. call' = [call EXCEPT ![c] = r] /\ UNCHANGED Tables
    BY <1>0, <2>1, Zenon
  <2>3. n \in Names /\ call[c].todo \subseteq Names
    BY <1>1 DEF Call
  <2>4. /\ r \in Call /\ r.op = "import" /\ r.pc = "capacity" /\ r.name = n
        /\ r.todo = call[c].todo \ {n} /\ r.failed = call[c].failed
    <3>1. todo \subseteq Names
      BY <2>3
    <3>. HIDE DEF todo
    <3>2. r \in Call /\ r.todo = todo
      BY <1>1, <2>3, <3>1 DEF Call
    <3>. QED
      BY <1>a, <1>1, <3>2 DEF Call, todo
  <2>. HIDE DEF r
  <2>5. IsFiniteSet(call[c].todo)
    BY <2>3, GatewayConstants, FS_Subset
  <2>6. Cardinality(r.todo) = Cardinality(call[c].todo) - 1 /\ Cardinality(call[c].todo) \in Nat
    BY <2>4, <2>5, FS_RemoveElement, FS_CardinalityType
  <2>7. Cardinality(r.todo) + 1 = Cardinality(call[c].todo)
    BY <2>6
  <2>8. Fits(c, r)
    BY <1>a, <1>1, <2>3, <2>4, <2>7
       DEF Fits, NameFits, RoomFits, ImportFits, MailFits, SendFits, SyncFits, AddingOps
  <2>. QED
    BY <2>2, <2>4, <2>8, ReadOnly
<1>. QED
  BY <1>2, <1>3

\* checkCapacity: an undisturbed import never fails here.
LEMMA CheckCapacityKeeps ==
    ASSUME GatewayInv, NEW c \in Calls, CheckCapacity(c)
    PROVE  GatewayInv'
<1>1. call[c] \in Call /\ ImportFits(c, call[c]) /\ NameFits(call[c]) /\ call[c].pc = "capacity"
  BY CallFits DEF CheckCapacity, At, Fits
<1>2. CASE Room(1)
  <2>. DEFINE r == [call[c] EXCEPT !.pc = "write"]
  <2>1. call' = [call EXCEPT ![c] = r] /\ UNCHANGED Tables
    BY <1>2 DEF CheckCapacity, Goto, Tables
  <2>2. /\ r \in Call /\ r.op = call[c].op /\ r.pc = "write" /\ r.name = call[c].name
        /\ r.todo = call[c].todo /\ r.failed = call[c].failed
    BY <1>1 DEF Call
  <2>. HIDE DEF r
  <2>3. Fits(c, r)
    BY <1>1, <1>2, <2>2
       DEF Fits, NameFits, RoomFits, ImportFits, MailFits, SendFits, SyncFits, AddingOps
  <2>. QED
    BY <2>1, <2>2, <2>3, ReadOnly
<1>3. CASE ~Room(1)
  <2>1. Finish(c, TRUE) /\ UNCHANGED Tables
    BY <1>3 DEF CheckCapacity, Tables
  <2>2. call[c].todo \subseteq Names
    BY <1>1 DEF Call
  <2>3. Cardinality(call[c].todo) \in Nat
    BY <2>2, GatewayConstants, FS_Subset, FS_CardinalityType
  <2>4. Usage \in Nat /\ cap \in Nat
    BY UsageIsCount DEF GatewayInv, TypeOK
  <2>5. ~Room(Cardinality(call[c].todo) + 1)
    BY <1>3, <2>3, <2>4 DEF Room
  <2>6. Ends(c, TRUE)
    BY <1>1, <2>5 DEF Ends, ImportFits, NameFits, AddingOps
  <2>. QED
    BY <2>1, <2>6, EndKeeps
<1>. QED
  BY <1>2, <1>3

\* SyncUsers lists what the device has, so all that is known of it.
LEMMA SyncListKeeps ==
    ASSUME GatewayInv, NEW c \in Calls, NEW d \in Devices, SyncList(c, d)
    PROVE  GatewayInv'
<1>. DEFINE r == [call[c] EXCEPT !.op = "sync", !.dev = d, !.pc = "commit", !.list = local[d]]
<1>1. call[c] \in Call /\ local[d] \subseteq Names
  BY CallFits DEF GatewayInv, TypeOK
<1>2. r \in Call /\ r.op = "sync" /\ r.pc = "commit" /\ r.dev = d /\ r.list = local[d]
  BY <1>1 DEF Call, Ops
<1>3. call' = [call EXCEPT ![c] = r] /\ UNCHANGED Tables
  BY DEF SyncList, Tables
<1>. HIDE DEF r
<1>4. Fits(c, r)
  BY <1>2 DEF Fits, NameFits, RoomFits, ImportFits, MailFits, SendFits, SyncFits, GatewayInv, KnownIsLocal
<1>. QED
  BY <1>2, <1>3, <1>4, ReadOnly

\* A device that does not answer ends the pass over it.
LEMMA SyncFailsKeeps ==
    ASSUME GatewayInv, NEW c \in Calls, NEW d \in Devices, SyncFails(c, d)
    PROVE  GatewayInv'
<1>. DEFINE r == [call[c] EXCEPT !.op = "sync", !.dev = d, !.pc = "done", !.failed = TRUE]
<1>1. call[c] \in Call
  BY CallFits
<1>2. r \in Call /\ r.op = "sync" /\ r.pc = "done"
  BY <1>1 DEF Call, Ops
<1>3. call' = [call EXCEPT ![c] = r] /\ UNCHANGED Tables
  BY DEF SyncFails, Tables
<1>. HIDE DEF r
<1>4. Fits(c, r)
  BY <1>2 DEF Fits, NameFits, RoomFits, ImportFits, MailFits, SendFits, SyncFits
<1>. QED
  BY <1>2, <1>3, <1>4, ReadOnly

\* A mail starts with all its mobiles still to be served.
LEMMA MailKeeps ==
    ASSUME GatewayInv, NEW c \in Calls, NEW names \in SUBSET Names, NEW relay \in BOOLEAN,
           Mail(c, names, relay)
    PROVE  GatewayInv'
<1>. DEFINE pc == IF relay THEN "relay" ELSE "code"
            r == [call[c] EXCEPT !.op = "mail", !.todo = names, !.list = names, !.pc = pc]
<1>1. call[c] \in Call /\ call[c].done = {}
  BY CallFits, ReadyRecord DEF Mail
<1>2. call' = [call EXCEPT ![c] = r] /\ UNCHANGED Tables
  BY DEF Mail, Tables
<1>3. pc \in {"relay", "code"}
  OBVIOUS
<1>. HIDE DEF pc
<1>4. r \in Call /\ r.op = "mail" /\ r.pc = pc /\ r.todo = names /\ r.list = names /\ r.done = {}
  BY <1>1, <1>3 DEF Call, Ops
<1>. HIDE DEF r
<1>5. Fits(c, r)
  BY <1>3, <1>4 DEF Fits, NameFits, RoomFits, ImportFits, MailFits, SendFits, SyncFits
<1>. QED
  BY <1>2, <1>4, <1>5, ReadOnly

\* A mail that goes on from one stage of Data to the next.
LEMMA MailGoes ==
    ASSUME GatewayInv, NEW c \in Calls, call[c].op = "mail", call[c].pc \in {"relay", "code", "next"},
           NEW pc \in {"code", "next"}, Goto(c, pc), UNCHANGED Tables
    PROVE  GatewayInv'
<1>. DEFINE r == [call[c] EXCEPT !.pc = pc]
<1>1. call[c] \in Call /\ MailFits(call[c])
  BY CallFits DEF Fits
<1>2. call' = [call EXCEPT ![c] = r]
  BY DEF Goto
<1>3. /\ r \in Call /\ r.op = "mail" /\ r.pc = pc /\ r.todo = call[c].todo /\ r.list = call[c].list
      /\ r.done = call[c].done /\ r.failed = call[c].failed
  BY <1>1 DEF Call
<1>. HIDE DEF r
<1>4. Fits(c, r)
  BY <1>1, <1>3 DEF Fits, NameFits, RoomFits, ImportFits, MailFits, SendFits, SyncFits
<1>. QED
  BY <1>2, <1>3, <1>4, ReadOnly

\* A mail that failed at its relay sends nothing.
LEMMA RelayKeeps ==
    ASSUME GatewayInv, NEW c \in Calls, Relay(c)
    PROVE  GatewayInv'
<1>1. call[c].op = "mail" /\ call[c].pc = "relay" /\ UNCHANGED Tables
  BY CallFits DEF Relay, At, Fits, NameFits, Tables
<1>2. Ends(c, TRUE)
  BY <1>1 DEF Ends
<1>. QED
  BY <1>1, <1>2, MailGoes, EndKeeps DEF Relay

\* A mail without mobiles is done, one without a code fails.
LEMMA ParseCodeKeeps ==
    ASSUME GatewayInv, NEW c \in Calls, ParseCode(c)
    PROVE  GatewayInv'
<1>1. /\ call[c].op = "mail" /\ call[c].pc = "code" /\ UNCHANGED Tables
      /\ call[c] \in Call /\ MailFits(call[c])
  BY CallFits DEF ParseCode, At, Fits, NameFits, Tables
<1>2. Ends(c, TRUE) /\ (call[c].todo = {} => Ends(c, FALSE))
  BY <1>1 DEF Ends, MailFits, Call
<1>. QED
  BY <1>1, <1>2, MailGoes, EndKeeps DEF ParseCode

\* deliver takes one mobile off the list; one it cannot serve fails the mail.
LEMMA DeliverKeeps ==
    ASSUME GatewayInv, NEW c \in Calls, Deliver(c)
    PROVE  GatewayInv'
<1>0. /\ call[c].pc = "next" /\ call[c].op = "mail" /\ UNCHANGED Tables
      /\ call[c] \in Call /\ MailFits(call[c])
  <2>1. call[c].pc = "next" /\ call[c].op = "mail" /\ UNCHANGED Tables
    BY Zenon DEF Deliver, At, Tables
  <2>. QED
    BY <2>1, CallFits DEF Fits
<1>1. CASE call[c].todo = {}
  <2>1. Finish(c, FALSE)
    BY <1>1, Zenon DEF Deliver
  <2>2. Ends(c, FALSE)
    BY <1>0, <1>1 DEF Ends, MailFits, Call
  <2>. QED
    BY <1>0, <2>1, <2>2, EndKeeps
<1>2. CASE call[c].todo # {}
  <2>. DEFINE served(n) == (n \in Active \/ \E d \in Devices : <<d, n>> \in synced) /\ Usage <= cap
              one(n) == [call[c] EXCEPT !.name = n, !.todo = @ \ {n}]
              rec(n) == [one(n) EXCEPT !.pc = IF served(n) THEN "rate" ELSE "next",
                                       !.failed = @ \/ ~served(n)]
  <2>1. PICK n \in call[c].todo : call' = [call EXCEPT ![c] = rec(n)]
    BY <1>2, Zenon DEF Deliver
  <2>. DEFINE todo == call[c].todo \ {n}
              pc == IF served(n) THEN "rate" ELSE "next"
              failed == call[c].failed \/ ~served(n)
              r == [call[c] EXCEPT !.name = n, !.todo = todo, !.pc = pc, !.failed = failed]
  <2>2. n \in Names /\ call[c].todo \subseteq Names /\ todo \subseteq Names
    BY <1>0 DEF Call
  <2>3. pc \in {"rate", "next"} /\ failed \in BOOLEAN /\ (pc = "next" => failed)
    BY <1>0 DEF Call
  <2>4. failed => call[c].failed \/ pc = "next"
    OBVIOUS
  <2>5. ~failed => ~call[c].failed
    OBVIOUS
  <2>6. r = rec(n)
    BY <1>0 DEF Call
  <2>. HIDE DEF pc, failed, todo, served
  <2>7. /\ r \in Call /\ r.op = "mail" /\ r.pc = pc /\ r.name = n /\ r.todo = todo
        /\ r.list = call[c].list /\ r.done = call[c].done /\ r.failed = failed
    BY <1>0, <2>2, <2>3 DEF Call, Ops
  <2>8. call' = [call EXCEPT ![c] = r]
    BY <2>1, <2>6, Zenon
  <2>. HIDE DEF r, rec, one
  <2>9. todo \cup {n} = call[c].todo
    BY DEF todo
  <2>10. MailFits(r)
    BY <1>0, <2>3, <2>5, <2>7, <2>9 DEF MailFits
  <2>11. Fits(c, r)
    BY <2>2, <2>3, <2>7, <2>10 DEF Fits, NameFits, RoomFits, ImportFits, SendFits, SyncFits, AddingOps
  <2>. QED
    BY <1>0, <2>7, <2>8, <2>11, ReadOnly
<1>. QED
  BY <1>1, <1>2

\* RADIUS names the user to send to.
LEMMA RadiusSendKeeps ==
    ASSUME GatewayInv, NEW c \in Calls, NEW n \in Names, RadiusSend(c, n)
    PROVE  GatewayInv'
<1>. DEFINE r == [call[c] EXCEPT !.op = "radius", !.pc = "rate", !.name = n]
<1>1. call[c] \in Call
  BY CallFits
<1>2. r \in Call /\ r.op = "radius" /\ r.pc = "rate" /\ r.name = n
  BY <1>1 DEF Call, Ops
<1>3. call' = [call EXCEPT ![c] = r] /\ UNCHANGED Tables
  BY DEF RadiusSend, Tables
<1>. HIDE DEF r
<1>4. Fits(c, r)
  BY <1>2 DEF Fits, NameFits, RoomFits, ImportFits, MailFits, SendFits, SyncFits
<1>. QED
  BY <1>2, <1>3, <1>4, ReadOnly

\* A mobile that is given up fails its mail.
LEMMA GiveUpKeeps ==
    ASSUME GatewayInv, NEW c \in Calls, call[c].op = "mail", call' = GiveUp(c), UNCHANGED Tables
    PROVE  GatewayInv'
<1>. DEFINE r == [call[c] EXCEPT !.pc = "next", !.failed = TRUE]
<1>1. call[c] \in Call
  BY CallFits
<1>2. r \in Call /\ r.op = "mail" /\ r.pc = "next" /\ r.failed
  BY <1>1 DEF Call
<1>3. call' = [call EXCEPT ![c] = r]
  BY DEF GiveUp
<1>. HIDE DEF r
<1>4. Fits(c, r)
  BY <1>2 DEF Fits, NameFits, RoomFits, ImportFits, MailFits, SendFits, SyncFits
<1>. QED
  BY <1>2, <1>3, <1>4, ReadOnly

\* SentSince lets a call send only below the limit.
LEMMA SentSinceKeeps ==
    ASSUME GatewayInv, NEW c \in Calls, SentSince(c)
    PROVE  GatewayInv'
<1>. DEFINE n == call[c].name
            r == [call[c] EXCEPT !.pc = "send", !.seen = sent[n]]
<1>1. /\ call[c] \in Call /\ MailFits(call[c]) /\ call[c].pc = "rate" /\ n \in Names
      /\ call[c].op \in {"mail", "radius"} /\ UNCHANGED Tables
  BY CallFits DEF SentSince, At, Fits, NameFits, Tables
<1>2. CASE MaySend(sent[n]) /\ call' = [call EXCEPT ![c].pc = "send", ![c].seen = sent[n]]
  <2>1. sent[n] \in Nat
    BY <1>1 DEF GatewayInv, TypeOK
  <2>2. /\ r \in Call /\ r.op = call[c].op /\ r.pc = "send" /\ r.name = n /\ r.seen = sent[n]
        /\ r.todo = call[c].todo /\ r.list = call[c].list /\ r.done = call[c].done
        /\ r.failed = call[c].failed
    BY <1>1, <2>1 DEF Call
  <2>3. call' = [call EXCEPT ![c] = r]
    BY <1>2
  <2>. HIDE DEF r
  <2>4. Fits(c, r)
    BY <1>1, <1>2, <2>2 DEF Fits, NameFits, RoomFits, ImportFits, MailFits, SendFits, SyncFits
  <2>. QED
    BY <1>1, <2>2, <2>3, <2>4, ReadOnly
<1>3. CASE call[c].op = "mail" /\ call' = GiveUp(c)
  BY <1>1, <1>3, GiveUpKeeps
<1>4. CASE call[c].op = "radius" /\ Finish(c, TRUE)
  <2>1. Ends(c, TRUE)
    BY <1>4 DEF Ends
  <2>. QED
    BY <1>1, <1>4, <2>1, EndKeeps
<1>. QED
  BY <1>1, <1>2, <1>3, <1>4 DEF SentSince

-------------------------------------------------------------------------------
(* Steps that write *)

\* A call that makes no step itself still fits, or is marked as disturbed.
LEMMA OtherFits ==
    ASSUME GatewayInv, NEW i \in Calls, call'[i] = call[i], disturbed \subseteq disturbed',
           i \in Adding => i \in disturbed', SyncFits(call[i])'
    PROVE  Fits(i, call[i])'
<1>1. Fits(i, call[i])
  BY CallFits
<1>2. NameFits(call[i])' /\ MailFits(call[i])' /\ SendFits(call[i])'
  BY <1>1 DEF Fits, NameFits, MailFits, SendFits, Ready, MaySend
<1>3. call[i].pc \in {"next", "capacity", "write"} /\ call[i].op \in AddingOps => i \in disturbed'
  BY DEF Adding, Busy, At, AddingOps
<1>4. RoomFits(i, call[i])'
  BY <1>1, <1>3 DEF Fits, NameFits, RoomFits
<1>5. ImportFits(i, call[i])'
  BY <1>1, <1>3 DEF Fits, ImportFits, AddingOps
<1>. QED
  BY <1>2, <1>4, <1>5 DEF Fits

\* A finished call fits whatever is written.
LEMMA DoneFits ==
    ASSUME NEW c \in Calls, NEW r \in Call, r.pc = "done", Fits(c, r), disturbed \subseteq disturbed'
    PROVE  Fits(c, r)'
<1>. QED
  BY DEF Fits, NameFits, RoomFits, ImportFits, MailFits, SendFits, SyncFits

\* The names of a sync in progress depend on known and raced only.
LEMMA SyncFitsStays ==
    ASSUME GatewayInv, NEW i \in Calls, call'[i] = call[i], known' \subseteq known, raced \subseteq raced'
    PROVE  SyncFits(call[i])'
<1>1. SyncFits(call[i])
  BY CallFits DEF Fits
<1>. QED
  BY <1>1 DEF SyncFits

\* Create, Update and ImportDirectory write one user, in a place counted for it.
LEMMA WriteUserKeeps ==
    ASSUME GatewayInv, NEW c \in Calls, WriteUser(c)
    PROVE  GatewayInv'
<1>. DEFINE n == call[c].name
            inserts == call[c].op # "activate"
<1>1. /\ call[c] \in Call /\ Fits(c, call[c]) /\ call[c].pc = "write" /\ n \in Names
      /\ call[c].op \in AddingOps /\ UNCHANGED <<synced, sent, cap, local, events, known, raced>>
  BY CallFits DEF WriteUser, At, Fits, NameFits
<1>2. CASE inserts # (users[n] = "none") /\ Finish(c, inserts) /\ UNCHANGED <<users, disturbed>>
  <2>1. Ends(c, inserts)
    BY <1>1, <1>2 DEF Ends, Fits, ImportFits, AddingOps
  <2>. QED
    BY <1>1, <1>2, <2>1, EndKeeps DEF Tables
<1>3. CASE /\ inserts = (users[n] = "none")
           /\ users' = [users EXCEPT ![n] = "active"]
           /\ IF call[c].op = "import"
              THEN call' = [call EXCEPT ![c].pc = "next", ![c].done = @ \cup {n}]
              ELSE Finish(c, FALSE)
           /\ Disturb(c)
  <2>1. disturbed' \subseteq Calls /\ disturbed \subseteq disturbed'
    BY <1>3 DEF GatewayInv, TypeOK, Disturb, Adding
  <2>2. \A i \in Calls \ {c} : i \in Adding => i \in disturbed'
    BY <1>3 DEF Disturb
  <2>3. \E r \in Call : call' = [call EXCEPT ![c] = r] /\ Fits(c, r)'
    <3>1. CASE call[c].op = "import"
      <4>. DEFINE done == call[c].done \cup {n}
                  q == [call[c] EXCEPT !.pc = "next", !.done = done]
      <4>1. call' = [call EXCEPT ![c] = q]
        BY <1>3, <3>1
      <4>2. done \subseteq Names
        BY <1>1 DEF Call
      <4>. HIDE DEF done
      <4>3. PICK r \in Call : /\ call' = [call EXCEPT ![c] = r] /\ r.op = "import" /\ r.pc = "next"
                              /\ r.todo = call[c].todo /\ r.failed = call[c].failed
        <5>1. /\ q \in Call /\ q.op = "import" /\ q.pc = "next"
              /\ q.todo = call[c].todo /\ q.failed = call[c].failed
          BY <1>1, <3>1, <4>2 DEF Call
        <5>. HIDE DEF q
        <5>. QED
          BY <4>1, <5>1
      <4>4. r.todo \subseteq Names
        BY <4>3 DEF Call
      <4>5. Cardinality(r.todo) \in Nat
        BY <4>4, GatewayConstants, FS_Subset, FS_CardinalityType
      <4>6. Usage' \in Nat /\ Usage' <= Usage + 1
        BY <1>1, <1>3, OneMore DEF GatewayInv
      <4>7. Usage \in Nat /\ cap \in Nat /\ cap' = cap
        BY <1>1, UsageIsCount DEF GatewayInv, TypeOK
      <4>8. ASSUME c \notin disturbed'
            PROVE  /\ ~r.failed /\ \A m \in r.todo : users'[m] = "none"
                   /\ Usage' + Cardinality(r.todo) <= cap'
        <5>1. /\ ~r.failed /\ n \notin r.todo /\ \A m \in r.todo : users[m] = "none"
              /\ Usage + (Cardinality(r.todo) + 1) <= cap
          BY <1>1, <2>1, <3>1, <4>3, <4>8 DEF Fits, ImportFits, Room
        <5>2. \A m \in r.todo : users'[m] = "none"
          BY <1>3, <4>4, <5>1 DEF GatewayInv, TypeOK
        <5>. QED
          BY <4>5, <4>6, <4>7, <5>1, <5>2
      <4>9. Fits(c, r)'
        BY <4>3, <4>8 DEF Fits, NameFits, RoomFits, ImportFits, MailFits, SendFits, SyncFits, Room
      <4>. QED
        BY <4>3, <4>9
    <3>2. CASE call[c].op # "import"
      <4>1. Ends(c, FALSE)
        BY <1>1, <3>2 DEF Ends, AddingOps
      <4>2. PICK r \in Call : call' = [call EXCEPT ![c] = r] /\ r.pc = "done" /\ Fits(c, r)
        BY <1>3, <3>2, <4>1, EndFits DEF GatewayInv
      <4>. QED
        BY <2>1, <4>2, DoneFits
    <3>. QED
      BY <3>1, <3>2
  <2>4. PICK r \in Call : call' = [call EXCEPT ![c] = r] /\ Fits(c, r)'
    BY <2>3
  <2>5. call'[c] = r /\ \A i \in Calls \ {c} : call'[i] = call[i]
    BY <2>4 DEF GatewayInv, TypeOK
  <2>6. ASSUME NEW i \in Calls PROVE Fits(i, call[i])'
    <3>1. CASE i = c
      BY <2>4, <2>5, <3>1
    <3>2. CASE i # c
      <4>1. SyncFits(call[i])'
        BY <1>1, <2>5, <3>2, SyncFitsStays
      <4>. QED
        BY <2>1, <2>2, <2>5, <3>2, <4>1, OtherFits
    <3>. QED
      BY <3>1, <3>2
  <2>7. TypeOK'
    BY <1>1, <1>3, <2>1, <2>4 DEF GatewayInv, TypeOK
  <2>8. KnownIsLocal' /\ SharedRateLimit' /\ SyncKeepsKnown'
    BY <1>1 DEF GatewayInv, KnownIsLocal, SharedRateLimit, SyncKeepsKnown
  <2>. QED
    BY <2>6, <2>7, <2>8 DEF GatewayInv, CallsFit
<1>. QED
  BY <1>1, <1>2, <1>3 DEF WriteUser

\* SyncUsers replaces the rows of one device by what it listed; a pass that
\* listed before another committed marks the device.
LEMMA SyncCommitKeeps ==
    ASSUME GatewayInv, NEW c \in Calls, SyncCommit(c)
    PROVE  GatewayInv'
<1>. DEFINE d == call[c].dev
            list == call[c].list
            rows == {d} \X list
<1>1. /\ call[c] \in Call /\ SyncFits(call[c]) /\ call[c].pc = "commit" /\ call[c].op = "sync"
      /\ d \in Devices /\ list \subseteq Names
  BY CallFits DEF SyncCommit, At, Fits, NameFits, Call
<1>2. /\ synced' = (synced \ ({d} \X Names)) \cup rows
      /\ known' = known \cup {r \in rows : r[2] \in local[d]}
      /\ raced' = IF \E i \in Calls \ {c} : At(i, "commit") /\ call[i].dev = d THEN raced \cup {d} ELSE raced
      /\ Finish(c, FALSE) /\ Disturb(c) /\ UNCHANGED <<users, sent, cap, local, events>>
  BY DEF SyncCommit
<1>3. disturbed' \subseteq Calls /\ disturbed \subseteq disturbed'
  BY <1>2 DEF GatewayInv, TypeOK, Disturb, Adding
<1>4. \A i \in Calls \ {c} : i \in Adding => i \in disturbed'
  BY <1>2 DEF Disturb
<1>5. raced \subseteq raced' /\ raced' \subseteq Names \cup Devices
  BY <1>1, <1>2 DEF GatewayInv, TypeOK
<1>6. PICK r \in Call : call' = [call EXCEPT ![c] = r] /\ r.pc = "done" /\ Fits(c, r)
  <2>1. Ends(c, FALSE)
    BY <1>1 DEF Ends
  <2>. QED
    BY <1>2, <2>1, EndFits DEF GatewayInv
<1>7. call'[c] = r /\ \A i \in Calls \ {c} : call'[i] = call[i]
  BY <1>6 DEF GatewayInv, TypeOK
<1>8. ASSUME NEW i \in Calls PROVE Fits(i, call[i])'
  <2>1. CASE i = c
    BY <1>3, <1>6, <1>7, <2>1, DoneFits
  <2>2. CASE i # c
    <3>1. SyncFits(call[i])
      BY CallFits DEF Fits
    <3>2. call[i].pc = "commit" /\ call[i].dev = d => d \in raced'
      BY <1>2, <2>2 DEF At
    <3>3. \A k \in known' : k \in known \/ k[1] = d
      BY <1>2
    <3>4. SyncFits(call[i])'
      BY <1>5, <1>7, <2>2, <3>1, <3>2, <3>3 DEF SyncFits
    <3>. QED
      BY <1>3, <1>4, <1>7, <2>2, <3>4, OtherFits
  <2>. QED
    BY <2>1, <2>2
<1>9. TypeOK'
  <2>1. synced' \subseteq Devices \X Names /\ known' \subseteq Devices \X Names
    BY <1>1, <1>2 DEF GatewayInv, TypeOK
  <2>. QED
    BY <1>2, <1>3, <1>5, <1>6, <2>1 DEF GatewayInv, TypeOK
<1>10. KnownIsLocal' /\ SharedRateLimit'
  BY <1>2, <1>5 DEF GatewayInv, KnownIsLocal, SharedRateLimit
<1>11. ASSUME NEW k \in known' PROVE k \in synced' \/ k[1] \in raced'
  <2>1. CASE k \notin known
    BY <1>2, <2>1
  <2>2. CASE k \in known
    <3>1. k \in synced \/ k[1] \in raced
      BY <2>2 DEF GatewayInv, SyncKeepsKnown
    <3>2. k \in Devices \X Names
      BY <2>2 DEF GatewayInv, TypeOK
    <3>3. CASE k[1] # d
      BY <1>2, <1>5, <3>1, <3>2, <3>3
    <3>4. CASE k[1] = d
      <4>1. k[2] \in list \/ d \in raced
        BY <1>1, <2>2, <3>4 DEF SyncFits
      <4>2. k[2] \in list => k \in rows
        BY <3>2, <3>4
      <4>. QED
        BY <1>2, <1>5, <3>4, <4>1, <4>2
    <3>. QED
      BY <3>3, <3>4
  <2>. QED
    BY <2>1, <2>2
<1>. QED
  BY <1>8, <1>9, <1>10, <1>11 DEF GatewayInv, CallsFit, SyncKeepsKnown

\* A code is sent within the limit the call has read, or the mobile is marked.
LEMMA SendKeeps ==
    ASSUME GatewayInv, NEW c \in Calls, Send(c)
    PROVE  GatewayInv'
<1>. DEFINE n == call[c].name
<1>1. /\ call[c] \in Call /\ Fits(c, call[c]) /\ call[c].pc = "send" /\ n \in Names
      /\ call[c].op \in {"mail", "radius"} /\ UNCHANGED <<users, synced, cap, local, events, known, disturbed>>
  BY CallFits DEF Send, At, Fits, NameFits
<1>2. CASE /\ sent' = [sent EXCEPT ![n] = @ + 1]
           /\ raced' = IF call[c].seen # sent[n] THEN raced \cup {n} ELSE raced
           /\ IF call[c].op = "mail" THEN call' = [call EXCEPT ![c].pc = "next", ![c].done = @ \cup {n}]
              ELSE Finish(c, FALSE)
  <2>1. raced \subseteq raced' /\ raced' \subseteq Names \cup Devices
    BY <1>1, <1>2 DEF GatewayInv, TypeOK
  <2>2. \E r \in Call : call' = [call EXCEPT ![c] = r] /\ Fits(c, r)'
    <3>1. CASE call[c].op = "mail"
      <4>. DEFINE done == call[c].done \cup {n}
                  q == [call[c] EXCEPT !.pc = "next", !.done = done]
      <4>1. call' = [call EXCEPT ![c] = q]
        BY <1>2, <3>1
      <4>2. done \subseteq Names
        BY <1>1 DEF Call
      <4>. HIDE DEF done
      <4>3. /\ q \in Call /\ q.op = "mail" /\ q.pc = "next" /\ q.done = done
            /\ q.todo = call[c].todo /\ q.list = call[c].list /\ q.failed = call[c].failed
        BY <1>1, <3>1, <4>2 DEF Call
      <4>. HIDE DEF q
      <4>4. PICK r \in Call : /\ call' = [call EXCEPT ![c] = r] /\ r.op = "mail" /\ r.pc = "next"
                              /\ r.done = call[c].done \cup {n} /\ r.todo = call[c].todo
                              /\ r.list = call[c].list /\ r.failed = call[c].failed
        BY <4>1, <4>3 DEF done
      <4>5. MailFits(r)
        BY <1>1, <3>1, <4>4 DEF Fits, MailFits
      <4>6. Fits(c, r)'
        BY <4>4, <4>5 DEF Fits, NameFits, RoomFits, ImportFits, MailFits, SendFits, SyncFits
      <4>. QED
        BY <4>4, <4>6
    <3>2. CASE call[c].op = "radius"
      <4>1. Ends(c, FALSE) /\ Finish(c, FALSE)
        BY <1>2, <3>2 DEF Ends
      <4>2. PICK r \in Call : call' = [call EXCEPT ![c] = r] /\ r.pc = "done" /\ Fits(c, r)
        BY <4>1, EndFits DEF GatewayInv
      <4>. QED
        BY <1>1, <4>2, DoneFits
    <3>. QED
      BY <1>1, <3>1, <3>2
  <2>3. PICK r \in Call : call' = [call EXCEPT ![c] = r] /\ Fits(c, r)'
    BY <2>2
  <2>4. call'[c] = r /\ \A i \in Calls \ {c} : call'[i] = call[i]
    BY <2>3 DEF GatewayInv, TypeOK
  <2>5. ASSUME NEW i \in Calls PROVE Fits(i, call[i])'
    <3>1. CASE i = c
      BY <2>3, <2>4, <3>1
    <3>2. CASE i # c
      <4>1. SyncFits(call[i])'
        BY <1>1, <2>1, <2>4, <3>2, SyncFitsStays
      <4>2. Fits(i, call[i])
        BY CallFits
      <4>3. NameFits(call[i])' /\ MailFits(call[i])' /\ SendFits(call[i])'
        BY <2>4, <3>2, <4>2 DEF Fits, NameFits, MailFits, SendFits, Ready, MaySend
      <4>4. RoomFits(i, call[i])' /\ ImportFits(i, call[i])'
        BY <1>1, <2>4, <3>2, <4>2 DEF Fits, RoomFits, ImportFits, Room, Usage, Active
      <4>. QED
        BY <4>1, <4>3, <4>4 DEF Fits
    <3>. QED
      BY <3>1, <3>2
  <2>6. sent' \in [Names -> Nat]
    BY <1>1, <1>2 DEF GatewayInv, TypeOK
  <2>7. TypeOK'
    BY <1>1, <2>1, <2>3, <2>6 DEF GatewayInv, TypeOK
  <2>8. SharedRateLimit'
    <3>1. ASSUME NEW m \in Names PROVE sent'[m] <= MaxSends \/ m \in raced'
      <4>1. CASE m # n
        BY <1>2, <2>1, <4>1 DEF GatewayInv, TypeOK, SharedRateLimit
      <4>2. CASE m = n
        <5>1. call[c].seen \in Nat /\ MaySend(call[c].seen)
          BY <1>1 DEF Call, Fits, SendFits
        <5>2. sent'[n] = sent[n] + 1 /\ sent[n] \in Nat
          BY <1>1, <1>2 DEF GatewayInv, TypeOK
        <5>3. call[c].seen # sent[n] => n \in raced'
          BY <1>2
        <5>. QED
          BY <4>2, <5>1, <5>2, <5>3, GatewayConstants DEF MaySend
      <4>. QED
        BY <4>1, <4>2
    <3>. QED
      BY <3>1 DEF SharedRateLimit
  <2>9. KnownIsLocal' /\ SyncKeepsKnown'
    BY <1>1, <2>1 DEF GatewayInv, KnownIsLocal, SyncKeepsKnown
  <2>. QED
    BY <2>5, <2>7, <2>8, <2>9 DEF GatewayInv, CallsFit
<1>3. CASE /\ IF call[c].op = "mail" THEN call' = GiveUp(c) ELSE Finish(c, TRUE)
           /\ UNCHANGED <<sent, raced>>
  <2>1. UNCHANGED Tables
    BY <1>1, <1>3 DEF Tables
  <2>2. call[c].op # "mail" => Ends(c, TRUE)
    BY <1>1 DEF Ends
  <2>. QED
    BY <1>3, <2>1, <2>2, GiveUpKeeps, EndKeeps
<1>. QED
  BY <1>1, <1>2, <1>3 DEF Send

-------------------------------------------------------------------------------
(* Steps beside the calls *)

\* A change of users or of the license marks every call that is adding one.
LEMMA DisturbKeeps ==
    ASSUME GatewayInv, TypeOK', UNCHANGED <<synced, sent, local, call, known, raced>>,
           disturbed' = disturbed \cup Adding
    PROVE  GatewayInv'
<1>1. ASSUME NEW i \in Calls PROVE Fits(i, call[i])'
  <2>1. SyncFits(call[i])'
    BY SyncFitsStays
  <2>. QED
    BY <2>1, OtherFits
<1>2. KnownIsLocal' /\ SharedRateLimit' /\ SyncKeepsKnown'
  BY DEF GatewayInv, KnownIsLocal, SharedRateLimit, SyncKeepsKnown
<1>. QED
  BY <1>1, <1>2 DEF GatewayInv, CallsFit

\* A user is disabled or deleted, the license changes.
LEMMA ChangesKeep ==
    ASSUME GatewayInv,
           \/ \E n \in Names : Deactivate(n) \/ Delete(n)
           \/ \E k \in 0..MaxCap : SetCapacity(k)
    PROVE  GatewayInv'
<1>1. ASSUME NEW n \in Names, Deactivate(n) \/ Delete(n) PROVE GatewayInv'
  <2>1. TypeOK'
    BY <1>1, GatewayConstants DEF GatewayInv, TypeOK, Deactivate, Delete, Adding
  <2>. QED
    BY <1>1, <2>1, DisturbKeeps DEF Deactivate, Delete
<1>2. ASSUME NEW k \in 0..MaxCap, SetCapacity(k) PROVE GatewayInv'
  <2>1. TypeOK'
    BY <1>2, GatewayConstants DEF GatewayInv, TypeOK, SetCapacity, Adding
  <2>. QED
    BY <1>2, <2>1, DisturbKeeps DEF SetCapacity
<1>. QED
  BY <1>1, <1>2

\* A user removed on a device is no longer known there.
LEMMA EditLocalKeeps ==
    ASSUME GatewayInv, NEW d \in Devices, NEW names \in SUBSET Names, EditLocal(d, names)
    PROVE  GatewayInv'
<1>1. known' \subseteq known
  BY DEF EditLocal
<1>2. TypeOK'
  BY <1>1, GatewayConstants DEF GatewayInv, TypeOK, EditLocal
<1>3. ASSUME NEW i \in Calls PROVE Fits(i, call[i])'
  <2>1. SyncFits(call[i])'
    BY <1>1, SyncFitsStays DEF EditLocal
  <2>2. Fits(i, call[i])
    BY CallFits
  <2>3. NameFits(call[i])' /\ MailFits(call[i])' /\ SendFits(call[i])'
    BY <2>2 DEF Fits, NameFits, MailFits, SendFits, Ready, MaySend, EditLocal
  <2>4. RoomFits(i, call[i])' /\ ImportFits(i, call[i])'
    BY <2>2 DEF Fits, RoomFits, ImportFits, Room, Usage, Active, EditLocal
  <2>. QED
    BY <2>1, <2>3, <2>4 DEF Fits
<1>4. ASSUME NEW k \in known' PROVE k[2] \in local'[k[1]]
  <2>1. k \in known /\ k[2] \in local[k[1]] /\ (k[1] = d => k[2] \in names)
    BY DEF EditLocal, GatewayInv, KnownIsLocal
  <2>2. k[1] \in Devices
    BY <2>1 DEF GatewayInv, TypeOK
  <2>. QED
    BY <2>1, <2>2 DEF EditLocal, GatewayInv, TypeOK
<1>5. SharedRateLimit' /\ SyncKeepsKnown'
  BY <1>1 DEF GatewayInv, SharedRateLimit, SyncKeepsKnown, EditLocal
<1>. QED
  BY <1>2, <1>3, <1>4, <1>5 DEF GatewayInv, CallsFit, KnownIsLocal

-------------------------------------------------------------------------------
(* Theorems *)

\* Before the first call nothing is counted and nothing sent.
LEMMA InitHolds == Init => GatewayInv
<1>. SUFFICES ASSUME Init PROVE GatewayInv
  OBVIOUS
<1>1. TypeOK
  BY GatewayConstants, ReadyRecord DEF Init, TypeOK
<1>2. ASSUME NEW c \in Calls PROVE Fits(c, call[c])
  <2>1. call[c] = Ready
    BY DEF Init
  <2>. QED
    BY <2>1, ReadyRecord DEF Fits, NameFits, RoomFits, ImportFits, MailFits, SendFits, SyncFits
<1>3. KnownIsLocal /\ SharedRateLimit /\ SyncKeepsKnown
  BY GatewayConstants DEF Init, KnownIsLocal, SharedRateLimit, SyncKeepsKnown
<1>. QED
  BY <1>1, <1>2, <1>3 DEF GatewayInv, CallsFit

\* A step of a call.
LEMMA StepKeeps ==
    ASSUME GatewayInv, NEW c \in Calls, Step(c)
    PROVE  GatewayInv'
<1>. QED
  BY CreateKeeps, ActivateKeeps, RadiusSendKeeps, ImportKeeps, MailKeeps, SyncListKeeps,
     SyncFailsKeeps, ImportNextKeeps, CheckCapacityKeeps, WriteUserKeeps, SyncCommitKeeps, RelayKeeps,
     ParseCodeKeeps, DeliverKeeps, SentSinceKeeps, SendKeeps DEF Step

\* Every step keeps the invariant.
LEMMA NextHolds == GatewayInv /\ [Next]_vars => GatewayInv'
<1>. SUFFICES ASSUME GatewayInv, [Next]_vars PROVE GatewayInv'
  OBVIOUS
<1>1. CASE UNCHANGED vars
  <2>1. UNCHANGED Tables /\ call' = call
    BY <1>1 DEF vars, Tables
  <2>2. ASSUME NEW i \in Calls PROVE Fits(i, call[i])'
    <3>1. Fits(i, call[i])
      BY CallFits
    <3>. QED
      BY <2>1, <3>1 DEF Fits, NameFits, RoomFits, ImportFits, MailFits, SendFits, SyncFits, Room,
                        Usage, Active, Tables
  <2>. QED
    BY <2>1, <2>2 DEF GatewayInv, TypeOK, CallsFit, KnownIsLocal, SharedRateLimit, SyncKeepsKnown, Tables
<1>. QED
  BY <1>1, StepKeeps, ChangesKeep, EditLocalKeeps DEF Next

\* The invariant of the gateway and of the users it sends to.
LEMMA GatewayHolds == Spec => []GatewayInv
<1>. QED
  BY InitHolds, NextHolds, PTL DEF Spec

\* The email gateway accepts a mail only when every mobile among its recipients
\* was sent the code, and together with RADIUS it stays within the number of
\* codes per mobile, unless two of them counted before either had sent.
THEOREM SendingIsWhole == Spec => []SendingHolds
<1>1. GatewayInv => SendingHolds
  BY DEF GatewayInv, SendingHolds, AcceptedDelivered, CallsFit, Fits, MailFits, At
<1>. QED
  BY <1>1, GatewayHolds, PTL

\* An undisturbed directory import adds all its users or none, and a local user
\* that a sync has seen stays registered through failed and repeated passes.
THEOREM UsersStay == Spec => []UsersAreKept
<1>1. GatewayInv => UsersAreKept
  BY DEF GatewayInv, UsersAreKept, ImportWhole, CallsFit, Fits, ImportFits, At
<1>. QED
  BY <1>1, GatewayHolds, PTL

\* Only WriteUser and SyncCommit change who is counted, and only for their call.
LEMMA CountedStay ==
    ASSUME GatewayInv, NEW i \in Calls, Step(i)
    PROVE  \/ UNCHANGED <<users, synced>>
           \/ /\ WriteUser(i) \/ (SyncCommit(i) /\ ~At(i, "write"))
              /\ \A c \in Calls \ {i} : call'[c] = call[c]
<1>1. CASE WriteUser(i)
  <2>1. \A c \in Calls \ {i} : call'[c] = call[c]
    BY <1>1 DEF WriteUser, Finish, GatewayInv, TypeOK
  <2>. QED
    BY <1>1, <2>1
<1>2. CASE SyncCommit(i)
  <2>1. \A c \in Calls \ {i} : call'[c] = call[c]
    BY <1>2 DEF SyncCommit, Finish, GatewayInv, TypeOK
  <2>2. ~At(i, "write")
    BY <1>2 DEF SyncCommit, At
  <2>. QED
    BY <1>2, <2>1, <2>2
<1>3. CASE ~WriteUser(i) /\ ~SyncCommit(i)
  <2>1. ASSUME NEW n \in Names, Create(i, n) \/ Activate(i, n) \/ RadiusSend(i, n)
        PROVE  UNCHANGED <<users, synced>>
    BY <2>1 DEF Create, Activate, RadiusSend
  <2>2. ASSUME NEW names, Import(i, names) PROVE UNCHANGED <<users, synced>>
    BY <2>2, Zenon DEF Import
  <2>3. ASSUME NEW names, NEW relay, Mail(i, names, relay) PROVE UNCHANGED <<users, synced>>
    BY <2>3, Zenon DEF Mail
  <2>4. ASSUME NEW d \in Devices, SyncList(i, d) \/ SyncFails(i, d) PROVE UNCHANGED <<users, synced>>
    BY <2>4 DEF SyncList, SyncFails
  <2>5. ASSUME ImportNext(i) \/ CheckCapacity(i) \/ Relay(i) \/ ParseCode(i) \/ Deliver(i)
               \/ SentSince(i) \/ Send(i)
        PROVE  UNCHANGED <<users, synced>>
    BY <2>5, Zenon DEF ImportNext, CheckCapacity, Relay, ParseCode, Deliver, SentSince, Send
  <2>. QED
    BY <1>3, <2>1, <2>2, <2>3, <2>4, <2>5 DEF Step
<1>. QED
  BY <1>1, <1>2, <1>3

\* A call that leaves "write" with more users counted than before had a place.
LEMMA WrittenWithinCapacity ==
    ASSUME GatewayInv, NEW c \in Calls, At(c, "write"), WriteUser(c), Usage' > Usage
    PROVE  Usage' <= cap \/ c \in disturbed
<1>. DEFINE n == call[c].name
<1>1. n \in Names /\ RoomFits(c, call[c])
  BY CallFits DEF At, Fits, NameFits
<1>2. Usage \in Nat /\ cap \in Nat
  BY UsageIsCount DEF GatewayInv, TypeOK
<1>3. CASE users' = [users EXCEPT ![n] = "active"] /\ synced' = synced
  <2>1. Usage' \in Nat /\ Usage' <= Usage + 1 /\ (users[n] = "active" => Usage' = Usage)
    BY <1>1, <1>3, OneMore DEF GatewayInv
  <2>2. c \notin disturbed => Usage + 1 <= cap \/ users[n] = "active"
    BY <1>1 DEF RoomFits, Room, At
  <2>. QED
    BY <1>2, <2>1, <2>2
<1>4. CASE UNCHANGED <<users, synced>>
  <2>1. Usage' = Usage
    BY <1>4 DEF Usage, Active
  <2>. QED
    BY <1>2, <2>1
<1>. QED
  BY <1>3, <1>4 DEF WriteUser

\* Create, Update and ImportDirectory never exceed the licensed number of users,
\* unless another writer came between what they read and what they write.
THEOREM AddingIsLicensed == Spec => AddedWithinCapacity
<1>. DEFINE Within(c) == At(c, "write") /\ call'[c].pc # "write" /\ Usage' > Usage
                         => Usage' <= cap \/ c \in disturbed
<1>1. GatewayInv /\ [Next]_vars => [\A c \in Calls : Within(c)]_vars
  <2>. SUFFICES ASSUME GatewayInv, Next, NEW c \in Calls,
                       At(c, "write"), call'[c].pc # "write", Usage' > Usage
                PROVE  Usage' <= cap \/ c \in disturbed
    OBVIOUS
  <2>1. Usage \in Nat
    BY UsageIsCount DEF GatewayInv
  <2>2. ~(UNCHANGED <<users, synced>>)
    <3>1. UNCHANGED <<users, synced>> => Usage' = Usage
      BY DEF Usage, Active
    <3>. QED
      BY <2>1, <3>1
  <2>3. call' # call
    BY DEF At
  <2>4. PICK i \in Calls : Step(i)
    BY <2>2, <2>3 DEF Next, Deactivate, Delete, EditLocal, SetCapacity
  <2>5. i = c /\ WriteUser(c)
    BY <2>2, <2>4, CountedStay DEF At
  <2>. QED
    BY <2>5, WrittenWithinCapacity
<1>. QED
  BY <1>1, GatewayHolds, PTL DEF Spec, AddedWithinCapacity

===============================================================================
