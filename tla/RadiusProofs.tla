----------------------------- MODULE RadiusProofs -----------------------------
(* The properties of Radius for any number of users, packets and challenges.    *)
(* The heart of the invariant is that a packet which found the right code holds *)
(* a challenge that is deleted, and that no other packet holds the same one.    *)
EXTENDS Radius, TLAPS

\* The packet has found its code right.
Holds(r) == r.pc \in {"recheck", "clear"} \/ r.answer = "accept"

\* What the record of a packet is good for, beside the challenges in memory.
Fits(r, ch) ==
    /\ r.pc # "done" => r.answer = "none"
    /\ r.pc = "verify" => r.state \in States
    /\ r.pc = "send" => MaySend(r.seen)
    /\ Holds(r) => /\ r.state \in States
                   /\ ch[r.state].state = "deleted" /\ ch[r.state].user = r.of
    /\ r.answer = "accept" => r.of = r.user

\* Every packet fits the challenges there are.
PacketsFit == \A p \in Packets : Fits(packet[p], challenge)

\* No two packets hold one challenge.
HeldOnce ==
    \A p, q \in Packets : p # q /\ Holds(packet[p]) /\ Holds(packet[q]) => packet[p].state # packet[q].state

\* The facts about packets, with their type.
PacketsHold == packet \in [Packets -> Packet] /\ PacketsFit /\ HeldOnce

\* The wrong codes of an open challenge are its attempts, and some are left.
TriedIsCounted ==
    \A s \in States :
       /\ challenge[s].state = "unused" => wrong[s] = 0
       /\ challenge[s].state = "open" => wrong[s] = challenge[s].attempts /\ Left(wrong[s])
       /\ wrong[s] <= MaxAttempts

\* A secret is replaced by an event of the panel.
SecretsAreEvents == client.secret <= events

\* The inductive invariant.
RadiusInv ==
    TypeOK /\ PacketsHold /\ TriedIsCounted /\ SendsBounded /\ FailuresCounted /\ CacheIsCurrent
    /\ SecretsAreEvents

\* Everything but the packets.
Others == <<user, sent, challenge, client, cache, admin, require, events, wrong, tries, raced>>

\* A challenge that is gone stays so: its state is not handed out again.
Gone ==
    \A s \in States : challenge[s].state = "deleted" =>
                         challenge'[s].state = "deleted" /\ challenge'[s].user = challenge[s].user

-------------------------------------------------------------------------------
(* Packets *)

\* The policy's limits are at least one.
LEMMA Limits ==
    MaxAttempts \in Nat \ {0} /\ MaxSends \in Nat \ {0} /\ MaxFailures \in Nat \ {0} /\ MaxEvents \in Nat
<1>. QED
  BY RadiusConstants

\* A packet goes on; when it holds a challenge then one it held before, or one
\* that was open until now.
LEMMA PacketGoes ==
    ASSUME RadiusInv, NEW p \in Packets, NEW r \in Packet, packet' = [packet EXCEPT ![p] = r], Gone,
           Fits(r, challenge'),
           Holds(r) => \/ Holds(packet[p]) /\ packet[p].state = r.state
                       \/ challenge[r.state].state = "open"
    PROVE  PacketsHold'
<1>1. packet \in [Packets -> Packet]
  BY DEF RadiusInv, TypeOK
<1>2. packet' \in [Packets -> Packet] /\ \A q \in Packets : packet'[q] = IF q = p THEN r ELSE packet[q]
  BY <1>1
<1>3. ASSUME NEW q \in Packets PROVE Fits(packet[q], challenge')
  BY DEF RadiusInv, PacketsHold, PacketsFit, Fits, Gone
<1>4. \A q \in Packets : Fits(packet'[q], challenge')
  BY <1>2, <1>3
<1>5. \A q \in Packets : Holds(packet[q]) => challenge[packet[q].state].state = "deleted"
  BY DEF RadiusInv, PacketsHold, PacketsFit, Fits
<1>6. \A q \in Packets \ {p} : Holds(r) /\ Holds(packet[q]) => r.state # packet[q].state
  BY <1>5 DEF RadiusInv, PacketsHold, HeldOnce
<1>7. ASSUME NEW q1 \in Packets, NEW q2 \in Packets, q1 # q2, Holds(packet'[q1]), Holds(packet'[q2])
      PROVE  packet'[q1].state # packet'[q2].state
  BY <1>2, <1>6, <1>7 DEF RadiusInv, PacketsHold, HeldOnce
<1>8. PacketsFit'
  BY <1>4 DEF PacketsFit
<1>9. HeldOnce'
  <2>1. HeldOnce' <=> \A q1, q2 \in Packets :
           q1 # q2 /\ Holds(packet'[q1]) /\ Holds(packet'[q2]) => packet'[q1].state # packet'[q2].state
    BY DEF HeldOnce, Holds
  <2>. QED
    BY <1>7, <2>1
<1>. QED
  BY <1>2, <1>8, <1>9 DEF PacketsHold

\* A packet that is not handled yet.
LEMMA NewRecord ==
    NewPacket \in Packet /\ NewPacket.pc = "new" /\ NewPacket.answer = "none" /\ NewPacket.user \in Users
<1>. DEFINE u == CHOOSE u \in Users : TRUE
<1>1. u \in Users
  BY RadiusConstants
<1>2. NewPacket = [pc |-> "new", user |-> u, of |-> u, state |-> NoState, right |-> FALSE, seen |-> 0,
                   answer |-> "none"]
  BY DEF NewPacket
<1>. HIDE DEF u
<1>. QED
  BY <1>1, <1>2 DEF Packet

\* The record of a packet that is not accepted holds nothing.
LEMMA ClosedRecord ==
    ASSUME NEW a \in {"drop", "reject", "challenge"}, NEW ch
    PROVE  LET r == [NewPacket EXCEPT !.pc = "done", !.answer = a]
           IN  r \in Packet /\ r.pc = "done" /\ r.answer = a /\ ~Holds(r) /\ Fits(r, ch)
<1>. DEFINE r == [NewPacket EXCEPT !.pc = "done", !.answer = a]
<1>1. r \in Packet /\ r.pc = "done" /\ r.answer = a
  BY NewRecord DEF Packet
<1>. HIDE DEF r
<1>2. ~Holds(r)
  BY <1>1 DEF Holds
<1>3. Fits(r, ch)
  BY <1>1, <1>2 DEF Fits
<1>4. r \in Packet /\ r.pc = "done" /\ r.answer = a /\ ~Holds(r) /\ Fits(r, ch)
  BY <1>1, <1>2, <1>3
<1>. QED
  BY <1>4 DEF r

\* Any answer but Access-Accept ends a packet.
LEMMA Closes ==
    ASSUME RadiusInv, NEW p \in Packets, NEW a \in {"drop", "reject", "challenge"}, Answer(p, a), Gone
    PROVE  PacketsHold'
<1>. DEFINE r == [NewPacket EXCEPT !.pc = "done", !.answer = a]
<1>1. r \in Packet /\ ~Holds(r) /\ Fits(r, challenge')
  BY ClosedRecord
<1>2. packet' = [packet EXCEPT ![p] = r]
  BY DEF Answer
<1>. HIDE DEF r
<1>. QED
  BY <1>1, <1>2, PacketGoes

\* A step that changes the packets only.
LEMMA OnlyPackets ==
    ASSUME RadiusInv, UNCHANGED Others, PacketsHold'
    PROVE  RadiusInv'
<1>1. TypeOK'
  BY DEF RadiusInv, TypeOK, PacketsHold, Others
<1>2. TriedIsCounted' /\ SendsBounded' /\ FailuresCounted' /\ CacheIsCurrent' /\ SecretsAreEvents'
  BY DEF RadiusInv, TriedIsCounted, SendsBounded, FailuresCounted, CacheIsCurrent, SecretsAreEvents, Others
<1>. QED
  BY <1>1, <1>2 DEF RadiusInv

\* Nothing comes back while the challenges stay as they are.
LEMMA GoneStays == UNCHANGED challenge => Gone
<1>. QED
  BY DEF Gone

\* What is known of a packet before its step.
LEMMA PacketFacts ==
    ASSUME RadiusInv, NEW p \in Packets
    PROVE  /\ packet[p] \in Packet /\ Fits(packet[p], challenge)
           /\ packet[p].user \in Users /\ packet[p].of \in Users /\ packet[p].seen \in Nat
<1>. QED
  BY DEF RadiusInv, TypeOK, PacketsHold, PacketsFit, Packet

-------------------------------------------------------------------------------
(* Steps of a packet *)

\* ServeRADIUS drops the packet or takes what it carries; lookup leaves in the
\* cache what it answers.
LEMMA ArriveKeeps ==
    ASSUME RadiusInv, NEW p \in Packets, NEW u \in Users, NEW s \in States \cup {NoState},
           NEW right \in BOOLEAN, NEW auth \in BOOLEAN, NEW k \in 0..MaxEvents,
           Arrive(p, u, s, right, k, auth)
    PROVE  RadiusInv'
<1>. DEFINE same == k = Looked.secret
            drop == ~Looked.enabled \/ (auth /\ ~same) \/ (~auth /\ require)
            pc == IF s = NoState THEN "password" ELSE "verify"
            good == right /\ same
            r1 == [packet[p] EXCEPT !.pc = "done", !.answer = "drop"]
            r2 == [packet[p] EXCEPT !.pc = pc, !.user = u, !.state = s, !.right = good]
<1>1. /\ packet[p].pc = "new" /\ cache' = [loaded |-> TRUE, row |-> Looked]
      /\ UNCHANGED <<user, sent, challenge, client, admin, require, events, wrong, tries, raced>>
  BY DEF Arrive, At
<1>2. packet' = [packet EXCEPT ![p] = r1] \/ packet' = [packet EXCEPT ![p] = r2]
  BY DEF Arrive
<1>3. packet[p] \in Packet /\ Fits(packet[p], challenge)
  BY PacketFacts
<1>4. pc \in {"password", "verify"} /\ (pc = "verify" => s \in States) /\ good \in BOOLEAN
  OBVIOUS
<1>. HIDE DEF same, drop, pc, good
<1>5. r1 \in Packet /\ r1.pc = "done" /\ r1.answer = "drop"
  BY <1>3 DEF Packet
<1>6. /\ r2 \in Packet /\ r2.pc = pc /\ r2.state = s /\ r2.answer = packet[p].answer
  BY <1>3, <1>4 DEF Packet
<1>. HIDE DEF r1, r2
<1>7. Fits(r1, challenge') /\ ~Holds(r1)
  BY <1>5 DEF Fits, Holds
<1>8. Fits(r2, challenge') /\ ~Holds(r2)
  BY <1>1, <1>3, <1>4, <1>6 DEF Fits, Holds
<1>9. PacketsHold'
  BY <1>1, <1>2, <1>5, <1>6, <1>7, <1>8, GoneStays, PacketGoes
<1>10. Looked \in ClientRow /\ (admin = "idle" => Looked = client)
  BY DEF Looked, RadiusInv, TypeOK, CacheIsCurrent
<1>11. TypeOK'
  BY <1>1, <1>9, <1>10 DEF RadiusInv, TypeOK, PacketsHold
<1>12. CacheIsCurrent'
  BY <1>1, <1>10 DEF CacheIsCurrent
<1>13. TriedIsCounted' /\ SendsBounded' /\ FailuresCounted' /\ SecretsAreEvents'
  BY <1>1 DEF RadiusInv, TriedIsCounted, SendsBounded, FailuresCounted, SecretsAreEvents
<1>. QED
  BY <1>9, <1>11, <1>12, <1>13 DEF RadiusInv

\* CheckPassword goes on to the code, or to the failure.
LEMMA CheckPasswordKeeps ==
    ASSUME RadiusInv, NEW p \in Packets, CheckPassword(p) \/ DirectoryFails(p)
    PROVE  RadiusInv'
<1>. DEFINE u == packet[p].user
            pc == IF packet[p].right THEN "rate" ELSE "fail"
            r == [packet[p] EXCEPT !.pc = pc, !.of = u, !.seen = user[u].failed]
<1>1. packet[p].pc = "password" /\ UNCHANGED Others
  BY DEF CheckPassword, DirectoryFails, At, panelVars, Others
<1>2. /\ packet[p] \in Packet /\ Fits(packet[p], challenge) /\ u \in Users
      /\ Gone /\ user[u].failed \in Nat
  BY <1>1, PacketFacts, GoneStays, Limits DEF Others, RadiusInv, TypeOK, UserRow
<1>3. Answer(p, "reject") \/ packet' = [packet EXCEPT ![p] = r]
  BY DEF CheckPassword, DirectoryFails
<1>4. pc \in {"rate", "fail"}
  OBVIOUS
<1>. HIDE DEF pc
<1>5. r \in Packet /\ r.pc = pc /\ r.answer = packet[p].answer
  BY <1>2, <1>4 DEF Packet
<1>. HIDE DEF r
<1>6. Fits(r, challenge') /\ ~Holds(r)
  BY <1>1, <1>2, <1>4, <1>5 DEF Fits, Holds
<1>7. PacketsHold'
  BY <1>2, <1>3, <1>5, <1>6, Closes, PacketGoes
<1>. QED
  BY <1>1, <1>7, OnlyPackets

\* The rate limit is read before the message.
LEMMA RateLimitKeeps ==
    ASSUME RadiusInv, NEW p \in Packets, RateLimit(p)
    PROVE  RadiusInv'
<1>. DEFINE u == packet[p].of
            r == [packet[p] EXCEPT !.pc = "send", !.seen = sent[u]]
<1>1. packet[p].pc = "rate" /\ UNCHANGED Others
  BY DEF RateLimit, At, panelVars, Others
<1>2. /\ packet[p] \in Packet /\ Fits(packet[p], challenge) /\ u \in Users
      /\ Gone /\ sent[u] \in Nat
  BY <1>1, PacketFacts, GoneStays DEF Others, RadiusInv, TypeOK
<1>3. \/ Answer(p, "reject")
      \/ packet' = [packet EXCEPT ![p] = r] /\ MaySend(sent[u])
  BY DEF RateLimit
<1>4. r \in Packet /\ r.pc = "send" /\ r.seen = sent[u] /\ r.answer = packet[p].answer
  BY <1>2 DEF Packet
<1>. HIDE DEF r
<1>5. MaySend(sent[u]) => Fits(r, challenge') /\ ~Holds(r)
  BY <1>1, <1>2, <1>4 DEF Fits, Holds
<1>6. PacketsHold'
  BY <1>2, <1>3, <1>4, <1>5, Closes, PacketGoes
<1>. QED
  BY <1>1, <1>6, OnlyPackets

\* After the unlock, the row of the challenge's user is read for the failure.
LEMMA ExhaustedKeeps ==
    ASSUME RadiusInv, NEW p \in Packets, Exhausted(p)
    PROVE  RadiusInv'
<1>. DEFINE u == packet[p].of
            r == [packet[p] EXCEPT !.pc = "fail", !.seen = user[u].failed]
<1>1. packet[p].pc = "exhausted" /\ UNCHANGED Others
  BY DEF Exhausted, At, panelVars, Others
<1>2. /\ packet[p] \in Packet /\ Fits(packet[p], challenge) /\ u \in Users
      /\ Gone /\ user[u].failed \in Nat
  BY <1>1, PacketFacts, GoneStays, Limits DEF Others, RadiusInv, TypeOK, UserRow
<1>3. Answer(p, "reject") \/ packet' = [packet EXCEPT ![p] = r]
  BY DEF Exhausted
<1>4. r \in Packet /\ r.pc = "fail" /\ r.answer = packet[p].answer
  BY <1>2 DEF Packet
<1>. HIDE DEF r
<1>5. Fits(r, challenge') /\ ~Holds(r)
  BY <1>1, <1>2, <1>4 DEF Fits, Holds
<1>6. PacketsHold'
  BY <1>2, <1>3, <1>4, <1>5, Closes, PacketGoes
<1>. QED
  BY <1>1, <1>6, OnlyPackets

\* The user is read again after the right code.
LEMMA RecheckKeeps ==
    ASSUME RadiusInv, NEW p \in Packets, Recheck(p)
    PROVE  RadiusInv'
<1>. DEFINE r == [packet[p] EXCEPT !.pc = "clear"]
<1>1. packet[p].pc = "recheck" /\ UNCHANGED Others
  BY DEF Recheck, At, panelVars, Others
<1>2. packet[p] \in Packet /\ Fits(packet[p], challenge) /\ Gone /\ challenge' = challenge
  BY <1>1, PacketFacts, GoneStays DEF Others
<1>3. Answer(p, "reject") \/ packet' = [packet EXCEPT ![p] = r]
  BY DEF Recheck, Goto
<1>4. /\ r \in Packet /\ r.pc = "clear" /\ r.answer = packet[p].answer
      /\ r.state = packet[p].state /\ r.of = packet[p].of /\ r.user = packet[p].user
  BY <1>2 DEF Packet
<1>. HIDE DEF r
<1>5. Fits(r, challenge') /\ Holds(packet[p])
  BY <1>1, <1>2, <1>4 DEF Fits, Holds
<1>6. PacketsHold'
  BY <1>2, <1>3, <1>4, <1>5, Closes, PacketGoes
<1>. QED
  BY <1>1, <1>6, OnlyPackets

\* fail counts from what the packet has read, or marks the user as raced.
LEMMA FailKeeps ==
    ASSUME RadiusInv, NEW p \in Packets, Fail(p)
    PROVE  RadiusInv'
<1>. DEFINE u == packet[p].of
            n == packet[p].seen
            f == Failed(u, n)
<1>1. /\ packet[p].pc = "fail" /\ Answer(p, "reject")
      /\ user' = IF user[u].exists THEN [user EXCEPT ![u] = f] ELSE user
      /\ tries' = [tries EXCEPT ![u] = IF f.locked THEN 0 ELSE @ + 1]
      /\ raced' = IF user[u].failed # n \/ user[u].locked THEN raced \cup {<<u, "fail">>} ELSE raced
      /\ UNCHANGED <<sent, challenge, client, cache, admin, require, events, wrong>>
  BY DEF Fail, At, panelVars
<1>2. u \in Users /\ n \in Nat /\ user[u] \in UserRow /\ tries[u] \in Nat
  BY PacketFacts DEF RadiusInv, TypeOK
<1>3. PacketsHold'
  BY <1>1, GoneStays, Closes
<1>4. /\ f \in UserRow /\ f.exists = user[u].exists
      /\ n + 1 >= MaxFailures => f.failed = 0 /\ f.locked
      /\ n + 1 < MaxFailures => f.failed = n + 1 /\ ~f.locked
  <2>1. CASE n + 1 >= MaxFailures
    <3>1. f = [user[u] EXCEPT !.failed = 0, !.locked = TRUE]
      BY <2>1 DEF Failed
    <3>2. 0 \in 0..MaxFailures - 1
      BY Limits
    <3>. HIDE DEF f
    <3>3. f \in UserRow /\ f.exists = user[u].exists /\ f.failed = 0 /\ f.locked
      BY <1>2, <3>1, <3>2 DEF UserRow
    <3>. QED
      BY <1>2, <2>1, <3>3, Limits
  <2>2. CASE n + 1 < MaxFailures
    <3>1. f = [user[u] EXCEPT !.failed = n + 1, !.locked = FALSE]
      BY <1>2, <2>2, Limits DEF Failed
    <3>2. n + 1 \in 0..MaxFailures - 1
      BY <1>2, <2>2, Limits
    <3>. HIDE DEF f
    <3>3. f \in UserRow /\ f.exists = user[u].exists /\ f.failed = n + 1 /\ ~f.locked
      BY <1>2, <3>1, <3>2 DEF UserRow
    <3>. QED
      BY <1>2, <2>2, <3>3, Limits
  <2>. QED
    BY <1>2, <2>1, <2>2, Limits
<1>. HIDE DEF f
<1>5. user' \in [Users -> UserRow] /\ tries' \in [Users -> Nat] /\ raced' \subseteq Users \X {"fail", "send"}
  BY <1>1, <1>2, <1>4 DEF RadiusInv, TypeOK
<1>6. TypeOK'
  BY <1>1, <1>3, <1>5 DEF RadiusInv, TypeOK, PacketsHold
<1>7. FailuresCounted'
  <2>. SUFFICES ASSUME NEW v \in Users, user'[v].exists, <<v, "fail">> \notin raced'
                PROVE  user'[v].failed = tries'[v] /\ tries'[v] < MaxFailures
    BY DEF FailuresCounted
  <2>1. <<v, "fail">> \notin raced
    BY <1>1
  <2>2. CASE v # u
    BY <1>1, <2>1, <2>2 DEF RadiusInv, TypeOK, FailuresCounted
  <2>3. CASE v = u
    <3>1. user[u].exists /\ user'[u] = f
      BY <1>1, <1>2, <2>3 DEF RadiusInv, TypeOK
    <3>2. user[u].failed = n
      BY <1>1, <2>3
    <3>3. tries[u] = n
      BY <2>1, <2>3, <3>1, <3>2 DEF RadiusInv, FailuresCounted
    <3>4. tries'[u] = IF f.locked THEN 0 ELSE n + 1
      BY <1>1, <1>2, <3>3 DEF RadiusInv, TypeOK
    <3>. QED
      BY <1>2, <1>4, <2>3, <3>1, <3>4, Limits
  <2>. QED
    BY <2>2, <2>3
<1>8. TriedIsCounted' /\ SendsBounded' /\ CacheIsCurrent' /\ SecretsAreEvents'
  BY <1>1 DEF RadiusInv, TriedIsCounted, SendsBounded, CacheIsCurrent, SecretsAreEvents
<1>. QED
  BY <1>3, <1>6, <1>7, <1>8 DEF RadiusInv

\* StartChallenge sends within the limit it has read, or marks the user.
LEMMA SendCodeKeeps ==
    ASSUME RadiusInv, NEW p \in Packets, SendCode(p)
    PROVE  RadiusInv'
<1>. DEFINE u == packet[p].of
            r == [packet[p] EXCEPT !.pc = "open", !.seen = 0]
<1>1. /\ packet[p].pc = "send"
      /\ UNCHANGED <<user, challenge, client, cache, admin, require, events, wrong, tries>>
  BY DEF SendCode, At, panelVars
<1>2. /\ packet[p] \in Packet /\ Fits(packet[p], challenge) /\ u \in Users
      /\ Gone /\ sent[u] \in Nat /\ packet[p].seen \in Nat
  BY <1>1, PacketFacts, GoneStays DEF RadiusInv, TypeOK
<1>3. r \in Packet /\ r.pc = "open" /\ r.answer = packet[p].answer
  BY <1>2 DEF Packet
<1>4. CASE Answer(p, "reject") /\ UNCHANGED <<sent, raced>>
  BY <1>1, <1>2, <1>4, Closes, OnlyPackets DEF Others
<1>5. CASE /\ sent' = [sent EXCEPT ![u] = @ + 1]
           /\ raced' = IF sent[u] # packet[p].seen THEN raced \cup {<<u, "send">>} ELSE raced
           /\ packet' = [packet EXCEPT ![p].pc = "open", ![p].seen = 0]
  <2>1. packet' = [packet EXCEPT ![p] = r]
    BY <1>5
  <2>. HIDE DEF r
  <2>2. Fits(r, challenge') /\ ~Holds(r)
    BY <1>1, <1>2, <1>3 DEF Fits, Holds
  <2>3. PacketsHold'
    BY <1>2, <1>3, <2>1, <2>2, PacketGoes
  <2>4. sent' \in [Users -> Nat] /\ raced' \subseteq Users \X {"fail", "send"} /\ raced \subseteq raced'
    BY <1>2, <1>5 DEF RadiusInv, TypeOK
  <2>5. TypeOK'
    BY <1>1, <2>3, <2>4 DEF RadiusInv, TypeOK, PacketsHold
  <2>6. SendsBounded'
    <3>. SUFFICES ASSUME NEW v \in Users PROVE sent'[v] <= MaxSends \/ <<v, "send">> \in raced'
      BY DEF SendsBounded
    <3>1. CASE v # u
      BY <1>5, <2>4, <3>1 DEF RadiusInv, TypeOK, SendsBounded
    <3>2. CASE v = u
      <4>1. /\ sent[u] = packet[p].seen \/ <<v, "send">> \in raced'
            /\ sent'[u] = sent[u] + 1
        BY <1>2, <1>5, <3>2 DEF RadiusInv, TypeOK
      <4>2. MaySend(packet[p].seen)
        BY <1>1, <1>2 DEF Fits
      <4>. QED
        BY <1>2, <3>2, <4>1, <4>2, Limits DEF MaySend
    <3>. QED
      BY <3>1, <3>2
  <2>7. FailuresCounted'
    BY <1>1, <2>4 DEF RadiusInv, FailuresCounted
  <2>8. TriedIsCounted' /\ CacheIsCurrent' /\ SecretsAreEvents'
    BY <1>1 DEF RadiusInv, TriedIsCounted, CacheIsCurrent, SecretsAreEvents
  <2>. QED
    BY <2>3, <2>5, <2>6, <2>7, <2>8 DEF RadiusInv
<1>. QED
  BY <1>4, <1>5 DEF SendCode

\* A step that changes packets and challenges, or the wrong codes counted.
LEMMA PacketsAndChallenges ==
    ASSUME RadiusInv, UNCHANGED <<user, sent, client, cache, admin, require, events, tries, raced>>,
           PacketsHold', challenge' \in [States -> Challenge], wrong' \in [States -> Nat], TriedIsCounted'
    PROVE  RadiusInv'
<1>1. TypeOK'
  BY DEF RadiusInv, TypeOK, PacketsHold
<1>2. SendsBounded' /\ FailuresCounted' /\ CacheIsCurrent' /\ SecretsAreEvents'
  BY DEF RadiusInv, SendsBounded, FailuresCounted, CacheIsCurrent, SecretsAreEvents
<1>. QED
  BY <1>1, <1>2 DEF RadiusInv

\* A state is handed out once, and expired challenges are swept.
LEMMA OpenChallengeKeeps ==
    ASSUME RadiusInv, NEW p \in Packets, NEW s \in States, OpenChallenge(p, s)
    PROVE  RadiusInv'
<1>. DEFINE new == [state |-> "open", user |-> packet[p].of, attempts |-> 0]
<1>1. /\ challenge[s].state = "unused" /\ Answer(p, "challenge")
      /\ challenge' = [t \in States |-> IF t = s THEN new
                                        ELSE IF challenge[t].state = "expired"
                                        THEN [challenge[t] EXCEPT !.state = "deleted"] ELSE challenge[t]]
      /\ UNCHANGED <<user, sent, client, cache, admin, require, events, wrong, tries, raced>>
  BY DEF OpenChallenge, panelVars
<1>2. new \in Challenge /\ new.state = "open" /\ new.attempts = 0
  BY PacketFacts, Limits DEF Challenge
<1>3. ASSUME NEW t \in States
      PROVE  /\ [challenge[t] EXCEPT !.state = "deleted"] \in Challenge /\ challenge[t] \in Challenge
             /\ [challenge[t] EXCEPT !.state = "deleted"].state = "deleted"
             /\ [challenge[t] EXCEPT !.state = "deleted"].user = challenge[t].user
  BY DEF RadiusInv, TypeOK, Challenge
<1>. HIDE DEF new
<1>4. challenge' \in [States -> Challenge]
  BY <1>1, <1>2, <1>3
<1>5. Gone
  BY <1>1, <1>3 DEF Gone
<1>6. PacketsHold'
  BY <1>1, <1>5, Closes
<1>7. TriedIsCounted'
  <2>. SUFFICES ASSUME NEW t \in States
                PROVE  /\ challenge'[t].state = "unused" => wrong[t] = 0
                       /\ challenge'[t].state = "open" => wrong[t] = challenge'[t].attempts /\ Left(wrong[t])
                       /\ wrong[t] <= MaxAttempts
    BY <1>1 DEF TriedIsCounted
  <2>1. /\ challenge[t].state = "unused" => wrong[t] = 0
        /\ challenge[t].state = "open" => wrong[t] = challenge[t].attempts /\ Left(wrong[t])
        /\ wrong[t] <= MaxAttempts
    BY DEF RadiusInv, TriedIsCounted
  <2>2. CASE t = s
    BY <1>1, <1>2, <2>1, <2>2, Limits DEF Left
  <2>3. CASE t # s
    BY <1>1, <1>3, <2>1, <2>3
  <2>. QED
    BY <2>2, <2>3
<1>8. wrong' \in [States -> Nat]
  BY <1>1 DEF RadiusInv, TypeOK
<1>. QED
  BY <1>1, <1>4, <1>6, <1>7, <1>8, PacketsAndChallenges

\* A challenge keeps its counts when only its state ends.
LEMMA EndedChallenge ==
    ASSUME RadiusInv, NEW s \in States, NEW st \in {"expired", "deleted"},
           challenge[s].state # "unused", challenge[s].state = "deleted" => st = "deleted",
           challenge' = [challenge EXCEPT ![s].state = st], wrong' = wrong
    PROVE  Gone /\ TriedIsCounted' /\ challenge' \in [States -> Challenge]
<1>. DEFINE r == [challenge[s] EXCEPT !.state = st]
<1>1. challenge' = [challenge EXCEPT ![s] = r] /\ challenge \in [States -> Challenge]
  BY DEF RadiusInv, TypeOK
<1>2. r \in Challenge /\ r.state = st /\ r.user = challenge[s].user
  BY <1>1 DEF Challenge
<1>. HIDE DEF r
<1>3. challenge' \in [States -> Challenge] /\ \A t \in States : challenge'[t] = IF t = s THEN r ELSE challenge[t]
  BY <1>1, <1>2
<1>4. Gone
  BY <1>2, <1>3 DEF Gone
<1>5. TriedIsCounted'
  BY <1>2, <1>3 DEF RadiusInv, TriedIsCounted
<1>. QED
  BY <1>3, <1>4, <1>5

\* VerifyChallenge of a state that is not open.
LEMMA VerifyUnknownKeeps ==
    ASSUME RadiusInv, NEW p \in Packets, VerifyUnknown(p)
    PROVE  RadiusInv'
<1>. DEFINE s == packet[p].state
<1>1. /\ packet[p].pc = "verify" /\ Answer(p, "reject")
      /\ challenge' = [challenge EXCEPT ![s].state = IF @ = "unused" THEN @ ELSE "deleted"]
      /\ UNCHANGED <<user, sent, client, cache, admin, require, events, wrong, tries, raced>>
  BY DEF VerifyUnknown, At, panelVars
<1>2. s \in States
  BY <1>1, PacketFacts DEF Fits
<1>3. Gone /\ TriedIsCounted' /\ challenge' \in [States -> Challenge]
  <2>1. CASE challenge[s].state = "unused"
    <3>1. challenge[s] \in Challenge
      BY <1>2 DEF RadiusInv, TypeOK
    <3>2. challenge' = challenge
      BY <1>1, <1>2, <2>1, <3>1 DEF RadiusInv, TypeOK, Challenge
    <3>. QED
      BY <1>1, <3>2, GoneStays DEF RadiusInv, TypeOK, TriedIsCounted
  <2>2. CASE challenge[s].state # "unused"
    <3>1. challenge' = [challenge EXCEPT ![s].state = "deleted"]
      BY <1>1, <1>2, <2>2
    <3>. QED
      BY <1>1, <1>2, <2>2, <3>1, EndedChallenge
  <2>. QED
    BY <2>1, <2>2
<1>4. wrong' \in [States -> Nat]
  BY <1>1 DEF RadiusInv, TypeOK
<1>. QED
  BY <1>1, <1>3, <1>4, Closes, PacketsAndChallenges

\* A wrong code is counted; the last one takes the challenge away.
LEMMA VerifyWrongKeeps ==
    ASSUME RadiusInv, NEW p \in Packets, VerifyWrong(p)
    PROVE  RadiusInv'
<1>. DEFINE s == packet[p].state
            n == challenge[s].attempts + 1
            a == IF Left(n) THEN n ELSE 0
            st == IF Left(n) THEN "open" ELSE "deleted"
            ch == [challenge[s] EXCEPT !.attempts = a, !.state = st]
            r == [packet[p] EXCEPT !.pc = "exhausted", !.of = challenge[s].user]
<1>1. /\ packet[p].pc = "verify" /\ Open(s)
      /\ challenge' = [challenge EXCEPT ![s] = ch] /\ wrong' = [wrong EXCEPT ![s] = @ + 1]
      /\ Answer(p, "challenge") \/ packet' = [packet EXCEPT ![p] = r]
      /\ UNCHANGED <<user, sent, client, cache, admin, require, events, tries, raced>>
  BY DEF VerifyWrong, At, panelVars
<1>2. s \in States /\ challenge[s].state = "open" /\ challenge[s] \in Challenge /\ wrong[s] \in Nat
  BY <1>1 DEF Open, RadiusInv, TypeOK
<1>3. wrong[s] = challenge[s].attempts /\ Left(wrong[s])
  BY <1>2 DEF RadiusInv, TriedIsCounted
<1>4. n \in Nat /\ n = wrong[s] + 1 /\ n <= MaxAttempts
  BY <1>2, <1>3, Limits DEF Left
<1>5. a \in 0..MaxAttempts /\ st \in {"open", "deleted"} /\ (st = "open" => a = n /\ Left(n))
  BY <1>4, Limits
<1>. HIDE DEF n, a, st
<1>6. ch \in Challenge /\ ch.attempts = a /\ ch.state = st
  BY <1>2, <1>5 DEF Challenge
<1>. HIDE DEF ch
<1>7. /\ challenge' \in [States -> Challenge]
      /\ \A t \in States : challenge'[t] = IF t = s THEN ch ELSE challenge[t]
  BY <1>1, <1>6 DEF RadiusInv, TypeOK
<1>8. /\ wrong' \in [States -> Nat]
      /\ \A t \in States : wrong'[t] = IF t = s THEN n ELSE wrong[t]
  BY <1>1, <1>2, <1>4 DEF RadiusInv, TypeOK
<1>9. Gone
  BY <1>2, <1>7 DEF Gone
<1>10. TriedIsCounted'
  <2>. SUFFICES ASSUME NEW t \in States
                PROVE  /\ challenge'[t].state = "unused" => wrong'[t] = 0
                       /\ challenge'[t].state = "open" => wrong'[t] = challenge'[t].attempts /\ Left(wrong'[t])
                       /\ wrong'[t] <= MaxAttempts
    BY DEF TriedIsCounted, Left
  <2>1. CASE t = s
    BY <1>4, <1>5, <1>6, <1>7, <1>8, <2>1
  <2>2. CASE t # s
    BY <1>7, <1>8, <2>2 DEF RadiusInv, TriedIsCounted
  <2>. QED
    BY <2>1, <2>2
<1>11. PacketsHold'
  <2>1. packet[p] \in Packet /\ Fits(packet[p], challenge) /\ challenge[s].user \in Users
    BY <1>2, PacketFacts DEF Challenge
  <2>2. r \in Packet /\ r.pc = "exhausted" /\ r.answer = packet[p].answer
    BY <2>1 DEF Packet
  <2>. HIDE DEF r
  <2>3. Fits(r, challenge') /\ ~Holds(r)
    BY <1>1, <2>1, <2>2 DEF Fits, Holds
  <2>. QED
    BY <1>1, <1>9, <2>2, <2>3, Closes, PacketGoes
<1>. QED
  BY <1>1, <1>7, <1>8, <1>10, <1>11, PacketsAndChallenges

\* The right code takes the challenge away from every other packet.
LEMMA VerifyRightKeeps ==
    ASSUME RadiusInv, NEW p \in Packets, VerifyRight(p)
    PROVE  RadiusInv'
<1>. DEFINE s == packet[p].state
            r == [packet[p] EXCEPT !.pc = "recheck", !.of = challenge[s].user]
<1>1. /\ packet[p].pc = "verify" /\ Open(s)
      /\ challenge' = [challenge EXCEPT ![s].state = "deleted"]
      /\ packet' = [packet EXCEPT ![p] = r]
      /\ UNCHANGED <<user, sent, client, cache, admin, require, events, wrong, tries, raced>>
  BY DEF VerifyRight, DeleteChallenge, At, panelVars
<1>2. s \in States /\ challenge[s].state = "open" /\ challenge[s] \in Challenge
  BY <1>1 DEF Open, RadiusInv, TypeOK
<1>3. Gone /\ TriedIsCounted' /\ challenge' \in [States -> Challenge]
  BY <1>1, <1>2, EndedChallenge
<1>4. challenge'[s].state = "deleted" /\ challenge'[s].user = challenge[s].user
  BY <1>1, <1>2 DEF RadiusInv, TypeOK, Challenge
<1>5. packet[p] \in Packet /\ Fits(packet[p], challenge) /\ challenge[s].user \in Users
  BY <1>2, PacketFacts DEF Challenge
<1>6. /\ r \in Packet /\ r.pc = "recheck" /\ r.answer = packet[p].answer
      /\ r.state = s /\ r.of = challenge[s].user
  BY <1>5 DEF Packet
<1>. HIDE DEF r
<1>7. Fits(r, challenge')
  BY <1>1, <1>2, <1>4, <1>5, <1>6 DEF Fits, Holds
<1>8. PacketsHold'
  BY <1>1, <1>2, <1>3, <1>6, <1>7, PacketGoes
<1>9. wrong' \in [States -> Nat]
  BY <1>1 DEF RadiusInv, TypeOK
<1>. QED
  BY <1>1, <1>3, <1>8, <1>9, PacketsAndChallenges

\* A success clears the row, and is answered for the name the code belongs to.
LEMMA ClearKeeps ==
    ASSUME RadiusInv, NEW p \in Packets, Clear(p)
    PROVE  RadiusInv'
<1>. DEFINE u == packet[p].of
            f == [user[u] EXCEPT !.failed = 0, !.locked = FALSE]
            r == [packet[p] EXCEPT !.pc = "done", !.answer = "accept"]
<1>1. /\ packet[p].pc = "clear"
      /\ user' = [user EXCEPT ![u] = f] \/ (user' = user /\ ~user[u].exists)
      /\ tries' = [tries EXCEPT ![u] = 0]
      /\ Answer(p, IF SameName(p) THEN "accept" ELSE "reject")
      /\ UNCHANGED <<sent, challenge, client, cache, admin, require, events, wrong, raced>>
  BY DEF Clear, At, panelVars
<1>2. /\ packet[p] \in Packet /\ Fits(packet[p], challenge) /\ u \in Users
      /\ user[u] \in UserRow /\ Gone
  BY <1>1, PacketFacts, GoneStays DEF RadiusInv, TypeOK
<1>3. PacketsHold'
  <2>1. CASE ~SameName(p)
    BY <1>1, <1>2, <2>1, Closes
  <2>2. CASE SameName(p)
    <3>1. packet' = [packet EXCEPT ![p] = r]
      BY <1>1, <2>2 DEF Answer
    <3>2. /\ r \in Packet /\ r.pc = "done" /\ r.answer = "accept"
          /\ r.state = packet[p].state /\ r.of = u /\ r.user = packet[p].user
      BY <1>2 DEF Packet
    <3>. HIDE DEF r
    <3>3. Fits(r, challenge') /\ Holds(packet[p])
      BY <1>1, <1>2, <2>2, <3>2 DEF Fits, Holds, SameName
    <3>. QED
      BY <1>2, <3>1, <3>2, <3>3, PacketGoes
  <2>. QED
    BY <2>1, <2>2
<1>4. f \in UserRow /\ f.failed = 0
  <2>1. 0 \in 0..MaxFailures - 1
    BY Limits
  <2>. QED
    BY <1>2, <2>1 DEF UserRow
<1>. HIDE DEF f
<1>5. user' \in [Users -> UserRow] /\ tries' \in [Users -> Nat]
  BY <1>1, <1>2, <1>4 DEF RadiusInv, TypeOK
<1>6. TypeOK'
  BY <1>1, <1>3, <1>5 DEF RadiusInv, TypeOK, PacketsHold
<1>7. FailuresCounted'
  <2>. SUFFICES ASSUME NEW v \in Users, user'[v].exists
                PROVE  \/ user'[v].failed = tries'[v] /\ tries'[v] < MaxFailures
                       \/ <<v, "fail">> \in raced
    BY <1>1 DEF FailuresCounted
  <2>1. CASE v # u
    BY <1>1, <2>1 DEF RadiusInv, TypeOK, FailuresCounted
  <2>2. CASE v = u
    <3>1. user'[u] = f /\ tries'[u] = 0
      BY <1>1, <1>2, <2>2 DEF RadiusInv, TypeOK
    <3>. QED
      BY <1>4, <2>2, <3>1, Limits
  <2>. QED
    BY <2>1, <2>2
<1>8. TriedIsCounted' /\ SendsBounded' /\ CacheIsCurrent' /\ SecretsAreEvents'
  BY <1>1 DEF RadiusInv, TriedIsCounted, SendsBounded, CacheIsCurrent, SecretsAreEvents
<1>. QED
  BY <1>3, <1>6, <1>7, <1>8 DEF RadiusInv

\* A step of a packet.
LEMMA HandleKeeps ==
    ASSUME RadiusInv, NEW p \in Packets, Handle(p)
    PROVE  RadiusInv'
<1>. QED
  BY ArriveKeeps, CheckPasswordKeeps, FailKeeps, RateLimitKeeps, SendCodeKeeps, OpenChallengeKeeps,
     VerifyUnknownKeeps, VerifyWrongKeeps, ExhaustedKeeps, VerifyRightKeeps, RecheckKeeps, ClearKeeps
     DEF Handle

-------------------------------------------------------------------------------
(* Steps beside the packets *)

\* An event is one of finitely many.
LEMMA EventCounts == RadiusInv /\ Event => events' \in 0..MaxEvents /\ events' = events + 1 /\ events \in Nat
<1>. QED
  BY Limits DEF RadiusInv, TypeOK, Event

\* The panel or time writes one user's row, and the count of its failures.
LEMMA RowKeeps ==
    ASSUME RadiusInv, NEW u \in Users, NEW f \in UserRow, user' = [user EXCEPT ![u] = f],
           UNCHANGED <<sent, challenge, client, cache, admin, require, packet, wrong, raced>>,
           events' \in 0..MaxEvents, events' >= events,
           \/ tries' = tries /\ (f.exists => user[u].exists /\ f.failed = user[u].failed)
           \/ tries' = [tries EXCEPT ![u] = 0] /\ f.failed = 0
    PROVE  RadiusInv'
<1>1. user' \in [Users -> UserRow] /\ tries' \in [Users -> Nat]
  BY DEF RadiusInv, TypeOK
<1>2. PacketsHold'
  BY DEF RadiusInv, PacketsHold, PacketsFit, HeldOnce, Fits, Holds
<1>3. TypeOK'
  BY <1>1 DEF RadiusInv, TypeOK
<1>4. FailuresCounted'
  <2>. SUFFICES ASSUME NEW v \in Users, user'[v].exists
                PROVE  \/ user'[v].failed = tries'[v] /\ tries'[v] < MaxFailures
                       \/ <<v, "fail">> \in raced
    BY DEF FailuresCounted
  <2>1. CASE v # u
    BY <2>1 DEF RadiusInv, TypeOK, FailuresCounted
  <2>2. CASE v = u
    <3>1. user'[u] = f
      BY DEF RadiusInv, TypeOK
    <3>2. CASE tries' = tries /\ (f.exists => user[u].exists /\ f.failed = user[u].failed)
      <4>1. user[u].exists /\ f.failed = user[u].failed
        BY <2>2, <3>1, <3>2
      <4>. QED
        BY <2>2, <3>1, <3>2, <4>1 DEF RadiusInv, FailuresCounted
    <3>3. CASE tries' = [tries EXCEPT ![u] = 0] /\ f.failed = 0
      <4>1. tries'[u] = 0
        BY <3>3 DEF RadiusInv, TypeOK
      <4>. QED
        BY <2>2, <3>1, <3>3, <4>1, Limits
    <3>. QED
      BY <3>2, <3>3
  <2>. QED
    BY <2>1, <2>2
<1>5. TriedIsCounted' /\ SendsBounded' /\ CacheIsCurrent'
  BY DEF RadiusInv, TriedIsCounted, SendsBounded, CacheIsCurrent
<1>6. SecretsAreEvents'
  BY Limits DEF RadiusInv, TypeOK, ClientRow, SecretsAreEvents
<1>. QED
  BY <1>2, <1>3, <1>4, <1>5, <1>6 DEF RadiusInv

\* Update, Delete and Unlock of a user, and a lock that runs out.
LEMMA UserKeeps ==
    ASSUME RadiusInv, NEW u \in Users,
           Delete(u) \/ Unlock(u) \/ LockEnds(u) \/ \E b \in BOOLEAN : SetActive(u, b)
    PROVE  RadiusInv'
<1>1. user[u] \in UserRow /\ 0 \in 0..MaxFailures - 1 /\ events \in 0..MaxEvents
  BY Limits DEF RadiusInv, TypeOK
<1>2. ASSUME NEW b \in BOOLEAN, SetActive(u, b) PROVE RadiusInv'
  <2>. DEFINE f == [user[u] EXCEPT !.active = b]
  <2>1. f \in UserRow /\ f.exists = user[u].exists /\ f.failed = user[u].failed
    BY <1>1 DEF UserRow
  <2>2. user' = [user EXCEPT ![u] = f]
    BY <1>2 DEF SetActive
  <2>3. events' \in 0..MaxEvents /\ events' >= events
    BY <1>2, EventCounts DEF SetActive
  <2>4. UNCHANGED <<sent, challenge, client, cache, admin, require, packet, wrong, tries, raced>>
    BY <1>2 DEF SetActive, panelVars
  <2>. HIDE DEF f
  <2>. QED
    BY <2>1, <2>2, <2>3, <2>4, RowKeeps
<1>3. CASE Delete(u)
  <2>. DEFINE f == [exists |-> FALSE, active |-> FALSE, locked |-> FALSE, failed |-> 0]
  <2>1. f \in UserRow /\ ~f.exists
    BY <1>1 DEF UserRow
  <2>2. events' \in 0..MaxEvents /\ events' >= events
    BY <1>3, EventCounts DEF Delete
  <2>3. user' = [user EXCEPT ![u] = f]
    BY <1>3 DEF Delete
  <2>4. UNCHANGED <<sent, challenge, client, cache, admin, require, packet, wrong, tries, raced>>
    BY <1>3 DEF Delete, panelVars
  <2>. HIDE DEF f
  <2>. QED
    BY <2>1, <2>2, <2>3, <2>4, RowKeeps
<1>4. CASE Unlock(u)
  <2>. DEFINE f == [user[u] EXCEPT !.failed = 0, !.locked = FALSE]
  <2>1. f \in UserRow /\ f.failed = 0
    BY <1>1 DEF UserRow
  <2>2. user' = [user EXCEPT ![u] = f] /\ tries' = [tries EXCEPT ![u] = 0]
    BY <1>4 DEF Unlock
  <2>3. events' \in 0..MaxEvents /\ events' >= events
    BY <1>4, EventCounts DEF Unlock
  <2>4. UNCHANGED <<sent, challenge, client, cache, admin, require, packet, wrong, raced>>
    BY <1>4 DEF Unlock, panelVars
  <2>. HIDE DEF f
  <2>. QED
    BY <2>1, <2>2, <2>3, <2>4, RowKeeps
<1>5. CASE LockEnds(u)
  <2>. DEFINE f == [user[u] EXCEPT !.locked = FALSE]
  <2>1. f \in UserRow /\ f.exists = user[u].exists /\ f.failed = user[u].failed
    BY <1>1 DEF UserRow
  <2>2. user' = [user EXCEPT ![u] = f]
    BY <1>5 DEF LockEnds
  <2>3. UNCHANGED <<sent, challenge, client, cache, admin, require, packet, events, wrong, tries, raced>>
    BY <1>5 DEF LockEnds, panelVars
  <2>4. events' \in 0..MaxEvents /\ events' >= events
    BY <1>1, <2>3, Limits
  <2>. HIDE DEF f
  <2>. QED
    BY <2>1, <2>2, <2>3, <2>4, RowKeeps
<1>. QED
  BY <1>2, <1>3, <1>4, <1>5

\* SetClient, RotateSecret, invalidate, SaveConfig and a cache that ages.
LEMMA ClientKeeps ==
    ASSUME RadiusInv,
           \/ \E b \in BOOLEAN : SetClient(b) \/ SaveConfig(b)
           \/ RotateSecret \/ Invalidate \/ CacheAges
    PROVE  RadiusInv'
<1>1. UNCHANGED <<user, sent, challenge, packet, wrong, tries, raced>>
  BY DEF SetClient, SaveConfig, RotateSecret, WriteClient, Invalidate, CacheAges
<1>2. PacketsHold' /\ TriedIsCounted' /\ SendsBounded' /\ FailuresCounted'
  BY <1>1 DEF RadiusInv, PacketsHold, PacketsFit, HeldOnce, Fits, Holds, TriedIsCounted, SendsBounded,
              FailuresCounted
<1>3. client \in ClientRow /\ cache \in [loaded: BOOLEAN, row: ClientRow] /\ events \in 0..MaxEvents
  BY DEF RadiusInv, TypeOK
<1>4. ASSUME NEW b \in BOOLEAN, SetClient(b) PROVE RadiusInv'
  <2>. DEFINE r == [client EXCEPT !.enabled = b]
  <2>1. client' = r /\ Event /\ admin' = "invalidate" /\ cache' = cache /\ require' = require
    BY <1>4 DEF SetClient, WriteClient
  <2>2. r \in ClientRow /\ r.secret = client.secret
    BY <1>3 DEF ClientRow
  <2>3. TypeOK'
    BY <1>1, <2>1, <2>2, EventCounts DEF RadiusInv, TypeOK
  <2>4. SecretsAreEvents'
    BY <1>3, <2>1, <2>2, EventCounts, Limits DEF RadiusInv, SecretsAreEvents, ClientRow
  <2>5. CacheIsCurrent'
    BY <2>1 DEF CacheIsCurrent
  <2>. QED
    BY <1>2, <2>3, <2>4, <2>5 DEF RadiusInv
<1>5. CASE RotateSecret
  <2>. DEFINE r == [client EXCEPT !.secret = @ + 1]
  <2>1. client' = r /\ Event /\ admin' = "invalidate" /\ cache' = cache /\ require' = require
    BY <1>5 DEF RotateSecret, WriteClient
  <2>2. client.secret + 1 \in 0..MaxEvents /\ client.secret + 1 <= events'
    BY <1>3, <2>1, EventCounts, Limits DEF RadiusInv, SecretsAreEvents, ClientRow
  <2>3. r \in ClientRow /\ r.secret = client.secret + 1
    BY <1>3, <2>2 DEF ClientRow
  <2>4. TypeOK'
    BY <1>1, <2>1, <2>3, EventCounts DEF RadiusInv, TypeOK
  <2>5. SecretsAreEvents' /\ CacheIsCurrent'
    BY <2>1, <2>2, <2>3 DEF SecretsAreEvents, CacheIsCurrent
  <2>. QED
    BY <1>2, <2>4, <2>5 DEF RadiusInv
<1>6. ASSUME NEW b \in BOOLEAN, SaveConfig(b) PROVE RadiusInv'
  <2>1. TypeOK'
    BY <1>6, EventCounts DEF SaveConfig, RadiusInv, TypeOK
  <2>2. CacheIsCurrent'
    BY <1>6 DEF SaveConfig, RadiusInv, CacheIsCurrent
  <2>3. SecretsAreEvents'
    BY <1>3, <1>6, EventCounts, Limits DEF SaveConfig, RadiusInv, SecretsAreEvents, ClientRow
  <2>. QED
    BY <1>2, <2>1, <2>2, <2>3 DEF RadiusInv
<1>7. CASE Invalidate \/ CacheAges
  <2>. DEFINE r == [cache EXCEPT !.loaded = FALSE]
  <2>1. cache' = r /\ UNCHANGED <<client, require, events>> /\ admin' \in {"idle", "invalidate"}
    BY <1>7 DEF Invalidate, CacheAges, RadiusInv, TypeOK
  <2>2. r \in [loaded: BOOLEAN, row: ClientRow] /\ ~r.loaded
    BY <1>3
  <2>3. TypeOK'
    BY <1>1, <2>1, <2>2 DEF RadiusInv, TypeOK
  <2>4. SecretsAreEvents' /\ CacheIsCurrent'
    BY <2>1, <2>2 DEF RadiusInv, SecretsAreEvents, CacheIsCurrent
  <2>. QED
    BY <1>2, <2>3, <2>4 DEF RadiusInv
<1>. QED
  BY <1>4, <1>5, <1>6, <1>7

\* A challenge expires.
LEMMA ExpireKeeps ==
    ASSUME RadiusInv, NEW s \in States, Expire(s)
    PROVE  RadiusInv'
<1>1. /\ challenge[s].state = "open" /\ challenge' = [challenge EXCEPT ![s].state = "expired"]
      /\ UNCHANGED <<user, sent, client, cache, admin, require, packet, events, wrong, tries, raced>>
  BY DEF Expire, panelVars
<1>2. Gone /\ TriedIsCounted' /\ challenge' \in [States -> Challenge]
  BY <1>1, EndedChallenge
<1>3. ASSUME NEW q \in Packets PROVE Fits(packet[q], challenge')
  BY <1>2 DEF RadiusInv, PacketsHold, PacketsFit, Fits, Gone
<1>4. PacketsHold'
  BY <1>1, <1>3 DEF RadiusInv, PacketsHold, PacketsFit, HeldOnce, Holds
<1>5. wrong' \in [States -> Nat]
  BY <1>1 DEF RadiusInv, TypeOK
<1>. QED
  BY <1>1, <1>2, <1>4, <1>5, PacketsAndChallenges

\* A restart forgets the challenges, the cache and the packets being handled.
LEMMA RestartKeeps ==
    ASSUME RadiusInv, Restart
    PROVE  RadiusInv'
<1>. DEFINE closed == [NewPacket EXCEPT !.pc = "done", !.answer = "drop"]
            r == [cache EXCEPT !.loaded = FALSE]
<1>1. /\ Event /\ admin' = "idle" /\ cache' = r
      /\ challenge' = [s \in States |-> IF challenge[s].state = "unused" THEN challenge[s]
                                        ELSE [challenge[s] EXCEPT !.state = "deleted"]]
      /\ packet' = [p \in Packets |-> IF packet[p].pc \in {"new", "done"} THEN packet[p] ELSE closed]
      /\ UNCHANGED <<user, sent, client, require, wrong, tries, raced>>
  BY DEF Restart
<1>2. ASSUME NEW t \in States
      PROVE  /\ [challenge[t] EXCEPT !.state = "deleted"] \in Challenge /\ challenge[t] \in Challenge
             /\ [challenge[t] EXCEPT !.state = "deleted"].state = "deleted"
             /\ [challenge[t] EXCEPT !.state = "deleted"].user = challenge[t].user
  BY DEF RadiusInv, TypeOK, Challenge
<1>3. challenge' \in [States -> Challenge] /\ Gone
  BY <1>1, <1>2 DEF Gone
<1>4. TriedIsCounted'
  BY <1>1, <1>2 DEF RadiusInv, TriedIsCounted
<1>5. closed \in Packet /\ ~Holds(closed) /\ Fits(closed, challenge')
  BY ClosedRecord
<1>. HIDE DEF closed
<1>6. packet' \in [Packets -> Packet] /\ \A p \in Packets : packet'[p] = packet[p] \/ packet'[p] = closed
  BY <1>1, <1>5 DEF RadiusInv, TypeOK
<1>7. ASSUME NEW q \in Packets PROVE Fits(packet[q], challenge')
  BY <1>3 DEF RadiusInv, PacketsHold, PacketsFit, Fits, Gone
<1>8. PacketsFit'
  BY <1>5, <1>6, <1>7 DEF PacketsFit
<1>9. \A p \in Packets : Holds(packet'[p]) => packet'[p] = packet[p]
  BY <1>5, <1>6
<1>10. HeldOnce'
  <2>1. HeldOnce' <=> \A q1, q2 \in Packets :
           q1 # q2 /\ Holds(packet'[q1]) /\ Holds(packet'[q2]) => packet'[q1].state # packet'[q2].state
    BY DEF HeldOnce, Holds
  <2>. QED
    BY <1>9, <2>1 DEF RadiusInv, PacketsHold, HeldOnce
<1>11. r \in [loaded: BOOLEAN, row: ClientRow] /\ ~r.loaded
  BY DEF RadiusInv, TypeOK
<1>12. TypeOK'
  BY <1>1, <1>3, <1>6, <1>11, EventCounts DEF RadiusInv, TypeOK
<1>13. SendsBounded' /\ FailuresCounted' /\ CacheIsCurrent'
  BY <1>1, <1>11 DEF RadiusInv, SendsBounded, FailuresCounted, CacheIsCurrent
<1>14. SecretsAreEvents'
  BY <1>1, EventCounts, Limits DEF RadiusInv, TypeOK, ClientRow, SecretsAreEvents
<1>. QED
  BY <1>4, <1>6, <1>8, <1>10, <1>12, <1>13, <1>14 DEF RadiusInv, PacketsHold

-------------------------------------------------------------------------------
(* Theorems *)

\* Nothing is asked, sent or cached at first.
LEMMA InitHolds == Init => RadiusInv
<1>. SUFFICES ASSUME Init PROVE RadiusInv
  OBVIOUS
<1>1. \A p \in Packets : packet[p] = NewPacket
  BY DEF Init
<1>2. TypeOK
  <2>1. 0 \in 0..MaxFailures - 1 /\ 0 \in 0..MaxAttempts /\ 0 \in 0..MaxEvents
    BY Limits
  <2>2. client \in ClientRow
    BY <2>1 DEF Init, ClientRow
  <2>3. user \in [Users -> UserRow]
    BY <2>1 DEF Init, UserRow
  <2>4. challenge \in [States -> Challenge]
    BY <2>1, NewRecord DEF Init, Challenge
  <2>5. cache \in [loaded: BOOLEAN, row: ClientRow] /\ packet \in [Packets -> Packet]
    BY <2>2, NewRecord DEF Init
  <2>. QED
    BY <2>1, <2>2, <2>3, <2>4, <2>5 DEF Init, TypeOK
<1>3. \A p \in Packets : Fits(packet[p], challenge) /\ ~Holds(packet[p])
  BY <1>1, NewRecord DEF Fits, Holds
<1>4. PacketsHold
  BY <1>2, <1>3 DEF PacketsHold, PacketsFit, HeldOnce, TypeOK
<1>5. TriedIsCounted /\ SendsBounded /\ FailuresCounted
  BY Limits DEF Init, TriedIsCounted, SendsBounded, FailuresCounted
<1>6. CacheIsCurrent /\ SecretsAreEvents
  BY DEF Init, CacheIsCurrent, SecretsAreEvents
<1>. QED
  BY <1>2, <1>4, <1>5, <1>6 DEF RadiusInv

\* Every step keeps the invariant.
LEMMA NextHolds == RadiusInv /\ [Next]_vars => RadiusInv'
<1>. SUFFICES ASSUME RadiusInv, [Next]_vars PROVE RadiusInv'
  OBVIOUS
<1>1. CASE UNCHANGED vars
  <2>1. UNCHANGED Others /\ packet' = packet
    BY <1>1 DEF vars, Others
  <2>2. PacketsHold'
    BY <2>1 DEF RadiusInv, PacketsHold, PacketsFit, HeldOnce, Fits, Holds, Others
  <2>. QED
    BY <2>1, <2>2, OnlyPackets
<1>2. CASE Panel
  BY <1>2, UserKeeps, ClientKeeps DEF Panel
<1>3. CASE CacheAges
  BY <1>3, ClientKeeps
<1>4. ASSUME NEW u \in Users, LockEnds(u) PROVE RadiusInv'
  BY <1>4, UserKeeps
<1>. QED
  BY <1>1, <1>2, <1>3, <1>4, HandleKeeps, ExpireKeeps, RestartKeeps DEF Next

\* The invariant of two-factor sign-in over RADIUS.
LEMMA RadiusHolds == Spec => []RadiusInv
<1>. QED
  BY InitHolds, NextHolds, PTL DEF Spec

\* A code lets its owner in, once, and is compared with at most MaxAttempts
\* wrong ones, however many packets carry it and however they interleave with
\* restarts, expiry and changes of the user.
THEOREM CodesStaySafe == Spec => []CodesAreSafe
<1>1. RadiusInv => CodesAreSafe
  <2>. SUFFICES ASSUME RadiusInv PROVE CodesAreSafe
    OBVIOUS
  <2>1. AcceptedOnce
    BY DEF RadiusInv, PacketsHold, HeldOnce, Holds, AcceptedOnce
  <2>2. AcceptedIsOwner
    BY DEF RadiusInv, PacketsHold, PacketsFit, Fits, Holds, AcceptedIsOwner
  <2>3. TypeOK /\ AttemptsBounded
    BY DEF RadiusInv, TriedIsCounted, AttemptsBounded
  <2>. QED
    BY <2>1, <2>2, <2>3 DEF CodesAreSafe
<1>. QED
  BY <1>1, RadiusHolds, PTL

\* The codes sent to a mobile and the failures of a user are all counted, but
\* for packets of one user that overlapped between the read and the write.
THEOREM CountsAreKept == Spec => []CountsHold
<1>1. RadiusInv => CountsHold
  BY DEF RadiusInv, CountsHold
<1>. QED
  BY <1>1, RadiusHolds, PTL

\* No packet is served with a client's row that SetClient or RotateSecret has
\* replaced, once the call has returned.
THEOREM CachedClientIsCurrent == Spec => []CacheIsCurrent
<1>1. RadiusInv => CacheIsCurrent
  BY DEF RadiusInv
<1>. QED
  BY <1>1, RadiusHolds, PTL

===============================================================================
