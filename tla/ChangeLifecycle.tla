-------------------------- MODULE ChangeLifecycle --------------------------
(***************************************************************************)
(* What the change workflow promises, without how it is done: a change is  *)
(* authorised before it is active, a device is leased to one change at a   *)
(* time and worked on only under that lease by an active change, work that *)
(* is over is never taken up again, and an active change is over only when *)
(* all its work is.                                                        *)
(***************************************************************************)
CONSTANTS Changes, Devices, Free

VARIABLES
    phase,    \* of a change
    lease,    \* the change a device is reserved for, or Free
    work      \* of a change on a device

vars == <<phase, lease, work>>

Init ==
    /\ phase = [c \in Changes |-> "open"]
    /\ lease = [d \in Devices |-> Free]
    /\ work = [c \in Changes |-> [d \in Devices |-> "outside"]]

\* The work of change c after every piece of it in state s is over.
EndAll(c, s) == [d \in Devices |-> IF work[c][d] = s THEN "over" ELSE work[c][d]]

Plan(c, S) ==
    /\ phase[c] = "open"
    /\ \A d \in Devices : work[c][d] \in {"outside", "gone"}
    /\ \A d \in S : work[c][d] = "outside"
    /\ work' = [work EXCEPT ![c] = [d \in Devices |-> IF d \in S THEN "waiting" ELSE work[c][d]]]
    /\ UNCHANGED <<phase, lease>>

Authorise(c) ==
    /\ phase[c] = "open"
    /\ phase' = [phase EXCEPT ![c] = "authorised"]
    /\ UNCHANGED <<lease, work>>

\* Rejected, its work left where it is, or cancelled before it is active.
Withdraw(c) ==
    /\ phase[c] \in {"open", "authorised"}
    /\ phase' = [phase EXCEPT ![c] = "over"]
    /\ work' = work \/ work' = [work EXCEPT ![c] = EndAll(c, "waiting")]
    /\ UNCHANGED lease

Reserve(c, S) ==
    /\ \A d \in S : lease[d] = Free
    /\ lease' = [d \in Devices |-> IF d \in S THEN c ELSE lease[d]]
    /\ UNCHANGED <<phase, work>>

Begin(c) ==
    /\ phase[c] = "authorised"
    /\ phase' = [phase EXCEPT ![c] = "active"]
    /\ UNCHANGED <<lease, work>>

StartWork(c, d) ==
    /\ phase[c] = "active" /\ lease[d] = c
    /\ work[c][d] = "waiting"
    /\ work' = [work EXCEPT ![c][d] = "going"]
    /\ UNCHANGED <<phase, lease>>

EndWork(c, d) ==
    /\ phase[c] = "active" /\ lease[d] = c
    /\ work[c][d] = "going"
    /\ work' = [work EXCEPT ![c][d] = "over"]
    /\ UNCHANGED <<phase, lease>>

\* An active change drops what it has not started.
DropWaiting(c) ==
    /\ phase[c] = "active"
    /\ work' = [work EXCEPT ![c] = EndAll(c, "waiting")]
    /\ UNCHANGED <<phase, lease>>

WorkIsOver(c) == \A d \in Devices : work[c][d] \notin {"waiting", "going"}

Finish(c) ==
    /\ phase[c] = "active" /\ WorkIsOver(c)
    /\ phase' = [phase EXCEPT ![c] = "over"]
    /\ UNCHANGED <<lease, work>>

\* Only a change that is not active gives its devices back.
Release(c) ==
    /\ phase[c] # "active"
    /\ lease' = [d \in Devices |-> IF lease[d] = c THEN Free ELSE lease[d]]
    /\ UNCHANGED <<phase, work>>

Remove(d) ==
    /\ work' = [c \in Changes |-> [work[c] EXCEPT ![d] = "gone"]]
    /\ UNCHANGED <<phase, lease>>

\* A restart forgets the leases; until the sweep has ended everything that
\* was active, nothing is leased again.
Restart ==
    /\ lease' = [d \in Devices |-> Free]
    /\ UNCHANGED <<phase, work>>

Unleased == lease = [d \in Devices |-> Free]

SweepGoing ==
    /\ Unleased
    /\ work' = [c \in Changes |-> EndAll(c, "going")]
    /\ UNCHANGED <<phase, lease>>

SweepWaiting ==
    /\ Unleased
    /\ work' = [c \in Changes |-> IF phase[c] = "active" THEN EndAll(c, "waiting") ELSE work[c]]
    /\ UNCHANGED <<phase, lease>>

SweepActive ==
    /\ Unleased
    /\ \A c \in Changes : phase[c] = "active" => WorkIsOver(c)
    /\ phase' = [c \in Changes |-> IF phase[c] = "active" THEN "over" ELSE phase[c]]
    /\ UNCHANGED <<lease, work>>

Next ==
    \/ \E c \in Changes :
         \/ \E S \in SUBSET Devices : Plan(c, S) \/ Reserve(c, S)
         \/ Authorise(c) \/ Withdraw(c) \/ Begin(c) \/ DropWaiting(c) \/ Finish(c) \/ Release(c)
         \/ \E d \in Devices : StartWork(c, d) \/ EndWork(c, d)
    \/ \E d \in Devices : Remove(d)
    \/ Restart \/ SweepGoing \/ SweepWaiting \/ SweepActive

Spec == Init /\ [][Next]_vars
=============================================================================
