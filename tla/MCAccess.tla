------------------------------- MODULE MCAccess -------------------------------
EXTENDS Access, TLC

CONSTANTS ann, bob, s1, s2, s3

\* ann is a signed-in superadmin; bob is one too, or a viewer still without
\* two-factor whose session passed the password, or not there yet.
Enrolled(role) == [role |-> role, active |-> TRUE, failed |-> 0, locked |-> FALSE,
                   password |-> 1, secret |-> 1, enabled |-> TRUE]
Fresh(role) == [Enrolled(role) EXCEPT !.secret = 0, !.enabled = FALSE]
Signed(u, m) == [state |-> "open", user |-> u, mfa |-> m, age |-> "fresh", password |-> 1,
                 late |-> FALSE, proof |-> 0]
Unused == [Signed(ann, FALSE) EXCEPT !.state = "free"]

Absent == [Fresh("none") EXCEPT !.active = FALSE]

MCStories ==
    {[row |-> ann :> Enrolled("superadmin") @@ bob :> b,
      session |-> s1 :> Signed(ann, TRUE) @@ s2 :> Signed(bob, b.enabled) @@ s3 :> Unused] :
        b \in {Enrolled("superadmin"), [Fresh("viewer") EXCEPT !.secret = 1]}}
    \cup {[row |-> ann :> Enrolled("superadmin") @@ bob :> Absent,
           session |-> s1 :> Signed(ann, TRUE) @@ s2 :> Signed(ann, FALSE) @@ s3 :> Unused]}
===============================================================================
