--------------------------- MODULE MCBackupStore ---------------------------
(* Small instances of BackupStore. *)
EXTENDS BackupStore

CONSTANTS c1, c2, x, r1, r2

Policy(n, a) == [count |-> n, age |-> a]
MCRules == {Policy(1, 0), Policy(2, 0), Policy(0, 1), NoRule}

Quiet == [calls |-> {c1}, rules |-> {NoRule}, slots |-> {}, lockable |-> {}, abandoned |-> {},
          deviceGoes |-> FALSE, clock |-> 0, crashes |-> 0]

\* Backups and a deletion with retention to one, two backups at once or one with
\* restarts and the device deleted; two backups at once that retain by count, or
\* one that retains by age too with a lock; two restores beside a backup, one of
\* them abandoned; a schedule with a missed day.
MCStories ==
    {[Quiet EXCEPT !.calls = {c1, c2, x}, !.rules = {Policy(1, 0)}],
     [Quiet EXCEPT !.calls = {c1, x}, !.rules = {Policy(1, 0)}, !.deviceGoes = TRUE, !.crashes = 1],
     [Quiet EXCEPT !.calls = {c1, c2}, !.rules = {Policy(1, 0), Policy(2, 0)}, !.clock = 1],
     [Quiet EXCEPT !.rules = {Policy(2, 0), Policy(0, 1)}, !.lockable = {1}, !.clock = 2],
     [Quiet EXCEPT !.calls = {c1, r1, r2}, !.abandoned = {r2}, !.crashes = 1],
     [Quiet EXCEPT !.slots = {1, 3}, !.clock = 3, !.crashes = 1]}

\* Restores beside a retention that keeps one backup.
CascadeStories == {[Quiet EXCEPT !.calls = {c1, r1, r2}, !.rules = {Policy(1, 0)}]}
=============================================================================
