--------------------------- MODULE MCChangeEngine ---------------------------
(* Small instances of ChangeEngine. *)
EXTENDS ChangeEngine, TLC

CONSTANTS d1, d2, d3

MkPlan(devs, m, canary, conc, maxFail, backup, required) ==
    [devs |-> devs, mode |-> m, canary |-> canary, conc |-> conc, maxFail |-> maxFail,
     backup |-> backup, required |-> required]

\* Three devices: no, one or two canaries, one or two at a time, no or one
\* failure allowed; two devices with a backup first and one approval; one
\* device with two approvals and every run mode.
ExecutionPlans ==
    {MkPlan(<<d2, d1, d3>>, "now", k, n, f, FALSE, 0) : k \in 0..2, n \in 1..2, f \in 0..1}
      \cup {MkPlan(<<d1, d2>>, "now", 1, 2, 0, TRUE, 1)}
      \cup {MkPlan(<<d1>>, m, 0, 1, 0, FALSE, 2) : m \in RunModes}

\* Users differ only in which of them creates and which decide.
UserSymmetry == Permutations(Users)
=============================================================================
