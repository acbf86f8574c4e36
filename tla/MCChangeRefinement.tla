------------------------- MODULE MCChangeRefinement -------------------------
(* Two changes that share a device, one of them with a canary. *)
EXTENDS ChangeRefinement

CONSTANTS d1, d2

MkPlan(devs, canary, backup) ==
    [devs |-> devs, mode |-> "now", canary |-> canary, conc |-> 1, maxFail |-> 0,
     backup |-> backup, required |-> 0]

OverlapPlans == {MkPlan(<<d1, d2>>, 1, TRUE), MkPlan(<<d2>>, 0, FALSE)}
=============================================================================
