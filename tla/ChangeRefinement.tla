-------------------------- MODULE ChangeRefinement --------------------------
(* ChangeEngine implements ChangeLifecycle when the database does not fail. *)
EXTENDS ChangeEngine

CONSTANT Free
ASSUME FreeOK == Free \notin Changes

PhaseOf(s) ==
    CASE s \in {"none", "draft", "pending"} -> "open"
      [] s = "approved"                     -> "authorised"
      [] s = "running"                      -> "active"
      [] OTHER                              -> "over"

WorkOf(c, d) ==
    IF d \notin devices THEN "gone"
    ELSE CASE target[c][d] = "none"    -> "outside"
           [] target[c][d] = "pending" -> "waiting"
           [] target[c][d] = "running" -> "going"
           [] OTHER                    -> "over"

phaseBar == [c \in Changes |-> PhaseOf(status[c])]
leaseBar == [d \in Devices |-> IF \E c \in Changes : d \in held[c]
                               THEN CHOOSE c \in Changes : d \in held[c] ELSE Free]
workBar  == [c \in Changes |-> [d \in Devices |-> WorkOf(c, d)]]

L == INSTANCE ChangeLifecycle WITH phase <- phaseBar, lease <- leaseBar, work <- workBar

\* Every step of the workflow, the scheduler, the executors and the recovery
\* is a step ChangeLifecycle allows: leases are exclusive and outlast the
\* work, work happens only in an active change, what is over stays over.
Lifecycle == L!Spec
=============================================================================
