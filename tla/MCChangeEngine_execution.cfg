SPECIFICATION Spec
CONSTANTS
  d1 = d1
  d2 = d2
  d3 = d3
  Changes = {1}
  Devices = {d1, d2, d3}
  Users = {u1, u2, u3}
  Plans <- ExecutionPlans
  Cancellable = {1}
  Deletable = {d1, d2}
  Windowed = {d1}
  ListLimit = 200
  MaxCrashes = 1
  DbFaults = TRUE
SYMMETRY UserSymmetry
INVARIANTS
  LockDiscipline
  WorkOnlyWhileRunning
  RunsApproved
  RolloutIsGated
PROPERTIES
  ResultsAreFinal
CHECK_DEADLOCK FALSE
