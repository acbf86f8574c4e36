SPECIFICATION Spec
CONSTANTS
    Users = {ann, bob}
    Packets = {p1, p2, p3}
    States = {s1, s2}
    NoState = NoState
    MaxAttempts = 1
    MaxSends = 1
    MaxFailures = 2
    MaxEvents = 1
SYMMETRY Symmetry
INVARIANTS
  CodesAreSafe
  CountsHold
  CacheIsCurrent
CHECK_DEADLOCK FALSE
