SPECIFICATION Spec
CONSTANTS
  c1 = c1
  c2 = c2
  x = x
  r1 = r1
  r2 = r2
  Callers = {c1, c2}
  Deleters = {x}
  Restorers = {r1, r2}
  Configs = {A, B}
  NoRule = NoRule
  Rules <- MCRules
  FailedAge = 0
  ScanLimit = 1000
  Day = 1
  Stories <- CascadeStories
  MaxBackups = 3
  MaxClock = 3
INVARIANTS
  RestoreExclusive
CHECK_DEADLOCK FALSE
