SPECIFICATION FairSpec
CONSTANTS
    Tokens <- MCTokens
    Requests = {p}
    Loop = Loop
    MaxClock = 2
    MaxCrashes = 1
INVARIANTS
  GuardAgreesWithRow
PROPERTIES
  GivesWayOnlyToNewer
  RevocationArrives
CHECK_DEADLOCK FALSE
