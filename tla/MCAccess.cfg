SPECIFICATION Spec
CONSTANTS
    ann = ann
    bob = bob
    s1 = s1
    s2 = s2
    s3 = s3
    Users = {ann, bob}
    Sessions = {s1, s2, s3}
    Calls = {1, 2}
    MaxFailures = 2
    Stories <- MCStories
INVARIANTS
  SecondFactorHolds
  OldPasswordOnlyByRace
  AdminRemains
CHECK_DEADLOCK FALSE
