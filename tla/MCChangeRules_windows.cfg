SPECIFICATION RulesSpec
CONSTANTS
  g1 = g1
  g2 = g2
  DayMinutes = 4
  MinMinutes = 2
  Groups = {g1, g2}
  NoGroup = NoGroup
  MaxWindows = 2
  Candidates <- SaveCandidates
  MaxTime = 60
INVARIANTS
  OpenAtFindsOccurrence
  EstimateIsFirst
CHECK_DEADLOCK FALSE
