SPECIFICATION FairSpec
CONSTANTS
    fw = fw
    web = web
    k1 = k1
    k2 = k2
    Devices = {fw, web}
    Contacts = {k1, k2}
    Fresh = 1
    Stories <- MCStories
    MaxClock = 2
INVARIANTS
  InventoryIsTrue
  ChannelKnows
PROPERTIES
  DurationHeld
  NotifiedInTheEnd
CHECK_DEADLOCK FALSE
