SPECIFICATION Spec
CONSTANTS
    Names = {ann, bob}
    NoName = NoName
    Devices = {fw}
    Calls = {c1, c2, c3}
    MaxCap = 2
    MaxSends = 1
    MaxEvents = 1
SYMMETRY Symmetry
INVARIANTS
  SendingHolds
  UsersAreKept
PROPERTIES
  AddedWithinCapacity
CHECK_DEADLOCK FALSE
