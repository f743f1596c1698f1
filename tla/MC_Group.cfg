SPECIFICATION FairSpec
CONSTANTS
  Objects = {o, q}
  Paths = {a, b}
  Nothing = Nothing
  Bits = {x}
  Durations = {0, 1, 3, 9}
  TicksPerMs = 2
  MaxMs = 3
  BatchMax = 2
  MaxEvents = 2
  MaxChanges = 2
CHECK_DEADLOCK FALSE
INVARIANTS
  WaitIsHonest
PROPERTY EventsAreRead
