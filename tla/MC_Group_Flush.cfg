SPECIFICATION FairSpec
CONSTANTS
  Objects = {o, q}
  Paths = {a, b}
  Nothing = Nothing
  Bits = {x}
  Durations = {1}
  TicksPerMs = 2
  MaxMs = 3
  BatchMax = 2
  MaxEvents = 1
  MaxChanges = 2
CHECK_DEADLOCK FALSE
INVARIANT FlushRemovesEverything
