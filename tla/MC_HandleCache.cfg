SPECIFICATION FairSpec
CONSTANTS
  Threads = {t, u}
  Fsids = {f, g}
  Handles = {h, k}
  Paths = {p, q}
  Unknown = Unknown
  NoThread = NoThread
  MaxCalls = 2
CHECK_DEADLOCK FALSE
INVARIANTS
  LentPathStays
PROPERTY ImplementsPathMemo
