SPECIFICATION Spec
CONSTANTS
  Threads = {t1, t2}
  A = A
  B = B
  d = d
  s = s
  x = x
  hd = hd
  hs = hs
  n = n
  m = m
  bad = bad
  Filesystems = {A, B}
  Objects = {d, s, x}
  Dirs = {d, s}
  Handles = {hd, hs}
  Visible = {d}
  Names = {n, m}
  BadNames = {bad}
  Dot = Dot
  Deleted = Deleted
  None = None
  Unknown = Unknown
  FsOf <- MC_FsOf
  HandleOf <- MC_HandleOf
  Home <- MC_Home
  Mounts <- MC_Mounts
  Batches <- MC_Shared
  Ops = {"resolve_events_memo"}
  Fallbacks = {TRUE}
  MaxChanges = 0
SYMMETRY ThreadSymmetry
INVARIANTS
  FixedPoint
