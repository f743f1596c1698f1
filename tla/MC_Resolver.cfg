SPECIFICATION FairSpec
CONSTANTS
  Threads = {t1}
  A = A
  B = B
  d = d
  s = s
  x = x
  hd = hd
  hs = hs
  n = n
  m = m
  bad = bad
  Filesystems = {A, B}
  Objects = {d, s, x}
  Dirs = {d, s}
  Handles = {hd, hs}
  Visible = {}
  Names = {n, m}
  BadNames = {bad}
  Dot = Dot
  Deleted = Deleted
  None = None
  Unknown = Unknown
  FsOf <- MC_FsOf
  HandleOf <- MC_HandleOf
  Home <- MC_Home
  Mounts <- MC_Mounts
  Batches <- MC_Mixed
  Ops = {"resolve_events", "resolve_event_memo", "resolve_events_memo"}
  Fallbacks = {TRUE, FALSE}
  MaxChanges = 2
INVARIANTS
  TypeOK
  PathsStayOnTheirFilesystem
  ReportIsTheBatch
  PassBound
PROPERTY CallReturns
