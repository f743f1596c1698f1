SPECIFICATION FairSpec
CONSTANTS
  Readers = {r}
  Stateless = {}
  Fds = {n1, n2}
  NoFd = NoFd
  Events = {p1, p2, o1}
  Perm = {p1, p2}
  NoObject = {o1}
  Closed = Closed
  Elsewhere = Elsewhere
  Process = Process
  BatchMax = 2
  Versions = {TRUE}
  AllowRepeat = FALSE
  ReportPidfd = FALSE
  Disciplined = TRUE
INVARIANTS
  AnswerHitsItsEvent
PROPERTY PermissionIsResolved
