SPECIFICATION Spec
CONSTANTS
  Readers = {r}
  Stateless = {s}
  Fds = {n1, n2}
  NoFd = NoFd
  Events = {e1, e2}
  Closed = Closed
  Elsewhere = Elsewhere
  Streams = {"fid", "unknown"}
  AllowRepeat = TRUE
  BatchMax = 2
  MaxCopies = 2
SYMMETRY FdSymmetry
INVARIANTS
  OwnedIsItsProcess
  NothingLeaks
