SPECIFICATION Spec
CONSTANTS
  A = A
  B = B
  a1 = a1
  a2 = a2
  b1 = b1
  bytes = bytes
  other = other
  Filesystems = {A, B}
  Objects = {a1, a2, b1}
  FsOf <- MC_FsOf
  BytesOf <- MC_BytesOf
  Bases = {"", "x", "y", "child"}
  Names <- MC_Names
  Child <- MC_Child
  Unknown = Unknown
  FidOnly = {B}
  Errnos = {"EMFILE"}
  MaxMounts = 2
  MaxChanges = 2
INVARIANTS
  PathIsTheObjects
  FailureIsEarned
  MarkerIsHonest
