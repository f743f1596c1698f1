SPECIFICATION Spec
CONSTANTS
  Writers = {w1, w2}
  Fds = {n1, n2}
  NOFD = NOFD
  Errnos <- MCErrnos
  Words <- MCWords
  Decisions <- MCDecisions
  InfoTypes = {0, 1}
  Sizes <- MCSizes
  Bodies = {b}
  NoInfo = NoInfo
SYMMETRY Symmetry
INVARIANTS
  TypeOK
  WireIsTheResponse
  ResultIsTheVerdict
  OwnFormsAreAccepted
  OperationSeesTheDecision
