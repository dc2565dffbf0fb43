SPECIFICATION Spec
CONSTANTS
  None = None
  ChainLen = 5
  BlockNo <- MCBlockNo
  NumTx <- MCNumTx
  Leaves <- MCLeaves
  K = 1
  Defects <- MCDefects
  MaxDeleted = 1
  BlockMargin = 1
  CutoffArgs = {None}
  Windows <- LiveWindows
  Tables = {"leaf", "owner"}
  AtRest = FALSE
INVARIANTS
  TypeOK
  WindowExact
  VerdictIsTruth
  NoFalseAlarm
  ValueProofAgrees
CHECK_DEADLOCK FALSE
