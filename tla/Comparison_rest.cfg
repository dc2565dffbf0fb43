SPECIFICATION Spec
CONSTANTS
  None = None
  ChainLen = 5
  BlockNo <- MCBlockNo
  NumTx <- MCNumTx
  Leaves <- MCLeaves
  K = 1
  Defects <- MCAllDefects
  MaxDeleted = 1
  BlockMargin = 0
  CutoffArgs = {None, 0, 2}
  Windows <- RestWindows
  Tables = {"block", "tx", "leaf", "owner"}
  AtRest = TRUE
INVARIANTS
  WindowExact
  VerdictIsTruth
CHECK_DEADLOCK FALSE
