SPECIFICATION Spec
CONSTANTS
  None = None
  ta = ta
  tb = tb
  acc = acc
  TableOrder <- MCTableOrder
  Accumulators = {acc}
  TableChoices <- MCTableChoices
  Workers = {w1, w2}
INVARIANTS
  TypeOK
  ExitCodeTrue
  ConnectionsBounded
  ReportAgrees
PROPERTIES
  Termination
