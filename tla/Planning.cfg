CONSTANTS
  None = None
  PlannedTables <- MCPlannedTables
  ColumnOrder <- MCColumnOrder
  Catalogs <- MCCatalogs
  GiantDepths = {1, 2}
  CutoffEpoch = 2
  EmptyText = EmptyText
  Objects <- MCObjects
  Rows <- MCRows
SPECIFICATION Spec
INVARIANTS
  TypeOK
  PlanTells
  KeyTells
  EpochsNotSilent
