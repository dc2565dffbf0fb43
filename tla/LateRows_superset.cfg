SPECIFICATION Spec
CONSTANTS
  None = None
  EpochOf <- MCEpochOf
  Block <- MCBlock
  K = 1
  Lag = 2
  Shown = 2
  Defects <- MCDefects
  MaxMoves = 3
  Tables = {"multi_asset"}
  Margins <- MCDefault
  Windows <- MCWindows
INVARIANTS
  SupersetMeansTipGap
