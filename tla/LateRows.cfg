SPECIFICATION Spec
CONSTANTS
  None = None
  EpochOf <- MCEpochOf
  Block <- MCBlock
  K = 1
  Lag = 2
  Shown = 2
  Defects <- MCDefects
  MaxMoves = 3
  Tables = {"gov_action_proposal", "tx_out", "reward", "committee", "multi_asset"}
  Margins <- MCMargins
  Windows <- MCWindows
INVARIANTS
  TypeOK
  VerdictFollowsChain
  SpentLaterOnly
  NeitherMeansForked
