SPECIFICATION Spec
CONSTANTS
  Txs = {1, 2}
  Touches <- MCTouches
  TIP_LAG_MAX = 2
  Mainnet = TRUE
  Heard = {2}
  Scripts = {1, 2, 3}
  StopGap = 1
  PARALLEL_REQUESTS = 2
  WALK_BATCH = 2
  PAGE = 1
  MEMPOOL_LISTED = 1
  LATEST = 2
  ABOVE_THE_TIP = 1
  Protocols = {"esplora"}
  Lags = {0, 2}
  MaxHeight = 4
  MaxMoves = 3
  MaxReorgs = 1
  MaxDepth = 1
  MaxSyncs = 2
INVARIANT OneFork
CHECK_DEADLOCK FALSE
