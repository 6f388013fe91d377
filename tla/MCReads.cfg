SPECIFICATION MCSpec
CONSTANTS
  AddressTxs = {1, 2, 3}
  ADDRESS_PAGE = 1
  HISTORY_PAGES_PER_ROUND = 1
  MEMPOOL_PER_ROUND = 2
  Servers <- MCServers
  MaxTip = 3
  MaxTxMoves = 4
  MaxRounds = 2
  MaxLoads = 1
  MaxUndone = 1
  REORDERED_MAX = 2
  ABOVE_THE_TIP = 1
  Txs = {1, 2}
  Touches <- MCTouches
  TIP_LAG_MAX = 1
  Mainnet = TRUE
  Heard = {2}
  Scripts = {1, 2, 3}
  StopGap = 1
  PARALLEL_REQUESTS = 2
  WALK_BATCH = 2
  PAGE = 1
  MEMPOOL_LISTED = 1
  LATEST = 2
  Protocols = {"esplora", "electrum"}
  Lags = {0, 2}
  MaxHeight = 3
  MaxMoves = 2
  MaxReorgs = 1
  MaxDepth = 2
  MaxSyncs = 2
  RETARGET_PERIOD = 2
  PAST_THE_TABLE = 1
  BRANCH_MAX = 3
  CHAINED_MAX = 1
  CHAIN_REQUESTS_MAX = 1
  BLOCKS_PER_REQUEST = 1
  Limit = 8
  Targets <- MCTargets
  Ends <- MCEnds
  ChainBelow <- MCChainBelow
  SixtyFour <- MCSixtyFour
  TrueChain <- MCTrueChain
  TrueTxs <- MCTrueTxs
  Forged <- MCForged
  Claims <- MCClaims
  FASTEST_BLOCK_SECS = 1
  WRITTEN_AFTER = 4
  GenesisTime = 0
  MaxProofs = 3
INVARIANTS
  
  QuietIsServer
  BlockIsReal
  PlaceIsReal
PROPERTIES
  KeepsConfirmations
CHECK_DEADLOCK FALSE
