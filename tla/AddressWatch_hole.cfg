SPECIFICATION AddressSpec
CONSTANTS
  AddressTxs = {1, 2, 3}
  ADDRESS_PAGE = 1
  HISTORY_PAGES_PER_ROUND = 1
  MEMPOOL_PER_ROUND = 2
  Servers = {{"electrum"}, {"electrum", "esplora"}}
  MaxTip = 2
  MaxTxMoves = 5
  MaxRounds = 2
  MaxLoads = 1
  MaxUndone = 0
  REORDERED_MAX = 2
  ABOVE_THE_TIP = 1
INVARIANT NoHole
CHECK_DEADLOCK FALSE
