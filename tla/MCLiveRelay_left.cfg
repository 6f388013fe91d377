SPECIFICATION RelaySpec
CONSTANTS
  Wallets = {w1}
  WalletScripts = {s1, s2}
  SYNCS_AT_ONCE = 1
  EVENT_QUEUE = 2
  CLAIM_BATCH = 2
  FREE_FUTILE = 1
  Backlog = 1
  w1 = w1
  s1 = s1
  s2 = s2
  Scenarios <- LeftAlone
INVARIANT
  NewsHasAHandler
CHECK_DEADLOCK FALSE
