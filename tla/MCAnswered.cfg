SPECIFICATION MCSpec
CONSTANTS
  Callers = {c1, c2, c3}
  Revealed = {s1}
  Ahead = {}
  Change = {}
  Unknown = {}
  AskKinds = {"Checked"}
  Servers = 2
  Gaps = {1}
  MaxClock = 0
  MaxChain = 0
  MaxCalls = 3
  MaxDays = 1
  w1 = w1
  w2 = w2
  Wallets = {w1, w2}
  WalletScripts = {}
  SYNCS_AT_ONCE = 1
  EVENT_QUEUE = 1
  CLAIM_BATCH = 1
  FREE_FUTILE = 0
  Backlog = 1
  Scenarios <- MCScenarios
PROPERTIES
  Answered
  AskedIsRun
CHECK_DEADLOCK FALSE
