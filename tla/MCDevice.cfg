SPECIFICATION MCSpec
CONSTANTS
  Copies = {one, two}
  Lockable = {TRUE, FALSE}
  MaxDecisions = 2
  MaxChain = 1
  Callers = {one, two}
  Secrets = {x1, x2}
  FREE_ATTEMPTS = 1
  FIRST_DELAY = 1
  MAX_DELAY = 2
  MaxNow = 2
  MaxUnix = 1
  MaxFailures = 2
  Operations = {"verify", "set", "clear", "biometric"}
  ClockForward = TRUE
  FlakyDisk = TRUE
  a = a
  b = b
  payer = payer
  Payments = {one, two}
  WalletOf <- OneWallet
  NOTICES_PER_WALLET = 1
  MAX_DROPPED_HELD = 1
  BUDGET = 2
  BUDGET_WINDOW = 2
  MaxHeld = 3
  MaxClock = 2
SYMMETRY Interchangeable
INVARIANTS
  
  LockInv
  
  NoticesInv
PROPERTIES
  
  NeverEarly
CHECK_DEADLOCK FALSE
