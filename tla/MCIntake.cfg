SPECIFICATION MCSpec
CONSTANTS
  MAX_KEY_DEPTH = 255
  MAX_DESCRIPTOR_DEPTH = 8
  HARDENED_INDEX = 1000
  IndexBound = 5
  Inputs <- MCInputs
  Options <- MCOptions
  MaxReadings = 2
  MaxWallets = 2
  Files <- MCFiles
  Passwords = {8}
  MIN_PASSWORD_CHARS = 8
  BACKUP_VERSION = 1
  MAX_GAP = 500
  SelfSigned = {"pub"}
  Configs <- MCConfigs
  MaxChanges = 2
  Codes <- MCCodes
  Frames <- MCFrames
  Threads = {t1, t2}
  MinScanFrames = 3
  MaxScanFrames = 3
  MaxUrParts = 3
  MaxUrMix = 2
  MaxFrameLen = 4
  MaxScanBytes = 5
  MaxOpenScans = 2
  MaxRefused = 1
  MaxIndex = 100
  MaxDepth = 3
  MaxScans = 2
  Viewers = {t1, t2}
  Currencies = {"EUR", "INR"}
  Every = {"EUR"}
  Cutoffs <- MCCutoffs
  Series <- MCSeries
  MAX_POINTS = 3
  MEMPOOL_SERIES_SECS = 2
  MaxTime = 2
  Lifted <- MCLifted
  BLOCK_SECONDS = 2
  MaxTip = 3
  MaxWall = 3
  MaxCoins = 2
SYMMETRY Interchangeable
INVARIANTS
  RefusedRightly
  ImportsInv
  RestoresInv
  
  PolicyInv
CHECK_DEADLOCK FALSE
