SPECIFICATION MCSpec
CONSTANTS
  Wallets <- MCWallets
  ScriptsOfWallet <- MCScripts
  ElectrumServers = {e1, e2}
  HubServers <- MCHubServers
  OwnNode = FALSE
  Limits <- MCLimits
  ELECTRUM_WINDOW = 1
  REFUSALS = 2
  FIRST_ASK = 1
  HOT = 0
  ROUND_BUDGET = 1
  FAILED_ROUNDS = 2
  EVENT_QUEUE = 1
  TIP_LAG_MAX = 1
  HubFaults = {"unreachable", "lost", "refuses", "limit", "busy", "cut", "hello", "behind", "network", "nopush", "round", "unsure", "false"}
  Start <- MCStart
  Returns = FALSE
  MaxMoves = 2
  MaxTroubles = 2
  MaxDisturbed = 3
  MaxHeight = 1
  Backlog = 2
  w1 = w1
  x1 = x1
  x2 = x2
  e1 = e1
  e2 = e2
  m1 = m1
  Rotation <- MCRotation
  Catalogue <- MCCatalogue
  RELEGATION_FIRST = 1
  RELEGATION_MAX = 3
  MAX_MONEY = 6
  HIGH_FEE_RATE_SAT_VB = 1
  HIGH_FEE_SHARE = 20
  DUST = 1
  p1 = p1
  p2 = p2
  Calls = {p1, p2}
  Config <- Automatic
  Network = "main"
  Txs = {1, 2}
  SpendsOf <- MCSpendsOf
  Truth <- MCTruth
  Vaults <- MCVaults
  Containers <- MCContainers
  RECENT_BROADCASTS = 1
  Scenarios <- MCScenarios
  MaxTime = 2
  Networks = {"main", "signet"}
  Active = "main"
  Typed <- MCTyped
  Public <- MCPublic
  PublicEsplora <- MCPublicEsplora
  Certificates <- MCCertificates
  MaxEdits = 2
  MaxConnections = 1
  Resolutions <- MCResolutions
  STAGGER = 1
  AT_ONCE = 2
  STALL = 3
  MOST = 4
  Timeout = 10
  s1 = s1
  s2 = s2
  Streams = {s1, s2}
  MaxClients = 3
  TrustLoopback = TRUE
  EmbeddedAvailable = TRUE
  Sessions <- MCSessions
  Params = 3
  WINDOW = 2
  MAX_STRAY = 2
  MAX_READ = 8
  PAUSES = 1
  TRIES = 2
  RateWaits = {0, 7, 70}
  RATE_WAIT_MIN = 5
  RATE_WAIT_MAX = 60
INVARIANTS
  NothingUnsaid
  HubInv
  PreviewInv
  OrderInv
  SentIsTaken
  ServersInv
  
  HungIsLeft
  RequestsInv
PROPERTIES
  TakenIsNotRefused
SYMMETRY Interchangeable
CHECK_DEADLOCK FALSE
