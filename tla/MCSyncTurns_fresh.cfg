SPECIFICATION MCSpec
CONSTANTS
  Callers = {one, two}
  Revealed = {s1}
  Ahead = {}
  Change = {u1}
  Unknown = {u1}
  AskKinds = {"Scripts", "Pending"}
  Servers = 2
  Gaps = {1, 2}
  MaxClock = 1
  MaxChain = 1
  MaxCalls = 2
  MaxDays = 1
  Calls = {one, two}
  CHECK_EVERY = 2
  NO_RIGHT_CLOCK_BEFORE = 1
  AheadBy = 2
  Ranks = 1
  Versions <- TwoReleases
  Responses <- MCResponses
  MaxElapsed = 2
  MaxSent = 1
SYMMETRY Symmetry
INVARIANTS
  ResultsInv
  GapScanned
  AsksSeldom
  ClosedStaysClosed
PROPERTIES
  NeverGoesBack
CHECK_DEADLOCK FALSE
