SPECIFICATION LockSpec
CONSTANTS
  Callers = {c1, c2}
  Secrets = {s1, s2}
  FREE_ATTEMPTS = 2
  FIRST_DELAY = 1
  MAX_DELAY = 3
  MaxNow = 0
  MaxUnix = 0
  MaxFailures = 5
  Operations = {"set"}
  ClockForward = FALSE
  FlakyDisk = FALSE
PROPERTIES
  CurrentWasGiven
