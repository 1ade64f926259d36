SPECIFICATION Safety
CONSTANTS
  NoCheck = NoCheck
  Telegram = Telegram
  Check = {c1, c2}
  Desktop = {}
  Class = {"plain", "needle"}
  MaxMs = 1
  MaxCrashes = 0
  FlushMayFail = FALSE
  DistinctIds = FALSE
CHECK_DEADLOCK FALSE
SYMMETRY Symmetry
INVARIANTS DestructiveFailsClosed UserVerdictWasGiven WaitingIsReachable NoOrphanWaiter CardTellsADecision
