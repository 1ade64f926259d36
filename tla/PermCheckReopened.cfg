SPECIFICATION Safety
CONSTANTS
  NoCheck = NoCheck
  Telegram = Telegram
  Check = {c1}
  Desktop = {}
  Class = {"plain"}
  MaxMs = 1
  MaxCrashes = 0
  FlushMayFail = FALSE
  DistinctIds = TRUE
CHECK_DEADLOCK FALSE
INVARIANT DecidedOnce
