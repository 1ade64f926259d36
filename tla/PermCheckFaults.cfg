SPECIFICATION Spec
CONSTANTS
  NoCheck = NoCheck
  Telegram = Telegram
  Check = {c1}
  Desktop = {d1}
  Class = {"free", "plain", "flagged", "needle", "wide"}
  MaxMs = 2
  MaxCrashes = 1
  FlushMayFail = TRUE
  DistinctIds = TRUE
CHECK_DEADLOCK FALSE
INVARIANT TimedOutIsNotOpen
PROPERTIES KeepsThePolicy EveryCheckEnds
