SPECIFICATION HookSpec
CONSTANTS
  NoCheck = NoCheck
  Telegram = Telegram
  h1 = h1
  Hook <- MCHook
  Attempts = 3
  Check <- ThreeAttempts
  Desktop = {}
  Class = {"needle", "stray", "plain", "wide"}
  MaxMs = 3
  MaxCrashes = 1
  FlushMayFail = FALSE
  DistinctIds = TRUE
CHECK_DEADLOCK FALSE
INVARIANTS NeedleNeedsApproval  OneAttemptAtATime
PROPERTY HookEnds
