SPECIFICATION RunnerSpec
CONSTANTS
  c1 = c1
  c2 = c2
  c3 = c3
  Order <- Pair
  AutoRotate = {c1, c2}
  Gated = {c2}
  SelfRefresh = FALSE
  NoCtx = NoCtx
  Request = {1, 2}
  MaxAttempts = 2
  Cooldown <- Costs
  MaxTime = 1
  Limits <- TwoMessages
CHECK_DEADLOCK FALSE
INVARIANT UnapprovedNeverEntered
