SPECIFICATION Safety
CONSTANTS
  perm = perm
  approval = approval
  k1 = k1
  k2 = k2
  k3 = k3
  NoCaller = NoCaller
  Torn = Torn
  Slot = {perm, approval}
  Caller = {k1, k2, k3}
  Commands <- Deciders
  QueueMax = 2
  MaxCalls = 3
  MaxCrashes = 1
CHECK_DEADLOCK FALSE
INVARIANT OneWinner
