SPECIFICATION Spec
CONSTANTS
  perm = perm
  approval = approval
  k1 = k1
  k2 = k2
  k3 = k3
  NoCaller = NoCaller
  Torn = Torn
  Slot = {perm}
  Caller = {k1, k2}
  Commands <- Each
  QueueMax = 1
  MaxCalls = 3
  MaxCrashes = 1
CHECK_DEADLOCK FALSE
INVARIANT NoTornFile
PROPERTIES EveryCallEnds ImplementsStore
