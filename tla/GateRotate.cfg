SPECIFICATION Safety
CONSTANTS
  machine = machine
  repo = repo
  p = p
  q = q
  t1 = t1
  t2 = t2
  Nobody = Nobody
  Terminal = {t1, t2}
  Machine = machine
  Repo = {}
  Pattern = {p}
  Ops <- Alone
  Scopes = {}
  MaxRuns = 3
CHECK_DEADLOCK FALSE
INVARIANT NoRuleIsLost
