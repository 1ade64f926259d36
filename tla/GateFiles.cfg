SPECIFICATION Spec
CONSTANTS
  machine = machine
  repo = repo
  p = p
  q = q
  t1 = t1
  t2 = t2
  Nobody = Nobody
  Terminal = {t1, t2}
  Machine = machine
  Repo = {repo}
  Pattern = {p, q}
  Ops <- All
  Scopes = {repo}
  MaxRuns = 2
CHECK_DEADLOCK FALSE
INVARIANTS RulesWereSigned SignatureFollowsConf NoEditIsLost
PROPERTY EveryCommandEnds
