\* One address and four hosts: two API threads race for the plan limit.
SPECIFICATION Spec
CONSTANTS
  e1 = e1
  e2 = e2
  t1 = t1
  Emails = {e1}
  Targets = {t1, t2, t3, t4}
  Owners = {}
  Handlers = {h1, h2}
  Scheduler = scheduler
  NoKey = NoKey
  FreeLimit = 1
  ProLimit = 2
  Operations = {"subscribe", "unsubscribe"}
  MaxLinks = 4
  MaxChallenges = 0
  MaxJobs = 0
  MaxFaults = 0
SYMMETRY TargetSymmetry
INVARIANTS
  PlanLimitOvershoot
CHECK_DEADLOCK FALSE
