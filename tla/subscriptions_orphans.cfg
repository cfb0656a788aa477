\* One address, one host and an administrator: the domain's row, with a failure half-way.
SPECIFICATION Spec
CONSTANTS
  e1 = e1
  e2 = e2
  t1 = t1
  Emails = {e1}
  Targets = {t1}
  Owners = {}
  Handlers = {h1}
  Scheduler = scheduler
  NoKey = NoKey
  FreeLimit = 1
  ProLimit = 1
  Operations = {"subscribe", "confirm", "unsubscribe", "run", "tick", "admin"}
  MaxLinks = 2
  MaxChallenges = 0
  MaxJobs = 0
  MaxFaults = 1
PROPERTY OrphansAreDisabled
CHECK_DEADLOCK FALSE
