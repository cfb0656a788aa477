\* Two addresses and one host: requests, challenges, jobs and mails of both meet.
SPECIFICATION Spec
CONSTANTS
  e1 = e1
  e2 = e2
  t1 = t1
  Emails = {e1, e2}
  Targets = {t1}
  Owners <- OwnersOne
  Handlers = {h1}
  Scheduler = scheduler
  NoKey = NoKey
  FreeLimit = 1
  ProLimit = 1
  Operations = {"subscribe", "confirm", "verify", "unsubscribe", "run"}
  MaxLinks = 2
  MaxChallenges = 2
  MaxJobs = 1
  MaxFaults = 0
INVARIANTS
  TypeOK
  OnlyAfterConsent
  SupportReportsOnlyToOwners
  OnlyOwnersVerified
  ConfirmedByItsOwnLink
CHECK_DEADLOCK FALSE
