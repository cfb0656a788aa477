\* A Pro subscription and other scans of its domain, two workers, one fault.
SPECIFICATION Spec
CONSTANTS
  NoReport = NoReport
  NoSub = NoSub
  pro = pro
  Subs = {pro}
  Pro = {pro}
  Owned = {pro}
  Workers = {w1, w2}
  Reports <- TwoReports
  ReportCooldown = 1
  BatchCooldown = 1
  DayCooldown = 2
  Retention = 2
  ScanRetention = 2
  ErrorRetention = 2
  MaxJobs = 2
  MaxTime = 3
  MaxFaults = 1
SYMMETRY WorkerSymmetry
INVARIANTS
  TypeOK
  AddedFindingsAnnounced
  ReportsSpaced
  SilencedOnlyAfterMail
  DigestNeverRepeats
  CriticalAnsweredByMail
CHECK_DEADLOCK FALSE
