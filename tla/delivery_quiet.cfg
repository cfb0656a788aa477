\* A Pro subscription and scans of an administrator.
SPECIFICATION Spec
CONSTANTS
  NoReport = NoReport
  NoSub = NoSub
  pro = pro
  Subs = {pro}
  Pro = {pro}
  Owned = {pro}
  Workers = {w1}
  Reports <- ThreeReports
  ReportCooldown = 1
  BatchCooldown = 1
  DayCooldown = 2
  Retention = 2
  ScanRetention = 2
  ErrorRetention = 2
  MaxJobs = 3
  MaxTime = 1
  MaxFaults = 0
INVARIANTS
  QuietWeekWasQuiet
CHECK_DEADLOCK FALSE
