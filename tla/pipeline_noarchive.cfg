\* A scan scheduled by the maintenance command finishes.
SPECIFICATION Spec
CONSTANTS
  Targets = {t1}
  ApiJobs = {}
  MonitorJobs = {m1}
  ApiClients = {}
  Schedulers = {s1}
  Unarchived = {s1}
  Workers = {w1}
  NoJob = NoJob
  NoTarget = NoTarget
  MaxQueueDepth = 0
  CooldownOn = TRUE
  TtlMayLapse = FALSE
  MaxFaults = 0
INVARIANTS
  FinishedScanIsArchived
CHECK_DEADLOCK FALSE
