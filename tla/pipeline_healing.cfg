\* Faults and restarts, and the maintenance command, which schedules without an archive.
SPECIFICATION Spec
CONSTANTS
  Targets = {t1}
  ApiJobs = {a1}
  MonitorJobs = {m1, m2}
  ApiClients = {c1}
  Schedulers = {s1, s2}
  Unarchived = {s1}
  Workers = {w1}
  NoJob = NoJob
  NoTarget = NoTarget
  MaxQueueDepth = 1
  CooldownOn = TRUE
  TtlMayLapse = FALSE
  MaxFaults = 1
PROPERTIES
  LocksAreFreed
CHECK_DEADLOCK FALSE
