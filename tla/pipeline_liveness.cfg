\* No faults: three requests for three targets, two handlers, a list limited to one.
SPECIFICATION Spec
CONSTANTS
  Targets = {t1, t2, t3}
  ApiJobs = {a1, a2, a3}
  MonitorJobs = {}
  ApiClients = {c1, c2}
  Schedulers = {}
  Unarchived = {}
  Workers = {w1}
  NoJob = NoJob
  NoTarget = NoTarget
  MaxQueueDepth = 1
  CooldownOn = FALSE
  TtlMayLapse = FALSE
  MaxFaults = 0
INVARIANTS
  QueueOvershootBounded
PROPERTIES
  QueuedScanEnds
CHECK_DEADLOCK FALSE
