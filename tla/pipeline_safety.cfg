\* One target: an API handler and the scheduler compete for it.
SPECIFICATION Spec
CONSTANTS
  Targets = {t1}
  ApiJobs = {a1, a2}
  MonitorJobs = {m1}
  ApiClients = {c1}
  Schedulers = {s1}
  Unarchived = {}
  Workers = {w1, w2}
  NoJob = NoJob
  NoTarget = NoTarget
  MaxQueueDepth = 1
  CooldownOn = FALSE
  TtlMayLapse = TRUE
  MaxFaults = 1
SYMMETRY Symmetry
INVARIANTS
  TypeOK
  LockHeldInFlight
  OneScanPerTarget
  DeliveredOnce
  NoLeakedLock
  StoreLeadsArchive
  QueuedJobIsRecorded
PROPERTIES
  TerminalIsFinal
  ImplementsAdmission
CHECK_DEADLOCK FALSE
