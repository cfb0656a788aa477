\* Three targets, one of them dead, three subscriptions, one of them refused,
\* batches of two, one upset.
SPECIFICATION Spec
CONSTANTS
  shared = shared
  other = other
  dead = dead
  s1 = s1
  s2 = s2
  refused = refused
  Targets = {shared, other, dead}
  Monitored = {other, dead}
  Dead = {dead}
  Subs = {s1, s2, refused}
  TargetOf <- TargetOfThree
  Undeliverable = {refused}
  Batch = 2
  MaxUpsets = 1
INVARIANT TypeOK
PROPERTIES
  NobodyOvertakes
  DueDomainsScanned
  DueReportsCome
CHECK_DEADLOCK FALSE
