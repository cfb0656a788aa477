\* One scan of each kind of server, with up to three failed probes.
SPECIFICATION Spec
CONSTANTS
  Endpoints <- AllEndpoints
  Offerable = {"null", "cbc", "rc4", "3des"}
  MaxFaults = 3
INVARIANTS
  TypeOK
  LegacyCountsOnce
  Lucky13NoteNeedsModernTls
  APlusIsDeserved
  BrowserVerdictAgrees
PROPERTIES
  DeepScanNeverImproves
\* A scan ends.
CHECK_DEADLOCK FALSE
