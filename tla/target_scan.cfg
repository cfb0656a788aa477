\* Pinning, reparsing and the rate limit under changing DNS answers.
SPECIFICATION Spec
CONSTANTS
  Names <- DnsNames
  Literals <- V6Literals
  Canonical <- NormalForms
  ServiceNames <- Services
  BlockedPorts = {22}
  Addrs <- AllAddrs
  Public <- PublicAddrs
  Answers <- ZoneAnswers
  Below <- SubdomainOf
  Rules <- DeniedTargets
  DeniedClients = {c2}
  Texts <- TypedTexts
  PayloadPorts = {443}
  Clients = {c1, c2}
  Handlers = {h1, h2}
  Jobs = {j1}
  RateLimit = 2
  Window = 1
  MaxClock = 2
  Uuids = {u1, u2, u3}
  MaxCalls = 4
  MaxRegistered = 1
  NoAddr = NoAddr
  NoCall = NoCall
SYMMETRY Symmetry
INVARIANTS
  TypeOK
  ContactsPinned
  ScanFollowsQueuedAnswer
  QueuedTargetReparses
  RateWindowHeld
