CONSTANTS
  a1 = a1
  a2 = a2
  a3 = a3
  n1 = n1
  n2 = n2
  t1 = t1
  t2 = t2
  m1 = m1
  w1 = w1
  p1 = p1
  p2 = p2
  v1 = v1
  v2 = v2
  c1 = c1
  c2 = c2
  c3 = c3
  k1 = k1
  k2 = k2
  AgentId = {a1, a2, a3}
  Name = {n1, n2}
  NoName = NoName
  Tenant = {t1, t2}
  Version = {v1, v2}
  FirstVersion = v1
  Resource = {m1, w1}
  Kinds <- TwoKinds
  Process = {p1, p2}
  Call = {c1, c2}
  Backends = {"memory", "postgres", "sqlite"}
  Mix <- Pairs
  Seeds <- AgentSeeds
  Stores <- AllOrNothing
  Caller = {c1, c2, c3}
  NoCaller = NoCaller
  Orders <- LocalOrders
  MaxDeployments = 3
  ExtId = {a1, a2}
  ExtName = {n1}
  ExtCall = {c1, c2, c3}
  Asks2Ext <- ExternalAsks
  MaxCard = 2
  Task = {c1, c2, c3}
  NoTask = NoTask
  Uses <- McpUses
  MaxRetries = 1
  Cursor = {k1}
  MaxItems = 1
  MaxKeepers = 8
  Kid = {k1, k2}
  Login = {c1, c2, c3}
  NoLogin = NoLogin
  Tokens <- Logins
  Settings <- AuthConfigs
  CacheTime = 1
  MaxDelay = 1
  MaxAuthClock = 3
  Turn = {c1, c2, c3}
  FirstTurn = c1
  MaxIterations = 2
  MaxChat = 4
  Tracer = {c1, c2, c3}
  NoTracer = NoTracer
  ParentOf <- TracerParents
  CapabilityOf <- TracerCapabilities
  MaxLines = 2
  Retention = 1
  MaxOutcomes = 2
  MaxDay = 2
SPECIFICATION MCSpec
CHECK_DEADLOCK FALSE
INVARIANTS
  PlatformTypeOK
  BundlesAreSnapshots
  
  RegistrationsAreSound
  TransportsAreOwned
  
  TelemetryIsKept
PROPERTIES
  VersionsAreImmutable
  LockedArchivedIsFinal
  DefinitionsChangeByPatch
  TenantsAreSeparate
  WithdrawnKeysExpire
  PublishedKeysAreFound
  
