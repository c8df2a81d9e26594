CONSTANTS
  a1 = a1
  a2 = a2
  a3 = a3
  u1 = u1
  u2 = u2
  s1 = s1
  s2 = s2
  NoSession = NoSession
  NoUser = NoUser
  Req = {a1, a2, a3}
  User = {u1, u2}
  SessionId = {s1, s2}
  Configs <- SqlMemory
  Asks <- AllAsks
  FirstSession = s1
  FirstUser = u1
  MaxFaults = 0
  Route <- Routes
  Message <- Messages
  MaxClock = 2
  Capacity = 1
  WindowSeconds = 2
  Ttl = 2
  MaxHistory = 2
  MinEvents = 2
  MaxEntries = 1
  Retention = 2
SPECIFICATION Spec
CHECK_DEADLOCK FALSE
INVARIANTS
  RememberedIsKept
