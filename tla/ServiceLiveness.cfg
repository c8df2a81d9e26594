CONSTANTS
  o1 = o1
  o2 = o2
  o3 = o3
  d1 = d1
  d2 = d2
  r1 = r1
  r2 = r2
  Agent = Agent
  NoOp = NoOp
  NoDep = NoDep
  Op = {o1, o2}
  Mixes <- DeployAndStopOrRollback
  Replica = {r1}
  Watching = {r1}
  Dep = {d1}
  MaxVersion = 1
  MaxFaults = 1
SPECIFICATION LiveSpec
CHECK_DEADLOCK FALSE
PROPERTIES
  RequestsEnd
  StatusConverges
