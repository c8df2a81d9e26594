CONSTANTS
  o1 = o1
  o2 = o2
  o3 = o3
  d1 = d1
  d2 = d2
  r1 = r1
  r2 = r2
  Agent = Agent
  NoOp = NoOp
  NoDep = NoDep
  Op = {o1, o2}
  Mixes <- DeployAndAny
  Replica = {r1, r2}
  Watching = {}
  Dep = {d1, d2}
  MaxVersion = 2
  MaxFaults = 1
SPECIFICATION Spec
CHECK_DEADLOCK FALSE
SYMMETRY Symmetry
INVARIANTS
  
  
  RollbackStops
PROPERTIES
  OrphansStayUnrecorded
  LeaseSpec
