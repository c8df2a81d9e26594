CONSTANTS
  o1 = o1
  o2 = o2
  k1 = k1
  NoOp = NoOp
  Op = {o1, o2}
  Resource <- Keys
  KeyOf <- OneKey
  LeaseSeconds = 2
  Backend = "postgres"
  MaxClock = 4
SPECIFICATION Spec
SYMMETRY OpSymmetry
CHECK_DEADLOCK FALSE
INVARIANTS
  LeaseExclusive
PROPERTIES
  SuccessMeansOwned
  FencingSpec
  LeaseSpec
