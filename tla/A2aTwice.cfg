CONSTANTS
  q1 = q1
  q2 = q2
  q3 = q3
  r1 = r1
  r2 = r2
  Nobody = Nobody
  Req = {q1, q2}
  Mixes <- SendSend
  Replica = {r1, r2}
  MaxFaults = 1
SPECIFICATION Spec
SYMMETRY Symmetry
CHECK_DEADLOCK FALSE
INVARIANTS
  CalledOnce
