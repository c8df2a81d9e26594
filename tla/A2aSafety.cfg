CONSTANTS
  q1 = q1
  q2 = q2
  q3 = q3
  r1 = r1
  r2 = r2
  Nobody = Nobody
  Req = {q1, q2, q3}
  Mixes <- SendsCancelStream
  Replica = {r1, r2}
  MaxFaults = 1
SPECIFICATION Spec
SYMMETRY Symmetry
CHECK_DEADLOCK FALSE
INVARIANTS
  TypeOK
  AnswersAgree
  OutcomeIsDurable
  StreamsAreComplete
PROPERTIES
  TerminalIsFinal
  FencingSpec
  LeaseSpec
