SPECIFICATION LiveSpec
CONSTANTS
  q1 = q1
  q2 = q2
  q3 = q3
  Queries <- MCQueries
  Listener <- MCListener
  Ports = {p1, p2}
  MaxUdp = 2
INVARIANTS
  SlotsConserved
  CountersExact
  AnswersNotShared
PROPERTIES
  KeepsAdmission
  AdmittedEnds
CHECK_DEADLOCK FALSE
