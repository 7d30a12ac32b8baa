SPECIFICATION LiveSpec
CONSTANTS
  Conns = {c1, c2}
  MaxTcp = 1
  MaxQueries = 2
  Room = 1
INVARIANTS
  AnswersInOrder
  UpstreamUse
PROPERTIES
  KeepsAdmission
  QueryEnds
  GoneClientEnds
CHECK_DEADLOCK FALSE
