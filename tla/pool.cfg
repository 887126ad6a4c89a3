SPECIFICATION FairSpec
CONSTANTS
  Request = {n1, n2, g1, g2}
  Nester = {n1, n2}
  Row = {x1, x2}
  MaxQueries = 2
  Sizes = {1, 2, 3}
  None = None
INVARIANTS TypeOK StuckOnlyByNesting
PROPERTIES EveryRequestEnds
CHECK_DEADLOCK FALSE
