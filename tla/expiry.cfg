SPECIFICATION FairSpec
CONSTANTS
  Room = {r1, r2}
  Order = {o1, o2, o3}
  Proc = {p1, p2}
  MaxDay = 1
  MaxSeq = 2
  Prices = {1}
  ZoneAhead = 1
  Handlers <- ExpiryTraffic
  Engines = {"mysql", "sqlite"}
  None = None
INVARIANTS NumbersDense
PROPERTIES PendingEnds
CHECK_DEADLOCK FALSE
