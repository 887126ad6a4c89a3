SPECIFICATION Spec
CONSTANTS
  Room = {r1}
  Order = {o1, o2}
  Proc = {p1, p2}
  MaxDay = 1
  MaxSeq = 3
  Prices = {1}
  ZoneAhead = 1
  Handlers <- CheckInTraffic
  Engines = {"mysql", "sqlite"}
  None = None
INVARIANTS NoDoubleBooking
CHECK_DEADLOCK FALSE
