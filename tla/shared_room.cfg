SPECIFICATION Spec
CONSTANTS
  Room = {r1}
  Order = {o1, o2}
  Proc = {p1}
  MaxDay = 2
  MaxSeq = 3
  Prices = {1}
  ZoneAhead = 1
  Handlers <- CounterTraffic
  Engines = {"mysql", "sqlite"}
  None = None
INVARIANTS GuestRoomNotInMaintenance
CHECK_DEADLOCK FALSE
