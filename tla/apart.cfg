SPECIFICATION StaffApartSpec
CONSTANTS
  Room = {r1}
  Order = {o1, o2}
  Proc = {p1, p2}
  MaxDay = 3
  MaxSeq = 3
  Prices = {1}
  ZoneAhead = 1
  Handlers <- ApartTraffic
  Engines = {"mysql", "sqlite"}
  None = None
SYMMETRY Keys
INVARIANTS NoDoubleBooking OccupiedHasGuest OccupancyWithinRooms
PROPERTIES LegalStatusMoves LedgerSpec
CHECK_DEADLOCK FALSE
