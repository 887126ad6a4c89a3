SPECIFICATION Spec
CONSTANTS
  Room = {r1}
  Order = {o1, o2}
  Proc = {p1, p2}
  MaxDay = 2
  MaxSeq = 2
  Prices = {1}
  ZoneAhead = 1
  Handlers <- GuestHandlers
  Engines = {"mysql", "sqlite"}
  None = None
SYMMETRY Keys
INVARIANTS TypeOK NoDoubleBooking GuestInv CalendarMatchesOffers
PROPERTIES LegalStatusMoves LedgerSpec
CHECK_DEADLOCK FALSE
