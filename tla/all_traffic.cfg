SPECIFICATION Spec
CONSTANTS
  Room = {r1}
  Order = {o1}
  Proc = {p1, p2, p3}
  MaxDay = 2
  MaxSeq = 3
  Prices = {1, 2}
  ZoneAhead = 1
  Handlers <- AllHandlers
  Engines = {"mysql", "sqlite"}
  None = None
SYMMETRY Keys
INVARIANTS PaidOnce PaidInv 
PROPERTIES PaidByPaymentOnly
CHECK_DEADLOCK FALSE
