SPECIFICATION Spec
CONSTANTS
  MaxRequests = 2
  Window = 3
  MaxCount = 5
INVARIANTS WindowBounded
