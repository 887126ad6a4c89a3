SPECIFICATION Spec
CONSTANTS
  MaxRequests = 2
  Window = 2
  MaxCount = 5
PROPERTIES RefusedOnlyWhenFull
