SPECIFICATION FairSpec
CONSTANTS
  Proc = {p1, p2}
  Phone = {ph}
  StaffNames = {ph, "admin"}
  Number = {1, 2}
  MaxUsers = 6
  MaxHotels = 3
  MaxTypes = 3
  MaxRooms = 3
  MaxStarts = 2
  MaxTokens = 2
  MaxTally = 3
  CodeLife = 2
  TokenLife = 2
  MaxDrift = 1
  Targets = {1, 2, 5}
  Deployments <- MCDeployments
  None = None
  Gone = Gone
INVARIANTS TypeOK UniqueNames UniqueNumbers RoomTypeOfItsHotel CooldownHeld CodeUseBounded
PROPERTIES RefusedForGood AdminKept BootRepairs DisabledLockedOut
CHECK_DEADLOCK FALSE
