SPECIFICATION Spec
CONSTANTS
  hall = hall
  den = den
  Rooms = {hall, den}
  NoRoom = NoRoom
  Retries = 1
  MaxConnects = 2
  MaxTimeouts = 1
  MaxPresses = 1
  MaxNotices = 0
  MaxAsks = 1
SYMMETRY SwapRooms
INVARIANTS
  ClientInv
  OwnAnswer
  CloseRemovesSession
CHECK_DEADLOCK FALSE
