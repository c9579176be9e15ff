SPECIFICATION FairSpec
CONSTANTS
  hall = hall
  den = den
  Rooms = {hall}
  NoRoom = NoRoom
  Retries = 2
  MaxConnects = 1
  MaxTimeouts = 1
  MaxPresses = 1
  MaxNotices = 1
  MaxAsks = 1
PROPERTIES
  FirstConnectSafe
  ConnectReturns
CHECK_DEADLOCK FALSE
