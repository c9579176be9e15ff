SPECIFICATION FairSpec
CONSTANTS
  r1 = r1
  r2 = r2
  h1 = h1
  h2 = h2
  h3 = h3
  Free = Free
  None = None
  Rooms = {r1}
  Threads = {h1, h2}
  MaxStarts = 3
INVARIANTS
  RoomsInv
  TwoLoopsMeanWaitingPost
PROPERTIES
  StopTakesEffect
  RoomsComeBack
CHECK_DEADLOCK FALSE
