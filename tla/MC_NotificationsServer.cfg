SPECIFICATION FairSpec
CONSTANTS
  i1 = i1
  i2 = i2
  i3 = i3
  c1 = c1
  c2 = c2
  c3 = c3
  Garbage = Garbage
  Free = Free
  Ids = {i1, i2, i3}
  Conns = {c1, c2, c3}
  IdOf <- OneEach
  Plans <- Rooms
  SocketBuffer = 128
INVARIANTS
  HubInv
  PacketsUnderstood
PROPERTIES
  WorkerAlone
  RefinesHub
  CallsReturn
CHECK_DEADLOCK FALSE
