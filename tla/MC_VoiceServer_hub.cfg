SPECIFICATION FairSpec
CONSTANTS
  i1 = i1
  i2 = i2
  i3 = i3
  a1 = a1
  a2 = a2
  a3 = a3
  Ids = {i1, i2}
  Addrs = {a1, a2}
  AddrOf <- OwnAddress
  NameOf <- TwoNames
  ZeroAddr = ZeroAddr
  None = None
  Timeout = 2
  Boot = 2
  MaxTime = 3
  MaxHellos = 1
  MaxEchoes = 0
  MaxErrors = 1
  MayListen = {i1}
  MayPatch = {i1}
  SendMayFail = TRUE
INVARIANTS
  Removable
PROPERTIES
  DropsListenerToo
  ActiveStays
  DeletedLeaves
CHECK_DEADLOCK FALSE
