SPECIFICATION Spec
CONSTANTS
  i1 = i1
  i2 = i2
  i3 = i3
  a1 = a1
  a2 = a2
  a3 = a3
  Ids = {i1, i2}
  Addrs = {a1, a2}
  AddrOf <- OwnAddress
  NameOf <- TwoNames
  ZeroAddr = ZeroAddr
  None = None
  Timeout = 1
  Boot = 1
  MaxTime = 2
  MaxHellos = 2
  MaxEchoes = 1
  MaxErrors = 0
  MayListen = {}
  MayPatch = {}
  SendMayFail = TRUE
INVARIANTS
  Inv
  HearsItselfWhenAsked
PROPERTIES
  RefinesMembership
CHECK_DEADLOCK FALSE
