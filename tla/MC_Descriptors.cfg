SPECIFICATION DescriptorsSpec
CONSTANTS
  home = home
  office = office
  listener = listener
  hall = hall
  Addresses = {home, office}
  Strangers = {listener, hall}
  Nobody = Nobody
  LastNumber = 4
  Reserved = 2
  MaxMembers = 3
  MaxHellos = 5
SYMMETRY Swaps
INVARIANTS
  DescriptorsInv
  EarlyKeep
CHECK_DEADLOCK FALSE
