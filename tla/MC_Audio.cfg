SPECIFICATION AudioFairSpec
CONSTANT
  Plans <- Bounds
INVARIANTS
  AudioInv
  FixDropsOld
PROPERTIES
  KeepsSending
CHECK_DEADLOCK FALSE
