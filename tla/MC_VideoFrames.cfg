SPECIFICATION Spec
CONSTANTS
  DataSize = 2
  Sizes <- FrameSizes
  Signatures = {0, 1, 2, 3}
  Zero = Zero
  None = None
  MaxFrames = 3
INVARIANTS
  FramesInv
  ChunksTile
  DecodedIsPicture
  WritesInBounds
CHECK_DEADLOCK FALSE
