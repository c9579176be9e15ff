SPECIFICATION Persistent
CONSTANTS
  Files <- FileNames
  Library <- LibraryName
  InUse <- Executable
  Versions = {1, 2}
  None = None
  Damaged = Damaged
  MaxFailures = 2
  MaxReleases = 2
INVARIANTS
  UpdaterInv
PROPERTIES
  UnnoticedByInterruption
  EventuallyLatest
CHECK_DEADLOCK FALSE
