SPECIFICATION FairSpec
CONSTANTS
  self = self
  other = other
  Instances = {self, other}
  home = home
  Connections = {home}
  NoConnection = NoConnection
  quiet = quiet
  full = full
  Volumes = {quiet, full}
  FullVolume = full
  NoFile = NoFile
  Empty = Empty
  Torn = Torn
  mute = mute
  fix = fix
  Keys = {mute, fix}
  NoKey = NoKey
  Plans <- Evenings

  
PROPERTIES
  StartsFromLatest
  UnwindEnds
CHECK_DEADLOCK FALSE
