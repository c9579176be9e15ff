SPECIFICATION FairSpec
CONSTANTS
  streamer = streamer
  viewer = viewer
  Clients = {streamer, viewer}
  Nobody = Nobody
  Retries = 1
  MaxStarts = 2
  Plans <- Evenings
INVARIANTS
  StreamsInv
  
  TwoThreadsMeanWaitingCommand
PROPERTIES
  CommandsReturn
CHECK_DEADLOCK FALSE
