SPECIFICATION FairSpec
CONSTANTS
  Clients = {1, 2, 3}
  Address <- PeerAddress
  Workers = {11, 12}
  Nobody = 0
  MaxQueued = 2
  MaxPerAddress = 1
  MaxStarts = 1
CHECK_DEADLOCK FALSE
INVARIANT SlotsAccounted
INVARIANT SocketsOwned
PROPERTY NothingSleeps
