SPECIFICATION FairSpec
CONSTANTS
  a = a
  b = b
  c1 = c1
  c2 = c2
  Ids = {a}
  Names = {n}
  Ports = {}
  NoName = NoName
  Clients = {c1, c2, sweeper}
  Sweeper = sweeper
  Main = main
  Sup = sup
  NoOne = NoOne
  Worlds <- ProgressWorlds
  Fuel = 5
  MaxInc = 5
  ChannelCap = 1
  RespawnCap = 1
  MaxRetries = 1
PROPERTIES CallsReturn EndsAreFollowedUp ShutdownEnds
