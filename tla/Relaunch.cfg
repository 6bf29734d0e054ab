SPECIFICATION Spec
CONSTANTS
  a = a
  b = b
  c1 = c1
  c2 = c2
  Ids = {a}
  Names = {n}
  Ports = {}
  NoName = NoName
  Clients = {c1, c2, sweeper}
  Sweeper = sweeper
  Main = main
  Sup = sup
  NoOne = NoOne
  Worlds <- RelaunchWorlds
  Fuel = 5
  MaxInc = 4
  ChannelCap = 1
  RespawnCap = 1
  MaxRetries = 1
PROPERTY RestoredAfterShutdown
