SPECIFICATION Spec
CONSTANTS
  a = a
  b = b
  c1 = c1
  c2 = c2
  Ids = {a}
  Names = {n}
  Ports = {}
  NoName = NoName
  Clients = {c1, c2, sweeper}
  Sweeper = sweeper
  Main = main
  Sup = sup
  NoOne = NoOne
  Worlds <- SessionWorlds
  Fuel = 5
  MaxInc = 6
  ChannelCap = 1
  RespawnCap = 1
  MaxRetries = 1
INVARIANTS TakenDownStaysDown RestartPromiseBacked StoreMirrorsMemory
PROPERTY StoreSpec
