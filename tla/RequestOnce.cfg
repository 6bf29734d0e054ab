SPECIFICATION TerminalsSpec
CONSTANTS
  Parts = {"workflow"}
  Viewers = {v1}
  ChunkMenu <- FewChunks
  ScrollCap = 2
  BusCap = 3
  WireCap = 1
  MaxChunks = 3
  MaxAttach = 2
  MaxSockets = 2
  Ports = {1, 2, 3}
  Incs = {1, 2}
  IdOf <- OneId
  Tuns = {1, 2}
  MaxTracked = 2
  Quotas <- FewStories
  Menus <- EachWorkflow
  Callers = {q1, q2}
  ItemIds = {"i1", "i2", "i3"}
  WorkIds = {"w1"}
  NoteIds = {"n1"}
  ObsIds = {101}
  MaxNow = 2
  PageLimit = 1
  MaxOverview = 2
  Works = {w1}
  MaxInc = 3
  ObsCap = 1
  MaxCrashes = 1
  GitReqs = {q1, q2}
  GitDepth = 3
  MaxMeddling = 1
INVARIANT RequestOnce
CHECK_DEADLOCK FALSE
