SPECIFICATION WorkspaceSpec
CONSTANTS
  NoFile = NoFile
  Dropped = Dropped
  Conns = {p1, p2}
  Files = {f, g}
  Targeted = {f}
  Sids = {s1}
  Idents = {i}
  SizeCap = 2
  KeyCap = 1
  MaxTime = 1
  MaxRoot = 1
  MaxBegun = 1
  MaxEdits = 1
  FsMenus <- EachFsMenu
  Clients = {p1, p2}
  WatchKeys = {k1}
  BroadcastCap = 1
  ChanCap = 1
  MaxSubs = 2
  MaxVersion = 2
  MaxReinit = 1
  Browsers = {b1}
  Actors = {a1, a2}
  Handlers = {p1, p2}
  IssueKinds = {"video"}
  Roots = {r1, r2}
  TicketIdle = 1
  SessionIdle = 2
  MediaAbsolute = 2
  FileSize = 2
  RangeWishes <- Wishes
  None = None
  MediaQuotas <- FewQuotas
  CfgCalls = {p1, p2, p3}
  CfgRoots = {1, 2}
  CfgTels = {1, 2}
  CfgHosts = {1, 2}
  PutBodies <- SomeBodies
  MaxDrops = 1
INVARIANTS TransfersAreWhole WatchersAreExact MediaIsBound OneConfiguration
PROPERTIES ServedIsGranted
SYMMETRY Interchangeable
CHECK_DEADLOCK FALSE
