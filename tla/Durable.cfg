SPECIFICATION DurableSpec
CONSTANTS
  Ids = {a}
  Names = {n}
  Ports = {p}
  NoName = NoName
  Incs = {1, 2, 3}
  Totals = {0, 1}
  StoreMenus <- EachStory
  Endpoints = {"h1"}
  MaxTxn = 5
  MaxStoreFault = 1
  MaxStoreCrash = 2
  RetentionDays = 1
  LastDay = 1
  Candidates <- TwoReleases
  Starts = {"fresh", "installed", "legacy"}
  RelCommands = {"stage", "start", "rollback", "recover"}
  MaxStages = 2
  MaxRelFault = 2
  MaxRelCrash = 2
  Catalogues <- OneOfEach
  Slots = {s1}
  MaxRequests = 3
  MaxContent = 2
  MaxFaults = 1
INVARIANTS NoResurrection  StoreSurvives  AgentContentKept
PROPERTIES StoreMovesForward StoreNeverGoesBack
CHECK_DEADLOCK FALSE
