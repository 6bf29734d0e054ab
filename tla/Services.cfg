SPECIFICATION ServicesSpec
CONSTANTS
  Samples <- FewSamples
  Keys = {1, 2}
  Thermal = {1}
  Configs <- HostConfigs
  FastEntry = 1
  SlowEntry = 2
  Recovery = 2
  OomRecovery = 2
  Cooldown = 2
  ThermalEntry = 2
  MaxStep = 1
  MaxIncident = 2
  MaxReconfig = 1
  Exporters = {x1, x2}
  UsageEvents <- TwoEvents
  Days = {1, 2}
  Settings <- ThreeSettings
  TelQueueCap = 2
  BatchLimit = 2
  MaxSends = 2
  MaxOps = 2
  MaxWriteErrors = 1
  Artifacts = {p1, p2}
  Tasks = {k1, k2, k3}
  MaxFaults = 1
  a1 = a1
  a2 = a2
  Intents = {1, 2, 3}
  Actors = {a1, a2}
  OwnerOf <- TwoEach
  CacheDrops <- ThreeDrops
  Visitors = {v1}
  ChallengeTtl = 2
  ApprovalTtl = 1
  IntentLimit = 2
  QueueCap = 2
  MaxExecutions = 3
  ReauthLimit = 1
  MaxClock = 2
  MaxAuditFaults = 1
  MaxTokens = 1
  FreshIntents = 2
INVARIANTS AlertsAgree   
PROPERTIES EntryIsSustained 
SYMMETRY Interchangeable
CHECK_DEADLOCK FALSE
