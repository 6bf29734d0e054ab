SPECIFICATION NativeSpec
CONSTANTS
  c1 = c1
  c2 = c2
  Rules = {"r1", "r2"}
  Reconnecting = {"r1", "r2"}
  MaxEnabled = 2
  Callers = {c1, c2}
  SshMenu <- OneConnects
  PoolSize = 5
  MaxAttempts = 1
  MaxGen = 9
  SshFuel = 3
  RuleIds = {r1, r2}
  MaxEdits = 2
  RuleLimit = 1
  MaxConnects = 1
  MaxFails = 1
  MaxIoFaults = 1
  Idents = {"i1", "i2"}
  Secrets = {"s1", "s2"}
  HostKeys = {"k1", "k2"}
  RememberFor = 1
  ChallengeTtl = 1
  MaxNow = 1
  MaxStaged = 1
  MaxAttempt = 3
  MaxVaultFault = 1
  Pages = {"a1", "b1", "z1"}
  OriginOf <- Origins
  Approved = {"a", "b"}
  Nothing = Nothing
  RequestCap = 2
  MaxChildren = 2
  MaxNavigations = 2
  MaxCommands = 1
  MaxScripts = 1
INVARIANTS ForwardsAreServed RulesInStep SecretsConfined BridgeIsConfined
PROPERTIES DisconnectIsFinal EditsReplaceWhatTheySaw
CHECK_DEADLOCK FALSE
