CONSTANTS
  Focused = {"prices", "billing", "login", "vault", "limits", "routing", "probe", "errors", "tenants", "migration"}
  PricedModels = {"m1", "m2"}
  KeyGroups = {"g1", "g2"}
  RuleIds = {"r1", "r2"}
  SessionKeys = {"s"}
  BillingIds = {"b1", "b2"}
  BillingInputs <- InputPair
  TokenCounts <- TokenPair
  CatalogChoices <- CatalogPair
  PriceEdits <- OnePrice
  MultiplierEdits <- OneMultiplier
  RuleChoices <- RulePair
  DefaultPrice <- PriceOfUnknown
  FallbackEnabled = TRUE
  PpmOne = 2
  TokenScale = 2
  MaxPriceEdits = 3
  LoginSessions = {"s1"}
  Flows = {"f1", "f2"}
  CallbackServers = {"none", "main"}
  MaxListeners = 2
  Callbacks = {"code", "access_denied", "other_state"}
  v1 = v1
  v2 = v2
  Tokens = {v1, v2}
  Identity <- OnePerson
  Workspace <- TwoSpaces
  VaultWorlds <- VaultTrio
  VaultCallers = {"c"}
  Activator = "loop"
  NoIdentity = "nobody"
  RuntimeCap = 1
  ActiveTarget = 2
  ActivateBatch = 2
  RetryLimit = 2
  ProbeErrors <- Transient
  MaxAccounts = 2
  Accounts = {1, 2, 3}
  Bearer = {3}
  Fallback = {}
  Spoilt = {}
  Instances = {"i1", "i2"}
  Jobs <- TwoJobs
  BatchSize = 2
  Concurrency = 1
  LimitWorlds <- FiveLimitWorlds
  RtAccounts = {1, 2}
  RtProfiles = {1, 2}
  RtPolicies = {1, 2}
  RtModels = {"gpt-5.4", "o3"}
  PrefixesOf <- ModelPrefixes
  Traits <- TwoTraits
  RtWorlds <- TwoRtWorlds
  RtWriters = {"w"}
  MaxEdits = 3
  ProbeAccounts <- TwoProbed
  WorkspaceOf <- NoWorkspaces
  PrModels = {"m", "x"}
  Catalog = {"m"}
  Lists = {{}, {"m"}}
  Cycles = {"c1"}
  MaxCycles = 2
  MaxMarks = 1
  ErrRequests = {"r1", "r2"}
  Admins = {"a"}
  UpstreamErrors <- ThreeErrors
  RawLocales = {"ja_JP"}
  MaxNewPerMinute = 1
  ReviewThreshold = 2
  MaxTemplateEdits = 2
  NoOne = NoOne
  Handlers = {"h1", "h2"}
  Mails = {"m", "admin"}
  AdminMail = "admin"
  Secrets = {"s"}
  DefaultSecret = "d"
  TenantWorlds <- CallGroups
  MaxTenantCalls = 3
  MaxFailures = 2
  NoUser = NoUser
  NoPackage = NoPackage
  MigrationTenants = {"t1", "t2"}
  MigrationKeys = {"k1", "k2"}
  MaxSourceEdits = 1
  MaxCommands = 3
  MigrationWorlds <- EditionPairs
SPECIFICATION ControlSpec
INVARIANTS
  
  
  JobVisitsEachOnce
  
  AvailableHasEvidence
  
  CodeIsSpentOnce
  
PROPERTIES
  NoPendingSessionIsDropped
CHECK_DEADLOCK FALSE
