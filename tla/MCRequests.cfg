CONSTANTS
    a1 = a1
    a2 = a2
    ProxyRequests = {"r"}
    Accounts = {a1, a2}
    Bindings = {NoAccount, a1}
    Errors <- MCErrors
    Failover = TRUE
    SharedCache = TRUE
    QuickRetryMax = 1
    NoAccount = NoAccount
    ProxyIds = {"p1", "p2"}
    Weights = {1, 2}
    Selectors = {"d1"}
    MaxPoolEdits = 1
    HealthAccounts = {"a", "b"}
    ReportTasks = {"t1", "t2"}
    RingPickers = {"p"}
    RingMax = 2
    FetchLimit = 2
    CandidateCount = 1
    SeenOkInterval = 1
    MaxHealthTime = 2
    MaxServed = 2
    Nothing = Nothing
    All = All
    Asked <- TheRequests
    Settings <- TheSettings
    WsAccounts = {"a1", "a2"}
    WsRequests = {"r1", "r2"}
    ResponseIds = {"x1", "x2"}
    HandshakeRetryMax = 1
    MaxHolds = 2
SPECIFICATION ServingSpec
INVARIANTS
    NoHoldIsForgotten
    FailoverIsExhaustive
    PicksFollowWeights
    
    RecentUsesKept
    HoldsAreSettled
CHECK_DEADLOCK FALSE
