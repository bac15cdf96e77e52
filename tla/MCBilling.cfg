CONSTANTS
    t1 = t1
    c1 = c1
    r1 = r1
    r2 = r2
    k1 = k1
    k2 = k2
    Tenants = {t1}
    Requests = {r1, r2}
    TenantOf <- MCTenantOf
    Reserves = {2}
    Charges = {0, 1, 3}
    Amounts = {1, 3}
    Reconcilers = {k1, k2}
    Batch = 2
    MaxI64 = 4
    MaxDeposits = 5
    Clients = {c1}
    IdOf <- MCIdOf
    MaxFailovers = 1
    CaptureRetryMax = 2
SPECIFICATION BillingSpec
INVARIANTS
    LedgerMatchesAuthorization
    BalanceInRange
    CreditsConserved
    SettledIsCharged
PROPERTIES
    ImplementsLedger
    HoldsAreClosed
CHECK_DEADLOCK FALSE
