CONSTANTS
    r1 = r1
    r2 = r2
    u1 = u1
    a1 = a1
    a2 = a2
    o1 = o1
    c1 = c1
    Focused = {"import", "pool"}
    Items = {1, 2}
    Broken = {}
    Runners = {r1, r2}
    Operators = {u1}
    Batch = 1
    Budgets <- MCBudgets
    OAuth = {a1, a2}
    OneTime = {o1}
    Family <- MCFamily
    Callers = {c1}
    Loop = Loop
    NoAccount = NoAccount
    Threshold = 2
    RefreshBatch = 1
    PurgeBatch = 2
    Watched = {a1}
    Stocks <- MCStocks
SPECIFICATION AccountsSpec
INVARIANTS
    UndisturbedMeansDone
    StoredTokenIsLive
PROPERTIES
    JobsEnd
    ExpiringIsTried
CHECK_DEADLOCK FALSE
