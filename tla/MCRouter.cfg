CONSTANTS
    a1 = a1
    a2 = a2
    p1 = p1
    p2 = p2
    k1 = k1
    k2 = k2
    RouterAccounts = {a1, a2}
    Keys = {k1, k2}
    Pickers = {p1, p2}
    Workloads <- MCWorkloads
    MaxSticky = 1
    Initial <- MCInitial
    Cycle = 2
    MaxChanges = 1
    NoSticky = NoSticky
    NoChoice = NoChoice
SPECIFICATION RouterSafetySpec
INVARIANTS
    PickIsCurrent
    RoutedPickFindsAccount
CHECK_DEADLOCK FALSE
