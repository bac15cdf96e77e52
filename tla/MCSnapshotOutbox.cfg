CONSTANTS
    a1 = a1
    a2 = a2
    w1 = w1
    w2 = w2
    Items = {a1, a2}
    Writers = {w1, w2}
    Limit = 1
    MaxEvents = 3
    Budgets <- MCBudgets
SPECIFICATION Spec
INVARIANTS
    BehindIsPending
PROPERTIES
    Converges
