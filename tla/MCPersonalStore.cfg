SPECIFICATION SafetySpec
CONSTANTS
    c1 = c1
    c2 = c2
    Callers <- MCCallers
    Kinds <- MCKinds
    MaxCalls = 2
    MaxFaults = 1
SYMMETRY Symmetry
INVARIANTS
    AckedIsDurable
PROPERTIES
    RowKeepsChanges
CHECK_DEADLOCK FALSE
