SPECIFICATION Spec
CONSTANTS
    e1 = e1  e2 = e2
    Interfaces = {e1, e2}
    Offloads = {"gro"}
    Original <- MCOriginal
    NoState = NoState
    Setups <- AllSetups
    MaxLives = 3
    MaxFaults = 1
INVARIANTS Serving RolledBack CleanStart RestoredOnExit
PROPERTIES NoGap
CHECK_DEADLOCK FALSE
