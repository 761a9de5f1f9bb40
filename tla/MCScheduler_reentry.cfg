SPECIFICATION Spec
CONSTANTS
    A = A
    B = B
    R = R
    Q = Q
    t1 = t1
    t2 = t2
    t3 = t3
    None = None
    NoTask = NoTask
    Scheds <- MCTwoScheds
    Reactors <- MCNoReactors
    Tasks <- MCThreeTasks
    MaxDepth = 3
    Reentry = TRUE
CHECK_DEADLOCK FALSE
INVARIANTS NeverTrapped
