SPECIFICATION FairSpec
CONSTANTS
    A = A
    B = B
    R = R
    Q = Q
    t1 = t1
    t2 = t2
    t3 = t3
    None = None
    NoTask = NoTask
    Scheds <- MCTwoScheds
    Reactors <- MCTwoReactors
    Tasks <- MCTwoTasks
    MaxDepth = 3
    Reentry = FALSE
INVARIANTS EveryTaskOnce InnermostIsCurrent HostsStayAlive
PROPERTIES ReadyRuns
