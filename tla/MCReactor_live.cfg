SPECIFICATION FairSpec
CONSTANTS
    f1 = f1
    f2 = f2
    d1 = d1
    d2 = d2
    NoFiber = NoFiber
    NoFd = NoFd
    EvFd = EvFd
    NoCmd = NoCmd
    Fibers <- MCTwoFibers
    Fds <- MCOneFd
    Cap = 1
    Posters = 0
    Kinds = {"CANCEL"}
    Delays = {0, 1}
    MaxGen = 2
    MaxEvents = 1
    Faults <- MCNoFaults
CHECK_DEADLOCK FALSE
INVARIANTS RoundHasEnd
PROPERTIES DeadlinesFire ReadyRuns ReadinessIsNoticed
