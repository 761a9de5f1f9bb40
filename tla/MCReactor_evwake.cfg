SPECIFICATION Spec
CONSTANTS
    f1 = f1
    f2 = f2
    d1 = d1
    d2 = d2
    NoFiber = NoFiber
    NoFd = NoFd
    EvFd = EvFd
    NoCmd = NoCmd
    Fibers <- MCTwoFibers
    Fds <- MCNoFds
    Cap = 2
    Posters = 0
    Kinds = {"WAKE"}
    Delays = {}
    MaxGen = 1
    MaxEvents = 1
    Faults <- MCNoFaults
CHECK_DEADLOCK FALSE
PROPERTIES EvCommandNeedsParked
