SPECIFICATION FairSpec
CONSTANTS
    f1 = f1
    f2 = f2
    d1 = d1
    d2 = d2
    NoFiber = NoFiber
    NoFd = NoFd
    EvFd = EvFd
    NoCmd = NoCmd
    Fibers <- MCOneFiber
    Fds <- MCOneFd
    Cap = 2
    Posters = 2
    Kinds = {"WAKE", "CANCEL"}
    Delays = {}
    MaxGen = 2
    MaxEvents = 2
    Faults <- MCNoFaults
CHECK_DEADLOCK FALSE
INVARIANTS NoWakeLost OnlyAsked
PROPERTIES WaitsEndForAReason WakesArrive
