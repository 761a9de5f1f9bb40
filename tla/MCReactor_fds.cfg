SPECIFICATION Spec
CONSTANTS
    f1 = f1
    f2 = f2
    d1 = d1
    d2 = d2
    NoFiber = NoFiber
    NoFd = NoFd
    EvFd = EvFd
    NoCmd = NoCmd
    Fibers <- MCTwoFibers
    Fds <- MCTwoFds
    Cap = 1
    Posters = 0
    Kinds = {"CANCEL"}
    Delays = {0}
    MaxGen = 2
    MaxEvents = 2
    Faults <- MCAllFaults
SYMMETRY MCSymmetry
CHECK_DEADLOCK FALSE
INVARIANTS RegistrationsAgree Accounting
PROPERTIES WaitsEndForAReason
