SPECIFICATION Spec
CONSTANTS
    f1 = f1
    f2 = f2
    f3 = f3
    f4 = f4
    f5 = f5
    f6 = f6
    NoFiber = NoFiber
    Fibers <- MCSixFibers
    InitCap = 1
    Growth = 2
    MaxTime = 2
SYMMETRY MCSymmetry
INVARIANTS WithinCapacity PlacesKnown RootIsEarliest
PROPERTIES ImplementsTimerSet
