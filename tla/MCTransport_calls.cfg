SPECIFICATION Spec
CONSTANTS
    Sizes = {0, 1, 3}
    Timeouts <- MCTimeouts
    Sleeps <- MCSleeps
    UintMax = 63
    IntMax = 31
    Int32Max = 4
    Ms = 3
    MaxNow = 6
    MaxSteals = 2
CHECK_DEADLOCK FALSE
INVARIANTS NeverEarly ResultIsTrue SleepsJustLongEnough
PROPERTIES TimedCallsReturn
