SPECIFICATION Spec
CONSTANTS
    c1 = c1
    lfd = lfd
    Conns <- MCOneConn
    Listener <- lfd
    Scripts <- MCScripts
    SmallMax = 1
    MediumMax = 2
    MaxPayload = 3
    TopBit = 8
    MaxRequest = 7
    MaxConns = {0, 1}
CHECK_DEADLOCK FALSE
INVARIANTS EchoesTheStream BuffersHold NothingLeaks
PROPERTIES ConnectionsEnd
