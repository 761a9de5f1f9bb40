SPECIFICATION Spec
CONSTANTS
    r = r
    u = u
    b1 = b1
    b2 = b2
    b3 = b3
    k1 = k1
    k2 = k2
    k3 = k3
    NoPool = NoPool
    NoStack = NoStack
    Pools <- MCPools
    Reactors <- MCReactors
    Bases <- MCBases
    Holders <- MCHolders
    Sizes <- MCSizes
    StackCache = 1
    Capacities = {2}
SYMMETRY MCSymmetry
INVARIANTS OwnedOnce CacheIsLean WholeOrGone
