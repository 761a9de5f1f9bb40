SPECIFICATION FairSpec
CONSTANTS
    p1 = p1
    p2 = p2
    wake = wake
    cancel = cancel
    NoCmd = NoCmd
    Producers <- MCProducers
    Cmds <- MCCmds
    Cap = 2
    PostRetries = 2
    MaxPosts = 3
CHECK_DEADLOCK FALSE
INVARIANTS InClaimOrder NoLostCommand
PROPERTIES FullMeansFull ImplementsCmdQueue AcceptedIsApplied PostReturns
