CONSTANTS
    Fds <- MCFds
    Workers <- MCWorkers

SPECIFICATION FairSpec

INVARIANTS
    OneTunnel
    FdOpenWhileUsed
    Released
    

PROPERTIES
    StopReturns
