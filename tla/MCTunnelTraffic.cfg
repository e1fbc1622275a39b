SPECIFICATION Spec
CONSTANTS
    Sessions = {s1, s2}
    MaxSessionCount = 2
    Kinds = {"tcp", "udp"}
    Names = TRUE
    Conns = 2
    Traffic = 1
    Fails = 1
    Quits = 1
SYMMETRY SessionSymmetry
INVARIANTS
    NoAbort
    JoinProgress
PROPERTIES
    TerminateKept
CHECK_DEADLOCK FALSE
