SPECIFICATION Spec
CONSTANTS
    Sessions = {s1, s2, s3}
    MaxSessionCount = 2
    Kinds = {"tcp", "udp"}
    Names = FALSE
    Conns = 3
    Traffic = 0
    Fails = 0
    Quits = 1
SYMMETRY SessionSymmetry
INVARIANTS
    ListConsistent
    TimerAwake
