SPECIFICATION Spec
CONSTANTS
    Sessions = {s1, s2}
    MaxSessionCount = 1
    Kinds = {"tcp", "udp"}
    Names = TRUE
    Conns = 1
    Traffic = 0
    Fails = 0
    Quits = 0
INVARIANTS
    NoAbort
