SPECIFICATION FairSpec
CONSTANTS
    Sessions = {s1, s2}
    MaxSessionCount = 0
    Kinds = {"tcp", "udp"}
    Names = TRUE
    Conns = 1
    Traffic = 0
    Fails = 1
    Quits = 1
PROPERTIES
    QuitReturns
CHECK_DEADLOCK FALSE
