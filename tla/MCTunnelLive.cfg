SPECIFICATION FairSpec
CONSTANTS
    Sessions = {s1}
    MaxSessionCount = 2
    Kinds = {"tcp", "udp"}
    Names = TRUE
    Conns = 2
    Traffic = 2
    Fails = 0
    Quits = 2
PROPERTIES
    QuitReturns
    StopPrompt
