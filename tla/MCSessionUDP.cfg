CONSTANTS
    Configs <- MCConfigs
    Pool = 1
    Num = 2
    SndCap = 2
    RcvCap = 2
    Frame = 2
    Head5 = 2
    Body = 2

SPECIFICATION FairSpec

INVARIANTS
    Aligned
    Agreement
    NoMutualWait
    UpInOrder
    DownInOrder
    NoLostWakeup

PROPERTIES
    
    SessionEnds
    ControlLossEnds
