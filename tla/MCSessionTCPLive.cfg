SPECIFICATION FairSpec
CONSTANTS
    MaxSize = 2
    MaxSrv = 3
    MaxApp = 1
    Wnd = 1
    SndCap = 1
PROPERTIES
    SessionEnds
    BothClosedEnds
