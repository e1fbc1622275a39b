SPECIFICATION Spec
CONSTANTS
    MaxSize = 3
    MaxSrv = 4
    MaxApp = 2
    Wnd = 2
    SndCap = 1
INVARIANTS
    TypeOK
    InFlightIntact
    StreamInOrder
    WindowAccounting
    NoLostWakeup
PROPERTIES
    AbortLosesNothing
    CarriesUp
    CarriesDown
