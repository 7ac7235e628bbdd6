SPECIFICATION Spec
CONSTANTS
    Rotation = 3
    Grace = 1
    Persistence = 2
    Memory = 4
    Window = 6
    RenewFloor = 2
    WrittenWithin = 1
    RequestDelay = 0
    ResponseDelay = 2
    LastTick = 7
    FlightBound = 1
    KillBound = 1
    None = None
INVARIANT BrowserKeepsItsSession
CHECK_DEADLOCK FALSE
