SPECIFICATION RelaySpec
CONSTANTS
    Devices = {d1, d2}
    NoDevice = NoDevice
    MaxPresses = 1
    MaxMoves = 2
    MaxTracks = 1
INVARIANTS
    PanelsAgree
CHECK_DEADLOCK FALSE
