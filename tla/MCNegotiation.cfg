SPECIFICATION NegotiationSpec
CONSTANTS
    Bots = {0, 1, 2}
    MaxMediaChanges = 2
INVARIANT PairSettles
CHECK_DEADLOCK FALSE
