SPECIFICATION Spec
CONSTANTS
    QueueLimit = 2
    LogLimit = 1
    Rooms = {lounge, studio}
    Listeners = {ada}
    Watchers = {}
    JoinMayTimeOut = FALSE
    CommandBound = 2
    MoveBound = 1
    EvictionBound = 1
    MuteBound = 0
    Bot = Bot
    None = None
PROPERTY EvictionEndsOnlyItsSet
CHECK_DEADLOCK FALSE
