SPECIFICATION Spec
CONSTANTS
    QueueLimit = 2
    LogLimit = 1
    Rooms = {lounge}
    Listeners = {ada}
    Watchers = {}
    JoinMayTimeOut = TRUE
    CommandBound = 2
    MoveBound = 0
    EvictionBound = 0
    MuteBound = 0
    Bot = Bot
    None = None
INVARIANT MembershipFollowsTheSet
CHECK_DEADLOCK FALSE
