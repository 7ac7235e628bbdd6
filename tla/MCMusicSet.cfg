SPECIFICATION MusicSpec
CONSTANTS
    Parts = {"room", "rooms"}
    QueueLimit = 2
    LogLimit = 1
    Rooms = {lounge, studio}
    Listeners = {ada, bo}
    Watchers = {ada}
    JoinMayTimeOut = TRUE
    CommandBound = 3
    MoveBound = 3
    EvictionBound = 1
    MuteBound = 1
    Bot = Bot
    None = None
    ada = ada
    bo = bo
    lounge = lounge
    studio = studio
INVARIANTS
    RoomIsServed
    AnsweredJoinsHold
PROPERTIES
    TracksLeaveByName
    GraceNeverCutsAWaitShort
    BotComesToRest
CHECK_DEADLOCK FALSE
