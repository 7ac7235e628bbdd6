SPECIFICATION InstallationSpec
CONSTANTS
    Parts = {"links", "desktop", "access", "invites", "presence", "room", "reading", "reactions",
             "bot", "panel", "channels", "workspace", "track"}
    Owner = owner  Member = member  Newcomers = {n1}
    MaxSessions = 3  NoGrant = NoGrant  Nobody = Nobody
    MaxLinks = 2  MaxClaims = 2  MaxLaunches = 2
    MaxCodes = 1  MaxClaimed = 1
    UseLimits = {1, Unlimited}  Unlimited = Unlimited
    MaxInvites = 2  MaxActive = 1  MaxAccessLinks = 2
    Sockets = {s1, s2}
    People = {ro, rd}  RoomOwner = ro  Reader = rd
    Emojis = {e1, e2}  MaxKinds = 1  MaxMessages = 3  MaxChanges = 1  MaxEvents = 1  HistoryLimit = 1
    Guilds = {ga, gb}  FirstGuilds = {ga}  Cycles = {c1, c2}
    MaxConnections = 4  MaxExchanges = 2
    Devices = {d1, d2}  NoDevice = NoDevice
    MaxPresses = 2  MaxMoves = 2  MaxTracks = 1  MaxPanel = 3
    RoomIds = {1, 2, 3}  VoiceIds = {2}  CategoryIds = {1, 2}  MaxLayouts = 3  MaxAsks = 1
    MaxFrames = 3  PrebufferFrames = 2  BufferMaxFrames = 2
    ServerIds = {1, 2, 3}  MaxNews = 2  MaxFlows = 2
INVARIANTS
    WaysInAreUsedOnce
    ChatHolds
    PressesAreAnswered
    WorkspaceSettles
    TracksAreExplained
PROPERTIES
    GrantsAreOneTime
    StatusIsTold
    ConnectionsEndInOrder
CHECK_DEADLOCK FALSE
