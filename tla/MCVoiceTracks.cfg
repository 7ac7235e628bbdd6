SPECIFICATION Spec
CONSTANTS
    Users <- MediaUsers
    Sessions <- MediaSessions
    Sockets <- MediaSockets
    Servers = {srv}
    Rooms <- OneRoom
    AccountOf <- MediaAccountOf
    SessionOf <- MediaSessionOf
    InstanceOf <- MediaInstanceOf
    ServerOf <- OneServerOf
    AfkRooms = {}
    MediaRequests <- VisualRequests
    ModerationRequests <- NoModeration
    VisualPublisherLimit = 3
    None = None
    ada = ada
    bo = bo
    laptop = laptop
    phone = phone
    bosTablet = bosTablet
    tab1 = tab1
    tab2 = tab2
    tab3 = tab3
    page1 = page1
    page2 = page2
    page3 = page3
    srv = srv
    lobby = lobby
    afk = afk
INVARIANT SubscribedTracksExist
